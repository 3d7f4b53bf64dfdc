--------------------------- MODULE DeployPipeline --------------------------
(***************************************************************************)
(* deploy.Pipeline.Execute for the deployments of one application on the   *)
(* local Docker host: source resolution and build, the candidate           *)
(* container, the healthcheck gate, the Caddy route, the application's     *)
(* record, the removal of the previous container and the retention of      *)
(* images; with the requests that create deployments, roll back or change  *)
(* a deployment's row, the user who stops and restarts the recorded        *)
(* container, the context that is cancelled and a process that crashes     *)
(* between any two calls.                                                  *)
(*                                                                         *)
(* app.BuildContainer runs one worker, so one pipeline at a time.  Every   *)
(* call to Docker, Caddy and the database may fail; a Docker call with a   *)
(* cancelled context does fail, while Caddy and the database are called    *)
(* with contexts of their own.  A deployment d stands for the container it *)
(* starts and for the image it builds: their names carry the clock.        *)
(***************************************************************************)
EXTENDS Naturals, Sequences, FiniteSets

CONSTANTS
    Deployments,
    Keep,          \* successful images retained: 5 in Execute
    MaxMishaps,    \* bound: calls that fail, contexts that end, crashes and
                   \* interventions of users, all together
    Registry,      \* the image a docker_image application names
    None           \* no container, no image

ASSUME PipelineAssumption ==
    /\ Keep \in Nat \ {0}
    /\ MaxMishaps \in Nat
    /\ Registry \notin Deployments /\ None \notin Deployments
    /\ Registry # None

VARIABLES
    app,        \* applications row: [source, domain, container]
    status,     \* deployments rows: their status
    imageName,  \* deployments rows: their image_name
    created,    \* the deployments in order of created_at
    plan,       \* the image a queued rollback job carries, or None
    waiting,    \* jobs accepted by the queue and not yet received
    container,  \* Docker: what exists of the container of each deployment
    images,     \* Docker: the local images labuh-<app>:<time>
    routes,     \* Caddy: upstreams routed for the domain; the first one serves
    job,        \* the pipeline in execution: where it is, its deployment, the
                \* image, the container to replace, whether it switches a
                \* route, the images to keep
    ctxDone,    \* its context is cancelled or past 30 minutes
    stopping,   \* DeployWorker.Stop has cancelled the worker's context
    mishaps,    \* how many there were
    passed,     \* history: the containers that passed the gate
    abandoned,  \* history: containers whose cleanup failed or never came
    lapses      \* history: a "route" or a "record" that was missed, a
                \* successful row whose "status" was overwritten

dbVars == <<app, status, imageName, created>>
queueVars == <<plan, waiting>>
dockerVars == <<container, images>>
ctxVars == <<ctxDone, stopping>>
histVars == <<passed, abandoned, lapses>>
vars == <<dbVars, queueVars, dockerVars, routes, job, ctxVars, mishaps, histVars>>

(* "git" covers nixpacks; "dropzone" covers dockerfile, which builds from  *)
(* a directory in the same way but finds it empty.  "active" stands for    *)
(* cloning, building and deploying.                                        *)
Source == {"git", "dropzone", "docker_image"}
Status == {"absent", "queued", "active", "success", "failed"}
Pc == {"idle", "clone", "build", "pull", "run", "start", "gate", "rollback",
       "delete", "post", "record", "stopOld", "removeOld",
       "done", "finish", "list", "prune", "fail"}
ContainerState == {"absent", "running", "stopped", "removed"}
Image == Deployments \union {Registry}

Elems(s) == {s[i] : i \in DOMAIN s}
Exists(c) == container[c] \in {"running", "stopped"}
Jobs == [pc : Pc, d : Deployments \union {None}, image : Image \union {None},
         old : Deployments \union {None}, routed : BOOLEAN,
         keep : SUBSET (Image \union {None})]
NoJob == [pc |-> "idle", d |-> None, image |-> None, old |-> None,
          routed |-> FALSE, keep |-> {}]

(* The type of the state.                                                  *)
TypeOK ==
    /\ app \in [source : Source, domain : BOOLEAN,
                container : Deployments \union {None}]
    /\ status \in [Deployments -> Status]
    /\ imageName \in [Deployments -> Image \union {None}]
    /\ created \in Seq(Deployments)
    /\ plan \in [Deployments -> Image \union {None}]
    /\ waiting \in SUBSET Deployments
    /\ container \in [Deployments -> ContainerState]
    /\ images \in SUBSET Deployments
    /\ routes \in Seq(Deployments)
    /\ job \in Jobs
    /\ ctxDone \in BOOLEAN /\ stopping \in BOOLEAN
    /\ mishaps \in Nat
    /\ passed \in SUBSET Deployments
    /\ abandoned \in SUBSET Deployments
    /\ lapses \in SUBSET {"route", "record", "status"}

Init ==
    /\ app \in [source : Source, domain : BOOLEAN, container : {None}]
    /\ status = [d \in Deployments |-> "absent"]
    /\ imageName = [d \in Deployments |-> None]
    /\ created = <<>>
    /\ plan = [d \in Deployments |-> None]
    /\ waiting = {}
    /\ container = [d \in Deployments |-> "absent"]
    /\ images = {} /\ routes = <<>>
    /\ job = NoJob
    /\ ctxDone = FALSE /\ stopping = FALSE
    /\ mishaps = 0
    /\ passed = {} /\ abandoned = {} /\ lapses = {}
-----------------------------------------------------------------------------
Mishap ==
    /\ mishaps < MaxMishaps
    /\ mishaps' = mishaps + 1

(* A Docker call fails by itself, or because its context is done.          *)
CallFails == IF ctxDone THEN UNCHANGED mishaps ELSE Mishap

(* updateStep and the other statements: their errors are dropped.          *)
SetStatus(d, s) ==
    \/ status' = [status EXCEPT ![d] = s] /\ UNCHANGED mishaps
    \/ UNCHANGED status /\ Mishap

At(pc) == job.pc = pc
Goto(pc) == job' = [job EXCEPT !.pc = pc]
-----------------------------------------------------------------------------
(* Requests.                                                               *)

Succeeded == {d \in Elems(created) : status[d] = "success"}
Position(d) == CHOOSE i \in DOMAIN created : created[i] = d
Newer(d) == {e \in Succeeded : Position(e) > Position(d)}

(* A request of any kind creates the row and its job is accepted.          *)
Deploy(d) ==
    /\ d \notin Elems(created)
    /\ created' = Append(created, d)
    /\ status' = [status EXCEPT ![d] = "queued"]
    /\ waiting' = waiting \union {d}
    /\ UNCHANGED <<app, imageName, plan, dockerVars, routes, job, ctxVars,
                   mishaps, histVars>>

(* deployments.Rollback of target: to itself if it succeeded with an       *)
(* image, else to the newest deployment that succeeded.  A source without  *)
(* an image makes the job fall back to the application's own source.       *)
Rollback(d, target, source) ==
    /\ d \notin Elems(created)
    /\ target \in Elems(created) /\ source \in Succeeded
    /\ IF target \in Succeeded /\ imageName[target] # None
       THEN source = target ELSE Newer(source) = {}
    /\ status' = [status EXCEPT ![d] = "active"]
    /\ imageName' = [imageName EXCEPT ![d] = imageName[source]]
    /\ plan' = [plan EXCEPT ![d] = imageName[source]]
    /\ created' = Append(created, d)
    /\ waiting' = waiting \union {d}
    /\ UNCHANGED <<app, dockerVars, routes, job, ctxVars, mishaps, histVars>>

(* deployments.Start rewrites the row of any deployment.                   *)
StartDeployment(d) ==
    /\ d \in Elems(created)
    /\ status' = [status EXCEPT ![d] = "active"]
    /\ lapses' = IF d \in Succeeded THEN lapses \union {"status"} ELSE lapses
    /\ Mishap
    /\ UNCHANGED <<app, imageName, created, queueVars, dockerVars, routes, job,
                   ctxVars,
                   passed, abandoned>>

(* applications.Stop and Restart reach the container the row names.        *)
StopContainer ==
    /\ app.container # None /\ container[app.container] = "running"
    /\ container' = [container EXCEPT ![app.container] = "stopped"]
    /\ Mishap
    /\ UNCHANGED <<dbVars, queueVars, images, routes, job, ctxVars, histVars>>

RestartContainer ==
    /\ app.container # None /\ container[app.container] = "stopped"
    /\ container' = [container EXCEPT ![app.container] = "running"]
    /\ UNCHANGED <<dbVars, queueVars, images, routes, job, ctxVars, mishaps,
                   histVars>>
-----------------------------------------------------------------------------
(* The pipeline: an action for every call that others can observe.         *)

FirstStep(d) ==
    IF plan[d] # None \/ app.source = "docker_image" THEN "pull"
    ELSE IF app.source = "git" THEN "clone" ELSE "build"

(* A worker that is being stopped may still receive a job; its context is  *)
(* then done from the start.                                               *)
Begin(d) ==
    /\ At("idle") /\ d \in waiting
    /\ waiting' = waiting \ {d}
    /\ ctxDone' = stopping
    /\ SetStatus(d, "active")
    /\ job' = [NoJob EXCEPT !.pc = FirstStep(d), !.d = d]
    /\ UNCHANGED <<app, imageName, created, plan, dockerVars, routes, stopping,
                   histVars>>

(* The log file cannot be created: Execute returns before any statement.   *)
BeginWithoutLog(d) ==
    /\ At("idle") /\ d \in waiting
    /\ waiting' = waiting \ {d}
    /\ Mishap
    /\ UNCHANGED <<dbVars, plan, dockerVars, routes, job, ctxVars, histVars>>

Clone ==
    /\ At("clone")
    /\ \/ ~ctxDone /\ Goto("build") /\ SetStatus(job.d, "active")
       \/ Goto("fail") /\ UNCHANGED <<status, mishaps>>
    /\ UNCHANGED <<app, imageName, created, queueVars, dockerVars, routes,
                   ctxVars, histVars>>

(* The image is there: the row shows the deploy step and the application   *)
(* is read.  When that fails the pipeline goes on with its defaults: no    *)
(* container to replace and no domain.                                     *)
ImageReady(image) ==
    \/ /\ job' = [job EXCEPT !.pc = "run", !.image = image,
                             !.old = app.container, !.routed = app.domain]
       /\ SetStatus(job.d, "active")
    \/ /\ job' = [job EXCEPT !.pc = "run", !.image = image]
       /\ status' = [status EXCEPT ![job.d] = "active"]
       /\ Mishap

(* BuildImage reads the daemon's output to its end and drops it: the image *)
(* may be missing although no error is reported.                           *)
Build ==
    /\ At("build")
    /\ ImageReady(job.d)
    /\ \/ ~ctxDone /\ images' = images \union {job.d}
       \/ UNCHANGED images
    /\ UNCHANGED <<app, imageName, created, queueVars, container, routes,
                   ctxVars, histVars>>

(* An error of the build, or of the source directory before it.  After the *)
(* former cleanupFailedContainer removes the container of the              *)
(* application's row.                                                      *)
BuildFails ==
    /\ At("build")
    /\ Goto("fail")
    /\ \/ /\ app.container # None /\ ~ctxDone /\ Exists(app.container)
          /\ container' = [container EXCEPT ![app.container] = "removed"]
       \/ UNCHANGED container
    /\ UNCHANGED <<dbVars, queueVars, images, routes, ctxVars, mishaps, histVars>>

(* A reference without a registry is looked up on Docker Hub, where no     *)
(* labuh-<app> repository exists: only a registry image can be pulled.     *)
Pull ==
    /\ At("pull")
    /\ \/ /\ plan[job.d] \in {None, Registry} /\ ~ctxDone
          /\ ImageReady(Registry)
       \/ Goto("fail") /\ UNCHANGED <<status, mishaps>>
    /\ UNCHANGED <<app, imageName, created, queueVars, dockerVars, routes,
                   ctxVars, histVars>>

(* RunContainerWithCustomName creates the candidate                        *)
CreateCandidate ==
    /\ At("run") /\ ~ctxDone
    /\ job.image \in images \union {Registry}
    /\ container' = [container EXCEPT ![job.d] = "stopped"]
    /\ Goto("start")
    /\ UNCHANGED <<dbVars, queueVars, images, routes, ctxVars, mishaps, histVars>>

(* - a call that is cut off may have created it all the same -             *)
CreateFails ==
    /\ At("run")
    /\ Goto("fail")
    /\ \/ UNCHANGED <<container, abandoned, mishaps>>
       \/ /\ container' = [container EXCEPT ![job.d] = "stopped"]
          /\ abandoned' = abandoned \union {job.d}
          /\ CallFails
    /\ UNCHANGED <<dbVars, queueVars, images, routes, ctxVars, passed, lapses>>

(* Mutant: the record is updated as soon as the candidate runs.            *)
StartCandidateRecords ==
    /\ At("start") /\ ~ctxDone
    /\ container' = [container EXCEPT ![job.d] = "running"]
    /\ app' = [app EXCEPT !.container = job.d]
    /\ Goto("gate")
    /\ UNCHANGED <<status, imageName, created, queueVars, images, routes,
                   ctxVars, mishaps, histVars>>

(* and starts it,                                                          *)
StartCandidate ==
    /\ At("start") /\ ~ctxDone
    /\ container' = [container EXCEPT ![job.d] = "running"]
    /\ Goto("gate")
    /\ UNCHANGED <<dbVars, queueVars, images, routes, ctxVars, mishaps, histVars>>

(* Forced removal of a container; its error is dropped.                    *)
RemoveOrAbandon(c) ==
    \/ /\ ~ctxDone
       /\ container' = [container EXCEPT ![c] = "removed"]
       /\ UNCHANGED <<abandoned, mishaps>>
    \/ /\ container' = container
       /\ abandoned' = abandoned \union {c}
       /\ CallFails

(* or removes it again.                                                    *)
StartFails ==
    /\ At("start")
    /\ RemoveOrAbandon(job.d)
    /\ Goto("fail")
    /\ UNCHANGED <<dbVars, queueVars, images, routes, ctxVars, passed, lapses>>

(* Any answer below 500, an open port, or three seconds without an exit.   *)
GatePasses ==
    /\ At("gate") /\ ~ctxDone
    /\ passed' = passed \union {job.d}
    /\ Goto(IF job.routed THEN "delete" ELSE "record")
    /\ UNCHANGED <<dbVars, queueVars, dockerVars, routes, ctxVars, mishaps,
                   abandoned, lapses>>

(* Mutants: a failed healthcheck is a warning, as a failed route is; or it *)
(* returns without the rollback of the candidate.                          *)
GateFailsWarns ==
    /\ At("gate")
    /\ Goto(IF job.routed THEN "delete" ELSE "record")
    /\ UNCHANGED <<dbVars, queueVars, dockerVars, routes, ctxVars, mishaps,
                   histVars>>

GateFailsReturns ==
    /\ At("gate")
    /\ Goto("fail")
    /\ UNCHANGED <<dbVars, queueVars, dockerVars, routes, ctxVars, mishaps,
                   histVars>>

GateFails ==
    /\ At("gate")
    /\ Goto("rollback")
    /\ UNCHANGED <<dbVars, queueVars, dockerVars, routes, ctxVars, mishaps,
                   histVars>>

RollbackCandidate ==
    /\ At("rollback")
    /\ RemoveOrAbandon(job.d)
    /\ Goto("fail")
    /\ UNCHANGED <<dbVars, queueVars, images, routes, ctxVars, passed, lapses>>

(* Mutant: the route is added without removing the one that is there.      *)
DeleteRouteSkipped ==
    /\ At("delete")
    /\ Goto("post")
    /\ UNCHANGED <<dbVars, queueVars, dockerVars, routes, ctxVars, mishaps,
                   histVars>>

(* AddRouteWithOptions: DELETE of the domain's route, its error dropped,   *)
DeleteRoute ==
    /\ At("delete")
    /\ Goto("post")
    /\ \/ routes = <<>> /\ UNCHANGED <<routes, lapses, mishaps>>
       \/ /\ \E i \in DOMAIN routes :
                routes' = SubSeq(routes, 1, i - 1) \o SubSeq(routes, i + 1, Len(routes))
          /\ UNCHANGED <<lapses, mishaps>>
       \/ UNCHANGED routes /\ lapses' = lapses \union {"route"} /\ Mishap
    /\ UNCHANGED <<dbVars, queueVars, dockerVars, ctxVars, passed, abandoned>>

(* then POST of the new one, whose error is a warning in the log.          *)
PostRoute ==
    /\ At("post")
    /\ Goto("record")
    /\ \/ routes' = Append(routes, job.d) /\ UNCHANGED <<lapses, mishaps>>
       \/ UNCHANGED routes /\ lapses' = lapses \union {"route"} /\ Mishap
    /\ UNCHANGED <<dbVars, queueVars, dockerVars, ctxVars, passed, abandoned>>

(* UpdateContainerAndStatus.  When the statement fails the row goes on     *)
(* naming the previous container, which is removed all the same; when the  *)
(* application was not read, its container is replaced and never removed.  *)
Record ==
    /\ At("record")
    /\ Goto(IF job.old = None THEN "done" ELSE "stopOld")
    /\ \/ /\ app' = [app EXCEPT !.container = job.d]
          /\ abandoned' = abandoned \union ({app.container} \ {job.old, None})
          /\ lapses' = IF app.domain /\ ~job.routed
                       THEN lapses \union {"route"} ELSE lapses
          /\ UNCHANGED mishaps
       \/ /\ UNCHANGED app
          /\ abandoned' = abandoned \union {job.d}
          /\ lapses' = lapses \union {"record"}
          /\ Mishap
    /\ UNCHANGED <<status, imageName, created, queueVars, dockerVars, routes,
                   ctxVars, passed>>

(* Mutant: the previous container is stopped and forgotten.                *)
StopOldOnly ==
    /\ At("stopOld")
    /\ Goto("done")
    /\ container' = IF ~ctxDone THEN [container EXCEPT ![job.old] = "stopped"]
                    ELSE container
    /\ UNCHANGED <<dbVars, queueVars, images, routes, ctxVars, mishaps, histVars>>

StopOld ==
    /\ At("stopOld")
    /\ Goto("removeOld")
    /\ \/ /\ ~ctxDone /\ container[job.old] = "running"
          /\ container' = [container EXCEPT ![job.old] = "stopped"]
          /\ UNCHANGED mishaps
       \/ /\ UNCHANGED container
          /\ IF container[job.old] = "running" THEN CallFails ELSE UNCHANGED mishaps
    /\ UNCHANGED <<dbVars, queueVars, images, routes, ctxVars, histVars>>

RemoveOld ==
    /\ At("removeOld")
    /\ Goto("done")
    /\ RemoveOrAbandon(job.old)
    /\ UNCHANGED <<dbVars, queueVars, images, routes, ctxVars, passed, lapses>>

(* Mutant: the application's status is written to the deployment's row.    *)
WriteSuccessAsRunning ==
    /\ At("done")
    /\ Goto("finish")
    /\ SetStatus(job.d, "running")
    /\ UNCHANGED <<app, imageName, created, queueVars, dockerVars, routes,
                   ctxVars, histVars>>

WriteSuccess ==
    /\ At("done")
    /\ Goto("finish")
    /\ SetStatus(job.d, "success")
    /\ UNCHANGED <<app, imageName, created, queueVars, dockerVars, routes,
                   ctxVars, histVars>>

(* UpdateImageName and MarkFinished.                                       *)
WriteImage ==
    /\ At("finish")
    /\ Goto("list")
    /\ \/ imageName' = [imageName EXCEPT ![job.d] = job.image] /\ UNCHANGED mishaps
       \/ UNCHANGED imageName /\ Mishap
    /\ UNCHANGED <<app, status, created, queueVars, dockerVars, routes,
                   ctxVars, histVars>>

(* The newest Keep of some deployments.                                    *)
WithImage == {d \in Succeeded : imageName[d] # None}
Newest(rows) == {d \in rows : Cardinality(Newer(d) \intersect rows) < Keep}
ImagesOf(rows) == {imageName[d] : d \in rows}

(* GetRecentSuccessfulImages: the newest Keep images, each once.  Which of *)
(* its deployments an image is taken at, the DISTINCT of the query leaves  *)
(* open.                                                                   *)
Distinct(rows) ==
    /\ ImagesOf(rows) = ImagesOf(WithImage)
    /\ \A d, e \in rows : imageName[d] = imageName[e] => d = e

(* Mutant: only the image just deployed is kept.                           *)
ReadRetainedCurrent ==
    /\ At("list")
    /\ job' = [job EXCEPT !.pc = "prune", !.keep = {job.image}]
    /\ UNCHANGED <<dbVars, queueVars, dockerVars, routes, ctxVars, mishaps,
                   histVars>>

(* pruneOldCachedImages: what to keep is read once, before Docker is asked *)
(* for the list and the removals; an error of either read ends it.         *)
ReadRetained ==
    /\ At("list")
    /\ \/ \E rows \in SUBSET WithImage :
             /\ Distinct(rows)
             /\ job' = [job EXCEPT !.pc = "prune",
                                   !.keep = ImagesOf(Newest(rows)) \union {job.image}]
       \/ job' = NoJob
    /\ UNCHANGED <<dbVars, queueVars, dockerVars, routes, ctxVars, mishaps,
                   histVars>>

(* An image that some container still uses is not removed.                 *)
PruneImage(i) ==
    /\ At("prune") /\ ~ctxDone
    /\ i \in images \ job.keep /\ ~Exists(i)
    /\ images' = images \ {i}
    /\ UNCHANGED <<dbVars, queueVars, container, routes, job, ctxVars, mishaps,
                   histVars>>

PruneEnds ==
    /\ At("prune")
    /\ job' = NoJob
    /\ UNCHANGED <<dbVars, queueVars, dockerVars, routes, ctxVars, mishaps,
                   histVars>>

WriteFailure ==
    /\ At("fail")
    /\ SetStatus(job.d, "failed")
    /\ job' = NoJob
    /\ UNCHANGED <<app, imageName, created, queueVars, dockerVars, routes,
                   ctxVars, histVars>>
-----------------------------------------------------------------------------
(* The 30 minutes of the job run out.                                      *)
Timeout ==
    /\ ~At("idle") /\ ~ctxDone
    /\ ctxDone' = TRUE
    /\ Mishap
    /\ UNCHANGED <<dbVars, queueVars, dockerVars, routes, job, stopping,
                   histVars>>

(* DeployWorker.Stop cancels the context of every job, running or waiting. *)
Stop ==
    /\ ~stopping
    /\ stopping' = TRUE
    /\ ctxDone' = ~At("idle")
    /\ Mishap
    /\ UNCHANGED <<dbVars, queueVars, dockerVars, routes, job, histVars>>

(* The container only the pipeline in execution knows of.                  *)
InFlight ==
    CASE job.pc \in {"start", "gate", "rollback", "delete", "post", "record"} -> {job.d}
      [] job.pc \in {"stopOld", "removeOld"} -> {job.old}
      [] OTHER -> {}

(* The process ends, between any two calls or after Stop, and is started   *)
(* again: rows, containers, images and routes are what is left.            *)
Crash ==
    /\ Mishap
    /\ job' = NoJob
    /\ waiting' = {}
    /\ ctxDone' = FALSE /\ stopping' = FALSE
    /\ abandoned' = abandoned \union InFlight
    /\ lapses' = IF job.pc \in {"post", "record"} THEN lapses \union {"route"}
                 ELSE lapses
    /\ UNCHANGED <<dbVars, plan, dockerVars, routes, passed>>
-----------------------------------------------------------------------------
Request ==
    \/ \E d \in Deployments :
          \/ Deploy(d) \/ StartDeployment(d)
          \/ \E target, source \in Deployments : Rollback(d, target, source)
    \/ StopContainer \/ RestartContainer

PipelineStep ==
    \/ Clone \/ Build \/ BuildFails \/ Pull
    \/ CreateCandidate \/ CreateFails \/ StartCandidate \/ StartFails
    \/ GatePasses \/ GateFails \/ RollbackCandidate
    \/ DeleteRoute \/ PostRoute \/ Record \/ StopOld \/ RemoveOld
    \/ WriteSuccess \/ WriteImage \/ ReadRetained
    \/ (\E i \in Deployments : PruneImage(i)) \/ PruneEnds
    \/ WriteFailure

Next ==
    \/ Request
    \/ \E d \in Deployments : Begin(d) \/ BeginWithoutLog(d)
    \/ PipelineStep
    \/ Timeout \/ Stop \/ Crash

Spec == Init /\ [][Next]_vars
-----------------------------------------------------------------------------
(* Traffic and the application's record only ever name a container that    *)
(* has passed the healthcheck gate, whatever fails, times out or crashes   *)
(* in between.                                                             *)
Gated ==
    /\ Elems(routes) \subseteq passed
    /\ app.container \in passed \union {None}

(* Execute cleans up after itself on every path: what exists in Docker is  *)
(* the recorded container, the one the running pipeline still has to deal  *)
(* with, and those whose cleanup was tried in vain or cut off - which it   *)
(* is whenever the context is done (CleanedUpOnCancel).                    *)
NoOrphans ==
    {c \in Deployments : Exists(c)}
        \subseteq {app.container} \union InFlight \union abandoned

(* Outside the switch the domain is routed to the recorded container and   *)
(* to nothing else, unless a call to Caddy or the record was missed.       *)
RouteFollowsRecord ==
    (lapses \intersect {"route", "record"} = {} /\ job.pc \notin {"post", "record"})
        => routes = IF app.domain /\ app.container # None
                    THEN <<app.container>> ELSE <<>>

RollbackImages == ImagesOf(Newest(WithImage))

(* Rollback targets: each of the newest Keep successful deployments still  *)
(* has its image locally, although every success prunes images.            *)
CachedImagesKept ==
    "status" \notin lapses => RollbackImages \subseteq images \union {Registry}

(* A row becomes "success" only when its container has passed the gate and *)
(* has been recorded (or its record was lost), and every other container   *)
(* is gone or was abandoned.                                               *)
SuccessIsEarned ==
    [][\A d \in Deployments :
          status'[d] = "success" /\ status[d] # "success"
             => /\ d \in passed
                /\ d \in {app.container} \union abandoned
                /\ {c \in Deployments : Exists(c)}
                      \subseteq {d, app.container} \union abandoned]_vars

(* The record moves from container to container as a blue/green deployment *)
(* promises.                                                               *)
Stage(d) ==
    CASE app.container = d -> "live"
      [] app.container # d /\ d \in InFlight /\ d = job.d ->
            IF d \in passed THEN "healthy" ELSE "candidate"
      [] app.container # d /\ ~(d \in InFlight /\ d = job.d) ->
            IF container[d] = "absent" THEN "new" ELSE "gone"

Contract == INSTANCE BlueGreen WITH stage <- [d \in Deployments |-> Stage(d)]
BlueGreenSpec == Contract!Spec

(* "Stop and remove old container only after candidate is healthy and      *)
(* live" (deploy/job.go): as long as the application's row names a         *)
(* running container only its user stops it.                               *)
LiveSpared ==
    [][\A c \in Deployments :
          app.container = c /\ container[c] = "running" /\ container'[c] # "running"
             => StopContainer]_vars

(* "Re-route upstream reverse proxy Caddy secara atomik"                   *)
(* (docs/plans/build_and_deployment_engine.md): a domain that is routed    *)
(* stays routed during a switch.                                           *)
RouteSwitchAtomic == [][routes # <<>> => routes' # <<>>]_vars

(* "Cleanup kandidat juga harus terjadi jika `context` di-cancel (graceful *)
(* shutdown)" (deploy/GEMINI.md): a candidate that did not pass the gate   *)
(* is removed, also when the context has been cancelled.                   *)
CleanedUpOnCancel == [][RollbackCandidate /\ ctxDone => ~Exists(job.d)']_vars

(* "Jika image tersedia di cache, deploy langsung via docker_image"        *)
(* (deployments/handler.go): a rollback whose image is in the local cache  *)
(* gets past its image step as long as its context is live.                *)
CachedRollbackDeploys ==
    [][Pull /\ plan[job.d] \in images /\ ~ctxDone => job'.pc # "fail"]_vars
=============================================================================
