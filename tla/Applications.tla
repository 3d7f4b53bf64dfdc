---------------------------- MODULE Applications ---------------------------
(***************************************************************************)
(* The applications module over the life of one application: deployments   *)
(* replace its container while requests start and stop it, change its      *)
(* domain, limits and basic auth, and its page polls its status.  Each     *)
(* request reads the row once and then calls Docker or Caddy and writes    *)
(* the row with what it read; the deployment reads the row in the middle.  *)
(*                                                                         *)
(* DeployPipeline has the deployment in full; here it is only what it      *)
(* shares with the requests.  A deployment d stands for its container.     *)
(***************************************************************************)
EXTENDS Naturals, Sequences, FiniteSets

CONSTANTS
    Deployments,
    Domains,       \* custom domains a user may set
    Limits,        \* resource limits a user may set
    Requests,      \* requests served at the same time
    MaxRequests,   \* bound: requests in all, deployments and polls not counted
    MaxMishaps,    \* bound: failing calls, dying containers and crashes
    Configured,    \* container_name as Create chose it
    None           \* NULL

ASSUME ApplicationsAssumption ==
    /\ MaxRequests \in Nat /\ MaxMishaps \in Nat
    /\ Configured \notin Deployments /\ None \notin Deployments
    /\ None \notin Domains \union Limits

VARIABLES
    row,        \* applications: [domain, limits, container, status]
    container,  \* Docker: the container of each deployment
    limited,    \* and the limits it runs with
    routes,     \* Caddy: [domain, upstream]; of one domain the first serves
    asked,      \* deployments created
    queue,      \* those whose job has not begun
    job,        \* the pipeline in execution and what it read of the row
    req,        \* the requests in their handlers
    poll,       \* the status poll of the application's page
    served,     \* requests so far
    mishaps,    \* mishaps so far
    lapses      \* history: a "route" or limits ("drift") left behind

hostVars == <<container, limited, routes>>
deployVars == <<asked, queue, job>>
boundVars == <<served, mishaps>>
vars == <<row, hostVars, deployVars, req, poll, boundVars, lapses>>

Status == {"idle", "building", "running", "stopped"}
Upstreams == Deployments \union {Configured}
JobPcs == {"build", "run", "gate", "delete", "post", "record", "remove"}
NoJob == [pc |-> "none"]
Job == {NoJob} \union
    [pc : JobPcs, d : Deployments, old : Deployments \union {None},
     domain : Domains \union {None}, limits : Limits \union {None}]
Operations == {"start", "stop", "restart", "limits", "auth"}
Idle == [op |-> "none"]
Request == {Idle} \union
    [op : Operations, pc : {"docker", "start", "write", "delete", "post"},
     container : Deployments \union {None}, domain : Domains \union {None},
     limits : Limits \union {None}]
NoPoll == [pc |-> "none"]
Poll == {NoPoll} \union
    [pc : {"inspect", "write"}, container : Deployments, status : Status]

Init ==
    /\ row = [domain |-> None, limits |-> None, container |-> None, status |-> "idle"]
    /\ container = [d \in Deployments |-> "absent"]
    /\ limited = [d \in Deployments |-> None]
    /\ routes = <<>>
    /\ asked = {} /\ queue = {} /\ job = NoJob
    /\ req = [r \in Requests |-> Idle] /\ poll = NoPoll
    /\ served = 0 /\ mishaps = 0 /\ lapses = {}

Fails == mishaps < MaxMishaps /\ mishaps' = mishaps + 1
Works == UNCHANGED mishaps
LapseIf(condition, what) ==
    lapses' = IF condition THEN lapses \union {what} ELSE lapses

Running(c) == c # None /\ container[c] = "running"
Exists(c) == c # None /\ container[c] \in {"running", "stopped"}
RoutesOf(m) == {i \in DOMAIN routes : routes[i].domain = m}
FirstOf(m) == CHOOSE i \in RoutesOf(m) : \A j \in RoutesOf(m) : i <= j
Serving(m) == IF RoutesOf(m) = {} THEN None ELSE routes[FirstOf(m)].upstream

AllLeadTo(m, c) == \A i \in RoutesOf(m) : routes[i].upstream = c

(* DELETE /id/<domain>, whose error is dropped, removes one of the routes  *)
(* that bear the identifier.                                               *)
RemoveRoute(m) ==
    \/ /\ Works /\ LapseIf(\E i, j \in RoutesOf(m) : i # j, "route")
       /\ IF RoutesOf(m) = {} THEN UNCHANGED routes
          ELSE \E i \in RoutesOf(m) :
                 routes' = SubSeq(routes, 1, i - 1) \o SubSeq(routes, i + 1, Len(routes))
    \/ Fails /\ LapseIf(TRUE, "route") /\ UNCHANGED routes

AddRoute(m, upstream) == routes' = Append(routes, [domain |-> m, upstream |-> upstream])

----------------------------------------------------------------------------
(* Deploy: the row of the deployment, the application's status and the job. *)
Deploy(d) ==
    /\ d \notin asked
    /\ asked' = asked \union {d}
    /\ \/ Works /\ row' = [row EXCEPT !.status = "building"]
       \/ Fails /\ UNCHANGED row
    /\ \/ queue' = queue \union {d}
       \/ UNCHANGED queue    \* Enqueue refused it, which is only logged
    /\ UNCHANGED <<hostVars, job, req, poll, served, lapses>>

JobAt(pc) == job.pc = pc
JobGoto(pc) == job' = [job EXCEPT !.pc = pc]

Begin(d) ==
    /\ job = NoJob /\ d \in queue
    /\ queue' = queue \ {d}
    /\ job' = [pc |-> "build", d |-> d, old |-> None, domain |-> None, limits |-> None]
    /\ UNCHANGED <<row, hostVars, asked, req, poll, boundVars, lapses>>

(* The image is ready: the container to replace, the domain and the limits *)
(* are read now, or stay at their defaults when they cannot be.            *)
ReadRow ==
    /\ JobAt("build")
    /\ \/ /\ Works
          /\ job' = [job EXCEPT !.pc = "run", !.old = row.container,
                                !.domain = row.domain, !.limits = row.limits]
       \/ Fails /\ JobGoto("run")
    /\ UNCHANGED <<row, hostVars, asked, queue, req, poll, served, lapses>>

(* A failed build removes the container the row names.                     *)
BuildFails ==
    /\ JobAt("build") /\ job' = NoJob /\ Works
    /\ IF Exists(row.container)
       THEN /\ container' = [container EXCEPT ![row.container] = "removed"]
            /\ LapseIf(TRUE, "route")
       ELSE UNCHANGED <<container, lapses>>
    /\ UNCHANGED <<row, limited, routes, asked, queue, req, poll, served>>

RunCandidate ==
    /\ JobAt("run") /\ JobGoto("gate") /\ Works
    /\ container' = [container EXCEPT ![job.d] = "running"]
    /\ limited' = [limited EXCEPT ![job.d] = job.limits]
    /\ UNCHANGED <<row, routes, asked, queue, req, poll, served, lapses>>

RunFails ==
    /\ JobAt("run") /\ job' = NoJob /\ Works
    /\ UNCHANGED <<row, hostVars, asked, queue, req, poll, served, lapses>>

(* Mutants: the traffic stays with the previous container; the status is   *)
(* written in the deployment's words.                                      *)
GateKeepsRoute ==
    /\ JobAt("gate") /\ JobGoto("record")
    /\ UNCHANGED <<row, hostVars, asked, queue, req, poll, boundVars, lapses>>

RecordSuccess ==
    /\ JobAt("record") /\ JobGoto("remove")
    /\ row' = [row EXCEPT !.container = job.d, !.status = "success"]
    /\ UNCHANGED <<hostVars, asked, queue, req, poll, boundVars, lapses>>

(* The healthcheck gate; a candidate that fails is removed, if it can be.  *)
Gate ==
    /\ JobAt("gate")
    /\ \/ /\ Works /\ UNCHANGED container
          /\ JobGoto(IF job.domain # None THEN "delete" ELSE "record")
       \/ /\ Works /\ job' = NoJob
          /\ container' = [container EXCEPT ![job.d] = "removed"]
       \/ Fails /\ job' = NoJob /\ UNCHANGED container
    /\ UNCHANGED <<row, limited, routes, asked, queue, req, poll, served, lapses>>

DeleteRoute ==
    /\ JobAt("delete") /\ JobGoto("post")
    /\ RemoveRoute(job.domain)
    /\ UNCHANGED <<row, container, limited, asked, queue, req, poll, served>>

(* The error of the POST is a warning.                                     *)
PostRoute ==
    /\ JobAt("post") /\ JobGoto("record")
    /\ \/ /\ Works /\ AddRoute(job.domain, job.d)
          /\ LapseIf(RoutesOf(job.domain) # {}, "route")
       \/ Fails /\ LapseIf(TRUE, "route") /\ UNCHANGED routes
    /\ UNCHANGED <<row, container, limited, asked, queue, req, poll, served>>

(* UpdateContainerAndStatus.  What the row says of domain and limits may   *)
(* have changed since the pipeline read it, and nobody looks again; where  *)
(* it has not, the deployment has put right what was left behind.          *)
Record ==
    /\ JobAt("record") /\ JobGoto("remove")
    /\ \/ /\ Works /\ row' = [row EXCEPT !.container = job.d, !.status = "running"]
          /\ lapses' =
               (IF job.limits = row.limits THEN {} ELSE {"drift"})
               \union (IF \/ job.domain = row.domain /\ "route" \notin lapses
                         \/ AllLeadTo(row.domain, job.d)
                       THEN {} ELSE {"route"})
       \/ Fails /\ LapseIf(TRUE, "route") /\ UNCHANGED row
    /\ UNCHANGED <<hostVars, asked, queue, req, poll, served>>

RemoveOld ==
    /\ JobAt("remove") /\ job' = NoJob
    /\ \/ /\ Works
          /\ container' = IF job.old = None THEN container
                          ELSE [container EXCEPT ![job.old] = "removed"]
       \/ job.old # None /\ Fails /\ UNCHANGED container
    /\ UNCHANGED <<row, limited, routes, asked, queue, req, poll, served, lapses>>

Pipeline ==
    \/ \E d \in Deployments : Begin(d)
    \/ ReadRow \/ BuildFails \/ RunCandidate \/ RunFails \/ Gate
    \/ DeleteRoute \/ PostRoute \/ Record \/ RemoveOld

----------------------------------------------------------------------------
Arrive(r, op, pc, l) ==
    /\ req[r] = Idle /\ served < MaxRequests
    /\ served' = served + 1
    /\ req' = [req EXCEPT ![r] =
                [op |-> op, pc |-> pc, container |-> row.container,
                 domain |-> row.domain, limits |-> l]]
    /\ UNCHANGED <<row, hostVars, deployVars, poll, mishaps, lapses>>

Ask == served < MaxRequests /\ served' = served + 1
At(r, op, pc) == req[r].op = op /\ req[r] # Idle /\ req[r].pc = pc
Goto(r, pc) == req' = [req EXCEPT ![r].pc = pc]
Return(r) == req' = [req EXCEPT ![r] = Idle]

(* Both write the row and leave Caddy as it is: the routes of the domain   *)
(* that was, and the lack of one for the domain that will be, last until   *)
(* the next deployment.                                                    *)
UpdateCustomDomain(m) ==
    /\ Ask
    /\ row' = [row EXCEPT !.domain = m]
    /\ UNCHANGED <<hostVars, deployVars, req, poll, mishaps>>

SetDomain(m) ==
    /\ UpdateCustomDomain(m)
    /\ LapseIf(Serving(m) \notin {None, row.container}, "route")

RemoveDomain ==
    /\ UpdateCustomDomain(None)
    /\ UNCHANGED lapses

(* Start, Stop and Restart of an application without a container go        *)
(* straight to its status.                                                 *)
BeginControl(r, op) ==
    Arrive(r, op, IF row.container = None THEN "write" ELSE "docker", None)

(* Start only looks: a container that does not run is not started.         *)
StartCall(r) ==
    /\ At(r, "start", "docker")
    /\ \/ Works /\ Running(req[r].container) /\ Return(r)
       \/ Works /\ ~Running(req[r].container) /\ Goto(r, "write")
       \/ Fails /\ Goto(r, "write")
    /\ UNCHANGED <<row, hostVars, deployVars, poll, served, lapses>>

StopCall(r) ==
    /\ At(r, "stop", "docker") /\ Goto(r, "write")
    /\ \/ /\ Works
          /\ container' = IF Running(req[r].container)
                          THEN [container EXCEPT ![req[r].container] = "stopped"]
                          ELSE container
       \/ Fails /\ UNCHANGED container
    /\ UNCHANGED <<row, limited, routes, deployVars, poll, served, lapses>>

(* Restart stops the container and starts it; where either fails, and      *)
(* neither knows a container that is gone, the request ends there.         *)
RestartStop(r) ==
    /\ At(r, "restart", "docker")
    /\ \/ /\ Works /\ Exists(req[r].container) /\ Goto(r, "start")
          /\ container' = [container EXCEPT ![req[r].container] = "stopped"]
       \/ /\ (~Exists(req[r].container) /\ Works) \/ Fails
          /\ Return(r) /\ UNCHANGED container
    /\ UNCHANGED <<row, limited, routes, deployVars, poll, served, lapses>>

RestartStart(r) ==
    /\ At(r, "restart", "start")
    /\ \/ /\ Works /\ Exists(req[r].container) /\ Goto(r, "write")
          /\ container' = [container EXCEPT ![req[r].container] = "running"]
       \/ /\ (~Exists(req[r].container) /\ Works) \/ Fails
          /\ Return(r) /\ UNCHANGED container
    /\ UNCHANGED <<row, limited, routes, deployVars, poll, served, lapses>>

StatusWrite(r) ==
    /\ \E op \in {"start", "stop", "restart"} : At(r, op, "write")
    /\ Return(r)
    /\ \/ /\ Works
          /\ row' = [row EXCEPT !.status =
                       IF req[r].op = "stop" THEN "stopped" ELSE "running"]
       \/ Fails /\ UNCHANGED row
    /\ UNCHANGED <<hostVars, deployVars, poll, served, lapses>>

(* Mutant: the limits are left for the next deployment.                    *)
LimitsWriteOnly(r) ==
    /\ At(r, "limits", "write") /\ Return(r) /\ Works
    /\ row' = [row EXCEPT !.limits = req[r].limits]
    /\ UNCHANGED <<hostVars, deployVars, poll, served, lapses>>

(* UpdateResourceLimits writes the row, then updates the container that    *)
(* the row named when the request came.                                    *)
LimitsWrite(r) ==
    /\ At(r, "limits", "write")
    /\ \/ /\ Works /\ row' = [row EXCEPT !.limits = req[r].limits]
          /\ IF req[r].container = None
             THEN Return(r) /\ LapseIf(row.container # None, "drift")
             ELSE Goto(r, "docker") /\ UNCHANGED lapses
       \/ Fails /\ Return(r) /\ UNCHANGED <<row, lapses>>
    /\ UNCHANGED <<hostVars, deployVars, poll, served>>

(* A limit that is not set is sent as zero, which Docker takes for         *)
(* "unchanged"; a container that does not run is left alone.               *)
LimitsCall(r) ==
    /\ At(r, "limits", "docker") /\ Return(r)
    /\ \/ /\ Works /\ Running(req[r].container) /\ req[r].limits # None
          /\ limited' = [limited EXCEPT ![req[r].container] = req[r].limits]
          /\ LapseIf(row.container # req[r].container \/ row.limits # req[r].limits, "drift")
       \/ /\ (~(Running(req[r].container) /\ req[r].limits # None) /\ Works) \/ Fails
          /\ LapseIf(TRUE, "drift") /\ UNCHANGED limited
    /\ UNCHANGED <<row, container, routes, deployVars, poll, served>>

(* UpdateBasicAuth writes the row and, for an application with a domain,   *)
(* puts the route again at once, with container_name for its upstream: a   *)
(* name that no deployment ever gives to a container.                      *)
AuthDelete(r) ==
    /\ At(r, "auth", "delete") /\ Goto(r, "post")
    /\ RemoveRoute(req[r].domain)
    /\ UNCHANGED <<row, container, limited, deployVars, poll, served>>

AuthPost(r) ==
    /\ At(r, "auth", "post") /\ Return(r)
    /\ \/ Works /\ AddRoute(req[r].domain, Configured)
       \/ Fails /\ UNCHANGED routes
    /\ LapseIf(TRUE, "route")
    /\ UNCHANGED <<row, container, limited, deployVars, poll, served>>

Begins(r) ==
    \/ \E op \in {"start", "stop", "restart"} : BeginControl(r, op)
    \/ \E l \in Limits \union {None} : Arrive(r, "limits", "write", l)
    \/ row.domain # None /\ Arrive(r, "auth", "delete", None)

Handle(r) ==
    \/ StartCall(r) \/ StopCall(r) \/ RestartStop(r) \/ RestartStart(r) \/ StatusWrite(r)
    \/ LimitsWrite(r) \/ LimitsCall(r) \/ AuthDelete(r) \/ AuthPost(r)

----------------------------------------------------------------------------
(* Status, which the application's page requests every few seconds.        *)
PollRead ==
    /\ poll = NoPoll /\ row.container # None
    /\ poll' = [pc |-> "inspect", container |-> row.container, status |-> row.status]
    /\ UNCHANGED <<row, hostVars, deployVars, req, boundVars, lapses>>

Inspected(c) == IF Running(c) THEN "running" ELSE "stopped"

(* Mutant: an application that is being built is left to its deployment.   *)
PollInspectBuilding ==
    /\ poll.pc = "inspect"
    /\ poll' = IF /\ Exists(poll.container)
                  /\ poll.status \notin {"building", Inspected(poll.container)}
               THEN [poll EXCEPT !.pc = "write", !.status = Inspected(poll.container)]
               ELSE NoPoll
    /\ UNCHANGED <<row, hostVars, deployVars, req, boundVars, lapses>>

PollInspect ==
    /\ poll.pc = "inspect"
    /\ \/ /\ Works
          /\ poll' = IF /\ Exists(poll.container)
                        /\ poll.status \notin {"idle", Inspected(poll.container)}
                     THEN [poll EXCEPT !.pc = "write", !.status = Inspected(poll.container)]
                     ELSE NoPoll
       \/ Fails /\ poll' = NoPoll
    /\ UNCHANGED <<row, hostVars, deployVars, req, served, lapses>>

PollWrite ==
    /\ poll.pc = "write" /\ poll' = NoPoll
    /\ \/ Works /\ row' = [row EXCEPT !.status = poll.status]
       \/ Fails /\ UNCHANGED row
    /\ UNCHANGED <<hostVars, deployVars, req, served, lapses>>

----------------------------------------------------------------------------
ContainerExits(d) ==
    /\ container[d] = "running" /\ Fails
    /\ container' = [container EXCEPT ![d] = "stopped"]
    /\ UNCHANGED <<row, limited, routes, deployVars, req, poll, served, lapses>>

(* The process dies: nobody takes up the queue or what was under way.      *)
Crash ==
    /\ Fails
    /\ queue' = {} /\ job' = NoJob
    /\ req' = [r \in Requests |-> Idle] /\ poll' = NoPoll
    /\ lapses' = lapses
         \union (IF \E r \in Requests : At(r, "limits", "docker") THEN {"drift"} ELSE {})
         \union (IF job.pc \in {"post", "record"} \/ \E r \in Requests : At(r, "auth", "post")
                 THEN {"route"} ELSE {})
    /\ UNCHANGED <<row, hostVars, asked, served>>

Serve ==
    \/ \E d \in Deployments : Deploy(d) \/ ContainerExits(d)
    \/ Pipeline
    \/ RemoveDomain \/ \E m \in Domains : SetDomain(m)
    \/ \E r \in Requests : Begins(r) \/ Handle(r)
    \/ PollRead \/ PollInspect \/ PollWrite

Next == Serve \/ Crash

(* Somebody has the page open, and it keeps polling.                       *)
Polled == WF_vars(PollRead) /\ WF_vars(PollInspect \/ PollWrite)

Spec == Init /\ [][Next]_vars
LiveSpec == Spec /\ Polled
----------------------------------------------------------------------------
(* The type of the state.                                                  *)
TypeOK ==
    /\ row \in [domain : Domains \union {None}, limits : Limits \union {None},
                container : Deployments \union {None}, status : Status]
    /\ container \in [Deployments -> {"absent", "running", "stopped", "removed"}]
    /\ limited \in [Deployments -> Limits \union {None}]
    /\ routes \in Seq([domain : Domains, upstream : Upstreams])
    /\ asked \in SUBSET Deployments /\ queue \in SUBSET Deployments
    /\ job \in Job
    /\ req \in [Requests -> Request]
    /\ poll \in Poll
    /\ served \in Nat /\ mishaps \in Nat
    /\ lapses \in SUBSET {"route", "drift"}

(* The container of the application runs with the limits its row shows,    *)
(* except while UpdateResourceLimits is on its way to it, and after an     *)
(* update that did not reach it: one that failed, that found no running    *)
(* container, that cleared a limit, or that crossed a deployment or        *)
(* another update.                                                         *)
LimitsInForce ==
    Running(row.container) =>
        \/ limited[row.container] = row.limits
        \/ "drift" \in lapses
        \/ \E r \in Requests : At(r, "limits", "docker")

(* What serves the application's domain is the container its row names,    *)
(* or, between the switch of the route and the record of it, its           *)
(* successor.  So the deployment removes no container that still serves.   *)
(* The exceptions leave a lapse: a call to Caddy that failed or crossed    *)
(* another, a row that was not written, a build whose failure removed the  *)
(* container, a domain that has a route from an earlier time, and every    *)
(* live update of the basic auth.                                          *)
RouteLeads ==
    row.domain # None /\ Serving(row.domain) # None =>
        \/ Exists(row.container) /\ Serving(row.domain) = row.container
        \/ JobAt("record") /\ Serving(row.domain) = job.d
        \/ "route" \in lapses

(* Whatever order requests, deployments and polls write the status in, and *)
(* whatever they claim - Start reports a container as running that it      *)
(* never started, Deploy leaves "building" behind a deployment that        *)
(* failed - the row of an application that has a container comes to say    *)
(* what that container does, and goes on saying it.                        *)
StatusConverges ==
    <>[](Exists(row.container) => row.status = Inspected(row.container))

(* "Live update ke Caddy jika aplikasi sedang running dan memiliki domain  *)
(* kustom" (handler.go:706): the live update of the basic auth leaves the  *)
(* route of a running application leading to it.                           *)
LiveAuthRoute ==
    (\A r \in Requests : req[r].op # "auth") /\ job = NoJob /\ Running(row.container)
      /\ row.domain # None /\ Serving(row.domain) # None
        => Serving(row.domain) = row.container
=============================================================================
