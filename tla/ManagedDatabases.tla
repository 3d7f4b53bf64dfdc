-------------------------- MODULE ManagedDatabases -------------------------
(***************************************************************************)
(* The databases module on the local Docker host: the row of a database,   *)
(* the goroutine of Create that provisions its container, and the requests *)
(* that start, stop, delete, limit and poll it, each a read of the row     *)
(* followed by Docker calls and writes that use what was read.             *)
(*                                                                         *)
(* A database is provisioned once, by the request that creates it, so d    *)
(* also stands for the one container its provisioning may create.  Every   *)
(* call may fail (a context that has ended shows as calls that fail) and   *)
(* the process may crash between any two of them.                          *)
(***************************************************************************)
EXTENDS Naturals, FiniteSets

CONSTANTS
    Databases,
    Names,         \* container names labuh-db-<environment slug>-<slug>
    Limits,        \* resource limits a user can set
    Requests,      \* requests served at the same time
    MaxRequests,   \* bound: requests in all, polls not counted
    MaxMishaps,    \* bound: failing calls, dying containers and crashes
    None           \* no row, no name, no limits, no request

VARIABLES
    row,        \* database_services: [status, known, limits];
                \* known: container_id is set
    docker,     \* the container of each database
    limited,    \* the limits that container runs with
    name,       \* and the name it is given
    prov,       \* the provisioning goroutine of each database
    req,        \* the requests in their handlers
    poll,       \* the status poll of each database's page
    started,    \* requests so far
    mishaps,    \* mishaps so far
    lapses      \* history: what a mishap or a race left behind, and of whom

hostVars == <<docker, limited, name>>
boundVars == <<started, mishaps>>
vars == <<row, hostVars, prov, req, poll, boundVars, lapses>>

Status == {"idle", "running", "stopped", "failed"}
Row == [status : Status, known : BOOLEAN, limits : Limits \union {None}]

DatabasesAssumption ==
    /\ MaxRequests \in Nat /\ MaxMishaps \in Nat
    /\ None \notin Names \union Limits \union Row

Existing == {"created", "running", "exited"}
ProvPcs == {"none", "remove", "create", "start", "cleanup", "fail",
            "record", "done", "lost"}
InHand == {"start", "cleanup", "record"}   \* only the goroutine knows it
Operations == {"start", "stop", "delete", "limits"}
Lapses == {"orphan", "displaced", "halfdeleted", "drift"}

Idle == [op |-> "none"]
Request == {Idle} \union
    [op : Operations, db : Databases, pc : {"docker", "write"},
     known : BOOLEAN, limits : Limits \union {None}]
NoPoll == [pc |-> "none"]
Poll == {NoPoll} \union [pc : {"inspect", "write"}, status : Status]

Init ==
    /\ row = [d \in Databases |-> None]
    /\ docker = [d \in Databases |-> "none"]
    /\ limited = [d \in Databases |-> None]
    /\ name = [d \in Databases |-> None]
    /\ prov = [d \in Databases |-> "none"]
    /\ req = [r \in Requests |-> Idle]
    /\ poll = [d \in Databases |-> NoPoll]
    /\ started = 0 /\ mishaps = 0
    /\ lapses = {}

(* One call fails; nobody's state but the counter's changes.               *)
Fails == mishaps < MaxMishaps /\ mishaps' = mishaps + 1
Works == UNCHANGED mishaps

Lapse(what, d) == lapses' = lapses \union {<<what, d>>}
LapseIf(condition, what, d) ==
    lapses' = IF condition THEN lapses \union {<<what, d>>} ELSE lapses

(* An UPDATE ... WHERE id = ?: no row, no effect.                          *)
Update(d, new) ==
    row' = IF row[d] = None THEN row ELSE [row EXCEPT ![d] = new]
UpdateStatus(d, status) == Update(d, [row[d] EXCEPT !.status = status])

----------------------------------------------------------------------------
(* Create inserts the row and leaves the rest to a goroutine.              *)
Insert(d) ==
    /\ row[d] = None /\ prov[d] = "none"
    /\ row' = [row EXCEPT ![d] =
                [status |-> "idle", known |-> FALSE, limits |-> None]]
    /\ prov' = [prov EXCEPT ![d] = "remove"]
    /\ UNCHANGED <<hostVars, req, poll, boundVars, lapses>>

ProvStep(d, from, to) ==
    /\ prov[d] = from
    /\ prov' = [prov EXCEPT ![d] = to]
    /\ UNCHANGED <<req, poll, started>>

Holding(n) == {e \in Databases : name[e] = n /\ docker[e] \in Existing}

(* The environment's slug, or "prod" when it cannot be read, makes the     *)
(* name: databases of different projects may get the same one.  The result *)
(* of the pull is ignored, and RunDatabaseContainer clears the name,       *)
(* whoever's container has it.                                             *)
RemoveNamed(d, n) ==
    /\ ProvStep(d, "remove", "create")
    /\ name' = [name EXCEPT ![d] = n]
    /\ \/ /\ Works
          /\ docker' = [e \in Databases |->
                          IF e \in Holding(n) THEN "gone" ELSE docker[e]]
          /\ lapses' = lapses \union {<<"displaced", e>> : e \in Holding(n)}
       \/ Fails /\ UNCHANGED <<docker, lapses>>
    /\ UNCHANGED <<row, limited>>

CreateContainer(d) ==
    /\ ProvStep(d, "create", "start")
    /\ Holding(name[d]) = {}
    /\ docker' = [docker EXCEPT ![d] = "created"]
    /\ UNCHANGED <<row, limited, name, mishaps, lapses>>

CreateFails(d) ==
    /\ ProvStep(d, "create", "fail")
    /\ \/ Holding(name[d]) # {} /\ Works
       \/ Fails
    /\ UNCHANGED <<row, hostVars, lapses>>

StartNew(d) ==
    /\ ProvStep(d, "start", "record")
    /\ docker[d] = "created"
    /\ docker' = [docker EXCEPT ![d] = "running"]
    /\ UNCHANGED <<row, limited, name, mishaps, lapses>>

(* Mutant: a failed start returns without removing the container.          *)
StartNewFailsReturns(d) ==
    /\ ProvStep(d, "start", "fail")
    /\ \/ docker[d] # "created" /\ Works
       \/ Fails
    /\ UNCHANGED <<row, hostVars, lapses>>

StartNewFails(d) ==
    /\ ProvStep(d, "start", "cleanup")
    /\ \/ docker[d] # "created" /\ Works
       \/ Fails
    /\ UNCHANGED <<row, hostVars, lapses>>

CleanUp(d) ==
    /\ ProvStep(d, "cleanup", "fail")
    /\ \/ Works /\ docker' = [docker EXCEPT ![d] = "gone"] /\ UNCHANGED lapses
       \/ Fails /\ Lapse("orphan", d) /\ UNCHANGED docker
    /\ UNCHANGED <<row, limited, name>>

(* Mutant: a status the rest of the code does not know.                    *)
RecordFailureAsError(d) ==
    /\ ProvStep(d, "fail", "done")
    /\ UpdateStatus(d, "error")
    /\ UNCHANGED <<hostVars, mishaps, lapses>>

RecordFailure(d) ==
    /\ ProvStep(d, "fail", "done")
    /\ \/ Works /\ UpdateStatus(d, "failed")
       \/ Fails /\ UNCHANGED row
    /\ UNCHANGED <<hostVars, lapses>>

(* UpdateContainerAndStatus, and the connection string with it: a row      *)
(* deleted in the meantime takes nothing.                                  *)
RecordContainer(d) ==
    /\ ProvStep(d, "record", "done")
    /\ \/ /\ Works
          /\ Update(d, [row[d] EXCEPT !.known = TRUE, !.status = "running"])
          /\ LapseIf(row[d] = None, "orphan", d)
       \/ Fails /\ Lapse("orphan", d) /\ UNCHANGED row
    /\ UNCHANGED hostVars

Provision(d) ==
    \/ \E n \in Names : RemoveNamed(d, n)
    \/ CreateContainer(d) \/ CreateFails(d)
    \/ StartNew(d) \/ StartNewFails(d) \/ CleanUp(d)
    \/ RecordFailure(d) \/ RecordContainer(d)

----------------------------------------------------------------------------
(* A request reads the row.  Start, Stop and Delete then call Docker if    *)
(* the row they read names a container; UpdateResourceLimits writes first. *)
Begin(r, op, d, l) ==
    /\ req[r] = Idle /\ row[d] # None
    /\ started < MaxRequests /\ started' = started + 1
    /\ req' = [req EXCEPT ![r] =
                [op |-> op, db |-> d, known |-> row[d].known, limits |-> l,
                 pc |-> IF row[d].known /\ op # "limits" THEN "docker" ELSE "write"]]
    /\ UNCHANGED <<row, hostVars, prov, poll, mishaps, lapses>>

BeginStart(r, d) == Begin(r, "start", d, None)
BeginStop(r, d) == Begin(r, "stop", d, None)

(* Delete goes on without what it could not read: to the row alone.        *)
BeginDelete(r, d) ==
    \/ Begin(r, "delete", d, None)
    \/ /\ req[r] = Idle /\ row[d] # None /\ Fails
       /\ started < MaxRequests /\ started' = started + 1
       /\ req' = [req EXCEPT ![r] = [op |-> "delete", db |-> d, known |-> FALSE,
                                     limits |-> None, pc |-> "write"]]
       /\ UNCHANGED <<row, hostVars, prov, poll, lapses>>

BeginLimits(r, d, l) == Begin(r, "limits", d, l)

At(r, op, pc) == req[r].op = op /\ req[r].pc = pc
Proceed(r) == req' = [req EXCEPT ![r].pc = "write"]
Return(r) == req' = [req EXCEPT ![r] = Idle]

(* Docker's answer to Start and Stop is dropped.                           *)
StartCall(r, d) ==
    /\ At(r, "start", "docker") /\ req[r].db = d /\ Proceed(r)
    /\ \/ /\ Works
          /\ docker' = IF docker[d] \in Existing
                       THEN [docker EXCEPT ![d] = "running"] ELSE docker
       \/ Fails /\ UNCHANGED docker
    /\ UNCHANGED <<row, limited, name, prov, poll, started, lapses>>

StopCall(r, d) ==
    /\ At(r, "stop", "docker") /\ req[r].db = d /\ Proceed(r)
    /\ \/ /\ Works
          /\ docker' = IF docker[d] = "running"
                       THEN [docker EXCEPT ![d] = "exited"] ELSE docker
       \/ Fails /\ UNCHANGED docker
    /\ UNCHANGED <<row, limited, name, prov, poll, started, lapses>>

StatusWrite(r, d) ==
    /\ At(r, "start", "write") \/ At(r, "stop", "write")
    /\ req[r].db = d /\ Return(r)
    /\ \/ /\ Works
          /\ UpdateStatus(d, IF req[r].op = "start" THEN "running" ELSE "stopped")
       \/ Fails /\ UNCHANGED row
    /\ UNCHANGED <<hostVars, prov, poll, started, lapses>>

(* Delete stops and removes the container and deletes the row last.        *)
DeleteCall(r, d) ==
    /\ At(r, "delete", "docker") /\ req[r].db = d /\ Proceed(r)
    /\ \/ Works /\ docker' = [docker EXCEPT ![d] = "gone"] /\ UNCHANGED lapses
       \/ /\ Fails /\ Lapse("orphan", d)
          /\ \/ docker' = [docker EXCEPT ![d] = IF @ = "running" THEN "exited" ELSE @]
             \/ UNCHANGED docker
    /\ UNCHANGED <<row, limited, name, prov, poll, started>>

(* The row may name a container that it did not when it was read, or that  *)
(* nobody could read.                                                      *)
DeleteRow(r, d) ==
    /\ At(r, "delete", "write") /\ req[r].db = d /\ Return(r)
    /\ \/ /\ Works
          /\ row' = [row EXCEPT ![d] = None]
          /\ LapseIf(~req[r].known /\ row[d] # None /\ row[d].known, "orphan", d)
       \/ Fails /\ Lapse("halfdeleted", d) /\ UNCHANGED row
    /\ UNCHANGED <<hostVars, prov, poll, started>>

(* The new limits reach the row; the container only if the row that was    *)
(* read names it.                                                          *)
LimitsWrite(r, d) ==
    /\ At(r, "limits", "write") /\ req[r].db = d
    /\ \/ /\ Works
          /\ Update(d, [row[d] EXCEPT !.limits = req[r].limits])
          /\ IF req[r].known
             THEN req' = [req EXCEPT ![r].pc = "docker"] /\ UNCHANGED lapses
             ELSE Return(r) /\ Lapse("drift", d)
       \/ Fails /\ Return(r) /\ UNCHANGED <<row, lapses>>
    /\ UNCHANGED <<hostVars, prov, poll, started>>

(* UpdateContainerResources sends a limit that is not set as zero, which   *)
(* Docker takes for "unchanged".                                           *)
LiveUpdate(d, l) ==
    limited' = IF l = None THEN limited ELSE [limited EXCEPT ![d] = l]

Crossed(r, d) ==
    /\ row[d] # None /\ row[d].limits # req[r].limits
    /\ \A q \in Requests \ {r} :
            req[q] # Idle => ~(At(q, "limits", "docker") /\ req[q].db = d)

LimitsCall(r, d) ==
    /\ At(r, "limits", "docker") /\ req[r].db = d /\ Return(r)
    /\ \/ /\ Works /\ docker[d] = "running"
          /\ LiveUpdate(d, req[r].limits)
          /\ LapseIf(req[r].limits = None \/ Crossed(r, d), "drift", d)
       \/ /\ (docker[d] # "running" /\ Works) \/ Fails
          /\ Lapse("drift", d) /\ UNCHANGED limited
    /\ UNCHANGED <<row, docker, name, prov, poll, started>>

Handle(r) == \E d \in Databases :
    \/ StartCall(r, d) \/ StopCall(r, d) \/ StatusWrite(r, d)
    \/ DeleteCall(r, d) \/ DeleteRow(r, d)
    \/ LimitsWrite(r, d) \/ LimitsCall(r, d)

----------------------------------------------------------------------------
(* Status, which the page of a database requests every few seconds.        *)
PollRead(d) ==
    /\ poll[d] = NoPoll /\ row[d] # None /\ row[d].known
    /\ poll' = [poll EXCEPT ![d] = [pc |-> "inspect", status |-> row[d].status]]
    /\ UNCHANGED <<row, hostVars, prov, req, boundVars, lapses>>

Inspected(d) == IF docker[d] = "running" THEN "running" ELSE "stopped"

(* Mutant: the poll promotes a container that came up and never demotes.   *)
PollInspectPromotes(d) ==
    /\ poll[d].pc = "inspect"
    /\ poll' = [poll EXCEPT ![d] = IF @.status # "running" /\ docker[d] = "running"
                                  THEN [pc |-> "write", status |-> "running"]
                                  ELSE NoPoll]
    /\ UNCHANGED <<row, hostVars, prov, req, boundVars, lapses>>

PollInspect(d) ==
    /\ poll[d].pc = "inspect"
    /\ \/ /\ Works /\ docker[d] \in Existing
          /\ poll' = [poll EXCEPT ![d] = IF @.status = Inspected(d) THEN NoPoll
                                         ELSE [pc |-> "write", status |-> Inspected(d)]]
       \/ /\ (docker[d] \notin Existing /\ Works) \/ Fails
          /\ poll' = [poll EXCEPT ![d] = NoPoll]
    /\ UNCHANGED <<row, hostVars, prov, req, started, lapses>>

PollWrite(d) ==
    /\ poll[d].pc = "write"
    /\ poll' = [poll EXCEPT ![d] = NoPoll]
    /\ \/ Works /\ UpdateStatus(d, poll[d].status)
       \/ Fails /\ UNCHANGED row
    /\ UNCHANGED <<hostVars, prov, req, started, lapses>>

----------------------------------------------------------------------------
(* The database server dies in its container.                              *)
ContainerExits(d) ==
    /\ docker[d] = "running" /\ Fails
    /\ docker' = [docker EXCEPT ![d] = "exited"]
    /\ UNCHANGED <<row, limited, name, prov, req, poll, started, lapses>>

(* The process dies; nothing resumes what it was doing.                    *)
Interrupted(op, pc) ==
    {d \in Databases : \E r \in Requests :
        req[r] # Idle /\ At(r, op, pc) /\ req[r].db = d}

Crash ==
    /\ Fails
    /\ prov' = [d \in Databases |-> IF prov[d] \in {"none", "done"} THEN prov[d] ELSE "lost"]
    /\ req' = [r \in Requests |-> Idle]
    /\ poll' = [d \in Databases |-> NoPoll]
    /\ lapses' = lapses
         \union {<<"orphan", d>> : d \in {e \in Databases : prov[e] \in InHand}}
         \union {<<"halfdeleted", d>> : d \in Interrupted("delete", "write")}
         \union {<<"drift", d>> : d \in Interrupted("limits", "docker")}
    /\ UNCHANGED <<row, hostVars, started>>

Next ==
    \/ \E d \in Databases : Insert(d) \/ Provision(d) \/ ContainerExits(d)
    \/ \E d \in Databases : PollRead(d) \/ PollInspect(d) \/ PollWrite(d)
    \/ \E r \in Requests, d \in Databases :
            BeginStart(r, d) \/ BeginStop(r, d) \/ BeginDelete(r, d)
    \/ \E r \in Requests, d \in Databases, l \in Limits \union {None} : BeginLimits(r, d, l)
    \/ \E r \in Requests : Handle(r)
    \/ Crash

(* Goroutines are scheduled, and an open page keeps polling.               *)
Fairness ==
    /\ \A d \in Databases : WF_vars(Provision(d))
    /\ \A d \in Databases : WF_vars(PollRead(d)) /\ WF_vars(PollInspect(d) \/ PollWrite(d))
    /\ \A r \in Requests : WF_vars(Handle(r))

Spec == Init /\ [][Next]_vars
LiveSpec == Spec /\ Fairness
----------------------------------------------------------------------------
(* The types of the variables.                                             *)
TypeOK ==
    /\ row \in [Databases -> Row \union {None}]
    /\ docker \in [Databases -> Existing \union {"none", "gone"}]
    /\ limited \in [Databases -> Limits \union {None}]
    /\ name \in [Databases -> Names \union {None}]
    /\ prov \in [Databases -> ProvPcs]
    /\ req \in [Requests -> Request]
    /\ poll \in [Databases -> Poll]
    /\ started \in Nat /\ mishaps \in Nat
    /\ lapses \subseteq Lapses \X Databases

Busy(op, pc, d) == \E r \in Requests : req[r] # Idle /\ At(r, op, pc) /\ req[r].db = d

(* A container that no row names is in the hands of the goroutine that     *)
(* creates it, or a call failed, the process crashed, or the database was  *)
(* deleted by a request that read the row before it named a container.     *)
NoOrphans == \A d \in Databases :
    docker[d] \in Existing /\ (row[d] = None \/ ~row[d].known) =>
        prov[d] \in InHand \/ <<"orphan", d>> \in lapses

(* The container a row names exists, unless a database of the same name    *)
(* displaced it, or a delete is under way or failed half-way.              *)
RecordedExists == \A d \in Databases :
    row[d] # None /\ row[d].known =>
        \/ docker[d] \in Existing
        \/ <<"displaced", d>> \in lapses \/ <<"halfdeleted", d>> \in lapses
        \/ Busy("delete", "write", d)

(* A running container runs with the limits its row shows, except while an *)
(* update is on its way and after one that could not reach the container.  *)
LimitsInForce == \A d \in Databases :
    row[d] # None /\ row[d].known /\ docker[d] = "running" =>
        \/ limited[d] = row[d].limits
        \/ <<"drift", d>> \in lapses
        \/ Busy("limits", "docker", d)

(* What a row says of its container is so: the three together.             *)
RowsTell == NoOrphans /\ RecordedExists /\ LimitsInForce

(* Whatever order requests, polls and the provisioning write the status    *)
(* in, once users and mishaps leave a database alone its row comes to say  *)
(* what its container does, and goes on saying it.                         *)
StatusConverges == \A d \in Databases :
    <>[](row[d] # None /\ row[d].known /\ docker[d] \in Existing =>
            row[d].status = Inspected(d))
=============================================================================
