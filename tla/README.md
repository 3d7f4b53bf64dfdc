# A verification of Labuh

Labuh is a self-hosted PaaS in one Go process: it builds applications from Git,
uploaded archives or images, runs them as Docker containers behind a Caddy
reverse proxy, and keeps its state in one SQLite file. This directory holds TLA+
models of its protocols, the TLC runs that check them and the TLAPS proofs about
them. Paths below are relative to the repository root; `internal/` is
`src/internal/` in `PROJECT.json`, which maps every definition to the lines it
translates.

## 1. The system

### Components, their state and their operations

| component | state | operations | module |
|---|---|---|---|
| deploy worker (`internal/worker`), `internal/app`, `internal/server` | a buffered channel of jobs (10), a semaphore (3), N worker goroutines (1 in production), the process | `Enqueue` with a five-second timer, the worker loop, `Stop`, start, both ways of stopping | `DeployQueue` |
| pipeline (`internal/deploy`) | none of its own: one job in execution | `Execute`: clone, build or pull, candidate container, healthcheck gate, route, record, removal of the previous container, status, pruning of images | `DeployPipeline` |
| deployments (`modules/deployments`) | table `deployments` | create, `Rollback`, `Start`, the stream of the deployment's log, the stream of the container's log | `DeployPipeline`, `DeployQueue`, `DeployLogs`, `ContainerStreams` |
| applications (`modules/applications`) | the application's row | deploy, start, stop, restart, domain, limits, basic auth, status poll; create, clone, move, delete, variables, dropzone, lists | `Applications`, `Workspace`, `Listing` |
| webhooks (`applications/webhooks.go`) | deployments they start | deliveries of GitHub, GitLab and others, rotation of the secret | `Webhooks` |
| cron jobs (`applications/cron_*.go`) | table of cron jobs, set of running jobs | tick, run now, toggle, delete, stop | `CronJobs` |
| Caddy client, Docker client | Caddy's routes, Docker's containers and images (other processes) | the calls of the components above, each of which may fail | in their callers |
| pool of Docker clients (`docker/pool.go`) | a map of tunnels, a read-write lock | `GetClient`, the Test button, deletion of servers | `ClientPool` |
| databases (`modules/databases`) | the database's row | provision in the background, start, stop, delete, limits, status poll | `ManagedDatabases` |
| backups (`internal/backup`, `modules/databases`, `modules/settings`) | backup rows and configuration, storage destinations, files, S3 objects | scheduler, run, upload, prune, delete, default destination | `DatabaseBackups` |
| sessions (`modules/auth`) | users, sessions | registration, login with lock-out and session cap, logout | `Access` |
| rate limiter (`middleware/ratelimit.go`) | one token bucket per client | a request, the clean-up | `RateLimiter` |
| log files (`internal/logging`) | the current file and its rotations | write, rotate, close | `DeployLogs` |
| terminal and log pages (`handler/terminal.go`, `deployments/handler.go`) | a handler and a copier goroutine | attach, type, read, scan, leave | `ContainerStreams` |
| runner (`internal/runner`) | a websocket session to a hub, jobs in execution, counters of the last heartbeat | reconnect, execute, report, heartbeat | `Runner`, `Heartbeat` |
| projects, environments, teams, compose, templates, servers | rows that hang on each other | creation and deletion, with cascades | `Workspace` |
| lists of projects, applications, databases | none | pages, plain and searched | `Listing` |
| notifications (`modules/notifications`) | channels, a goroutine per event | dispatch, create, delete | `Notifications` |
| database file (`internal/database`, `app/seed.go`, `modules/settings`) | the SQLite file | migrations, seeding, snapshot, restore | `DatabaseFile` |

Goroutines of one process share these; the worker hands a job to the pipeline,
the pipeline calls Docker and Caddy over HTTP and the repositories over
`database/sql`, and the handlers reach the same rows and containers meanwhile.
Only rows, containers, images, routes and files survive the process.

### What is hard

* Requests, a timer, a cancellation and worker goroutines meet on one channel,
  and `Stop` closes it while requests may still be sending.
* A deployment is some fifteen calls to three other programs. Most of their
  errors are dropped on purpose; any of them can be the last before a crash, and
  the context can be done from any of them on.
* The old container serves traffic until the new one has taken over. The record
  (`applications.container_id`), the route and Docker are changed one by one.
* A successful deployment prunes images that a later rollback may ask for.
* Start, stop, restart, rollback and the status poll act on what the pipeline is
  replacing; the same holds for databases and their provisioning.
* A handler is a read followed by statements and calls that use what was read.
  There are next to no transactions, so anything may happen in between.
* Pages follow files and containers that others write, rotate and end.
* Deliveries, hub sessions, uploads and SSH tunnels get lost, come twice or late.
* Foreign keys are set on one connection of a pool of 25.
* `PROJECT.json` lists the hazards, each at its line.

### What makes each component correct

* Queue: a job is in one place, is executed at most once and in the order of
  acceptance; concurrency is exactly what the semaphore allows; an accepted job
  finishes; shutdown terminates.
* Pipeline: nothing is routed to or recorded before it is healthy; no container
  is left without somebody accountable for it; the route follows the record;
  success means what it says; a success keeps the images of the last rollbacks.
* Applications and databases: rows tell the truth about containers - status,
  limits, existence - once the requests in hand are through; a domain leads to
  the recorded container.
* Cron jobs: one command of a job at a time.
* Backups: a completed backup can be restored, nothing is left that no row
  accounts for, pruning takes the oldest.
* Sessions: lock-out, session cap and first registration hold but for the
  requests in hand at the same time.
* Log files and pages: a stream that says it is done has delivered the log;
  rotation loses the oldest lines only; a page that was left ends.
* Runner: an outcome that was reported stands; the CPU figure is honest.
* Rows: none outlives what it hangs on. Webhooks: the application catches up with
  its branch. Lists: few rows are passed over. Pool: one tunnel per server.
  Notifications and rate limiter: each gets its share and no more. Database file:
  migrated once, with one catalogue, never lost by a restore.

## 2. The modules

`DeploymentLifecycle` is the abstract specification of the queue: the life of
one deployment's job, executed at most once, whose own execution is the only one
to write a final status.

`DeployQueue` is the process around the worker. A Go channel is the buffer
(`jobQueue`) and the line of blocked senders (`senders`): `Receive` hands the
freed slot to the first sender, as the runtime does. `EnqueueSend`, `-Block`,
`-Timeout`, `-Cancelled` and `-Panic` are the outcomes of the `select` in
`Enqueue`; the last is the panic of a send on a closed channel, which a `select`
may prefer to a context that is done as well. `Receive`, `ExitLoop`,
`AcquireSemaphore`, `UpdateStep`, `FinishExecute`, `ReleaseSemaphore` and
`Report` are the worker's loop, `BeginShutdown` to `StopReturns` the two ways out
of `app.Run` (in the one after a listener error the database is closed *before*
the worker is stopped), `Crash` and `Restart` the life of the process. `finished`
and `accepted` are history variables for the properties.

`BlueGreen` is the abstract specification of the pipeline: one candidate at a
time, live only after the gate, going live replaces what was live in the same
step, and nothing that has gone returns.

`DeployPipeline` is `Pipeline.Execute` for one application, an action for every
call that others can observe, with the requests that act on the same rows and
containers. A deployment stands for the container it starts and for the image it
builds; `Registry` is an image that can be pulled again. `job` is what `Execute`
keeps in local variables: `old` and `routed` are what it read of the application
when the image was ready, `keep` what it read before pruning. `ctxDone` is the
job's context, `stopping` the worker's. A *mishap* is a failing call, the
timeout, a stop, a crash, or an intervention by a user who stops the container or
rewrites a row; `MaxMishaps` bounds their number. `lapses` and `abandoned` record
what a mishap made the code miss, so that the properties can say exactly when
they hold. Each exception is a call that failed. One kind of them the code brings
about itself, by calling with a context it knows to be done: a candidate whose gate
was cancelled is in `abandoned`, and `CleanedUpOnCancel` shows that it is left every
time (finding 6).

`Applications` is the life of one application: `Deploy` and the pipeline reduced
to the calls that meet the requests (`Begin` to `RemoveOld`), and the requests,
each of which reads the row (`Arrive`) and then calls Docker or Caddy and writes
the row (`StartCall`, `StopCall`, `RestartStop` and `RestartStart`, `StatusWrite`,
`LimitsWrite`, `LimitsCall`, `AuthDelete`, `AuthPost`), the domain (`SetDomain`, `RemoveDomain`)
and the poll (`PollRead`, `PollInspect`, `PollWrite`). `lapses` notes where the
code itself leaves limits or a route behind, and `Record` clears a note when the
deployment has put it right. `CronJobs` extends it with the scheduler's goroutines
(`Guard` is `LoadOrStore`), the commands they start in the container, and `Stop`.

`ManagedDatabases` is the same for databases: `Provision` is the goroutine that
`Create` starts, from the removal of a container of the same name to the two last
writes; names can collide, and a displaced container is noted in `lapses`.

`DatabaseBackups` has the runs of the runner (`RunBackup`, `Open`, `DumpEnds`,
`Upload`, `Complete`, `QueryOld`, `PruneFiles`, `PruneRow`), the scheduler that
queues them, `DeleteBackup`, `DeleteDatabase`, `UpdateBackupConfig` and the
destinations, whose default is written in two statements. Files are named by the
second (`second`), so two runs may share one.

`ClientPool` is `GetClient` under its read-write lock with its callers; a tunnel
is a number. `ContainerStreams` is one page with its handler and copier.

`Access` is registration, login and logout, statement by statement. `Workspace` is
the tree of rows: an identifier is used once, `Down` is `ON DELETE CASCADE`,
`Enforced` says that a statement may run on a connection without foreign keys
(`escaped` then), and the dropzone, a template and a clone are requests of several
statements. `Listing` is one of the three equal lists: a set of rows, each at the
place that the number of newer ones gives it, so that one that is moved in or renamed
into a search enters in the middle. `DeployLogs` composes the
rotating writer with the stream that follows it by offset; a rotated file is known
by the second in its name. `Webhooks` has the Git
host, the handlers, rollbacks, the queue and a crash that loses it. `DatabaseFile` has
processes that start on one file, snapshots and restores; its catalogue of templates
comes from a migration, `020_seed_service_templates.sql`, before `SeedTemplates` looks
for one, so that the loop of `app/seed.go` is reached only when the templates cannot
be read. `Notifications`, `RateLimiter`, `Runner` and `Heartbeat` are what their names
say. The hub of the runner is external and taken to ask again only for a job whose end
it has not heard; a write with a context that is done is taken not to reach a new
connection, which is the websocket library's doing.

`MCDeployQueue`, `MCDeployPipeline`, `MCApplications`, `MCServices`,
`MCDatabaseBackups` and `MCConsole` are the instances TLC checks.

`Services`, `Console`, `Traffic` and `Readings` compose components that share no
state, so that one set of definitions serves both the runs and the proofs: `Services`
extends `ManagedDatabases` and instantiates `ClientPool` (`P!`) and `ContainerStreams`
(`S!`); `Console` extends `Workspace` and instantiates `Access` (`A!`), `Runner`
(`R!`) and `DatabaseFile` (`F!`); `Traffic` extends `Console` and instantiates
`Webhooks` (`H!`), `Notifications` (`N!`) and `RateLimiter` (`B!`); `Readings`
extends `Traffic` and instantiates `DeployLogs` (`L!`), `Listing` (`G!`) and
`Heartbeat` (`U!`). `ReadingsSpec` is a specification of all ten: the variable `part`
says whose behaviour a behaviour is, and the rest stays in its initial state, so that
one run checks each of them on its own. `MCConsole` only gives it the symmetry of its
constants; `MCServices` does the same as `Readings` for the three of `Services`.
The theorems are in the modules named `...Proofs`.

### What is abstracted

* The states cloning, building and deploying are one, `active`. Steps, texts,
  logs, ports, environment variables, limits and basic auth are left out.
* One application on the local Docker host, one worker (what
  `internal/app/handlers.go:128` sets), one domain or none for a whole behaviour of
  `DeployPipeline`. Domains that change while a deployment runs are in
  `Applications`.
* `dockerfile` sources behave as `dropzone` ones and `nixpacks` as `git`.
* `applications.status` is in `Applications`, not in `DeployPipeline`.
* Containers exit by themselves in `Applications` and `ManagedDatabases`; the
  pipeline looks at a container in the gate only, where an exit is a failure.
* `BuildImage` drops the daemon's output, so an image may be missing after a
  build that reported no error: `Build` allows it.
* A dropped error of a statement is the statement without its effect.
* `ExecuteCompose` has no caller and is not modelled.
* A lock-out ends at any time after it was written; sessions expire nowhere but in
  the check of a request, which only reads.
* Time is counted only where a property needs it: units of the shared 20 seconds
  in `Notifications`, ticks in `RateLimiter`, seconds in names of files.
* A line of a log is a number, and a message is some lines; the buffer of the
  scanner is a set of lines that are too long (`Long`).
* The CPU's percentages are computed in floating point; `Heartbeat` has tenths.
* A webhook delivery is a branch and a commit. A deployment builds what the branch
  has when the worker clones it.

## 3. The runs

| run | instance | shows |
|---|---|---|
| `queue` | 3 deployments, 2 workers, buffer 2, 1 token, 1 restart | `OnePlace`, `SemaphoreExact`, `FifoService`, `AtMostOnce` (refines `DeploymentLifecycle`), `AcceptedFinishes`, `StopTerminates`; 480 000 states |
| `pipeline` | 3 deployments, 1 image kept, 2 mishaps, every kind of source, domain or none | `Gated`, `NoOrphans`, `RouteFollowsRecord`, `CachedImagesKept`, `SuccessIsEarned`, `BlueGreenSpec` (refines `BlueGreen`); 1.3 million states |
| `applications` | 2 deployments, 2 requests, 1 mishap, 3 runs of the cron job | `LimitsInForce`, `RouteLeads`, `CommandExclusive`, `StatusConverges`; 1.5 million states |
| `services` | 2 databases, 2 names, 2 limits, 3 requests; 2 servers, 2 callers, 3 calls; a page with 2 pieces of output; 2 mishaps | `RowsTell`, `StatusConverges`, `OneTunnel`, `PagesEnd`; 440 000 states |
| `backups` | 3 backups, 2 runs, 2 destinations, 1 change, 1 mishap | `Restorable`, `Accounted`, `NewestSurvive`; 2.3 million states |
| `console` | ten components, see below | `AccessBounded`, `NewestSessionsKept`, `RowsHang`, `DoneDelivers`, `RotationKeeps`, `OutcomeStands`, `FewSkipped`, `CaughtUp`, `FileKept`, `FairShare`, `CpuHonest`; 1.4 million states |
| `live_container_spared` | 2 deployments, no mishap | violated: see the findings |
| `route_switch_atomic` | 2 deployments, no mishap | violated |
| `cached_rollback` | 2 deployments, no mishap | violated |
| `start_runs` | 1 deployment | violated |
| `live_auth` | 1 deployment, 1 domain, 2 requests | violated |
| `candidate_removed_on_cancel` | 2 deployments, 1 mishap | violated |

Bounds. Three jobs over a buffer of two make a sender wait behind others; two
workers for one token make one wait for the token; one restart is enough because
a restart forgets everything but the rows, and the second process meets the rows
of the first. The third job makes a behaviour long and a restart makes another one:
`MCDeployQueue` leaves the third out of the behaviours that restart. In the pipeline a second deployment replaces the first and a third
replaces what the failures of the second left; with one image kept, the third is
also the first that can prune an image a rollback wants. Two mishaps allow a
failure and a failure of the clean-up after it, or a crash and a failure in the
next deployment.

`applications` begins in one of three families of states (`MCApplications`):
before the first deployment with one request, after the first one with two, or
after it with no request and the cron job, which either is still to be created and
meets no mishap, or exists, has used one start and meets one. All are states the
program reaches; the families keep requests and cron runs, which meet only through
the container, from multiplying. `services` has one database with three requests
and two mishaps, or two with a single request and one mishap, since two databases
meet only through the name of their container. `backups` has a family in which
nothing fails and one in which nobody changes anything, which both begin with one
completed backup, and one with a single run and both; three backups are one more
than two retention counts keep. Larger instances of all three (a second start of
the cron job with mishaps, an empty history of backups, three calls more of the
pool) gave the same results and only took longer.

In `console` a behaviour is one of a single component: three logins at once of two
users with a cap of two sessions and a lock at the third failure; five rows, four
requests, two of them in the middle of their statements; four log lines, files of
two lines, one rotation kept, one line too long for the scanner; two jobs, three
goroutines and two sessions of the runner; five rows in pages of two that enter the
list at any place, with two deletions; two commits, a stray push and a mishap; two
migrations, the second of which inserts the catalogue, two templates, three starts of
two processes, two restores; three channels that share the time of two calls with
their listing; a bucket of one token and three ticks; counters that wrap at five, the
idle one of which may begin just below that. Each
bound is the least at which the component's limit is exceeded by one actor more
than it allows for. The parameters that are limits in the code (retention, session
cap, buffer, file size, shared seconds) are made small so that they are reached.

Symmetry is used in `backups` (runs, destinations) and `console` (requests,
logins), whose properties are invariants and action properties.

Deadlock is not checked: a queue whose requests have all been answered, a process
that is down for good and an application whose deployments are used up stop.

Fairness. `queue`: worker goroutines and request
handlers are scheduled (weak fairness of their steps); `Execute` returns, since
its context ends after 30 minutes; the five-second timer of `Enqueue` fires;
`http.Server.Shutdown` returns after its 30 seconds at the latest. A worker that
waits for a token needs weak fairness only: its peers hold the token for one
execution each, and the second of two waiting workers is not promised more than
the first. Nothing makes a request arrive or the process end. That `Execute`
itself ends under a cancelled context is an assumption of `DeployQueue` and is
not checked in `DeployPipeline`, which has safety properties only.
`applications` and `services`: somebody has the page of the application or database
open, which asks for its status every few seconds (weak fairness of the poll's
steps); handlers and the provisioning goroutine of `services` go on. Without an
open page no status converges, and none is claimed to. `PagesEnd`: handler and
copier are scheduled, and `net/http` notices that the client has gone; that the
client goes, and that the shell reads what it is sent, is not assumed.

### Findings

Each is a run that TLC ends with a counterexample, and an entry of
`PROJECT.json` with the quoted lines.

1. `live_container_spared`: a failed build calls `cleanupFailedContainer`, which
   removes the container the application's row names. That is the previous,
   running one, so a build error takes the application down.
2. `route_switch_atomic`: the route switch, described as atomic, is a `DELETE`
   and a `POST`; in between the domain has no route.
3. `cached_rollback`: a rollback to an image that exists only in the local cache
   goes through the branch that pulls it from a registry, and fails.
4. `start_runs`: `Start` of a deployment only rewrites its row to `cloning`; no
   job exists that would run it.
5. `live_auth`: the live change of the basic auth points the domain's route at the
   name the application was created with, which no deployed container has.
6. `candidate_removed_on_cancel`: a candidate whose gate was cancelled is stopped and
   removed with the cancelled context, and so it stays, against two of the rules in
   `internal/deploy/GEMINI.md`.

The documents beside the code promise three more things that it does not do. The
models have what the code does, and these have no run of their own:

* a stop drops the jobs that wait in the queue (`DeployQueue!StopReturns`), where
  `internal/worker/GEMINI.md:10` says it is drained before exit; nothing reads the rows
  again, so they keep their working status for ever, as after a crash
  (`DeployQueue!Restart`);
* a request waits five seconds at a full queue (`EnqueueBlock`), where line 47 of the
  same document wants an error at once;
* `Start` of an application asks Docker and writes `running`, but never starts the
  container, against `internal/modules/applications/GEMINI.md:23`; the row says so
  until a poll corrects it (`Applications!StartCall`, `StatusWrite`).

Other behaviour worth knowing. The properties state each as an exception, so that
everything else is still checked; an exception is not checked, and a property is no
evidence about it:

* foreign keys are on for one of up to 25 connections (`database/db.go:51`), so a
  statement on another one may leave rows without what they hang on
  (`Workspace!Enforced`);
* the row of a template deployment, whose job is never offered, stays queued; a
  webhook's refused job is dropped; the results of deployments that end after a
  listener error has closed the database are not written;
* a failed `UpdateContainerAndStatus` is followed by the removal of the container
  the row still names; a failed read of the application makes the pipeline replace
  the record without removing or re-routing what was there
  (`DeployPipeline!ImageReady`);
* a backup whose upload failed is `completed`, and its pruning asks the current
  destination for the object (`DatabaseBackups!PruneFiles`); two backups of one
  second share a file;
* concurrent logins exceed the session cap and the lock-out by the requests in hand
  (`Access!SessionCap`, `LockoutBound`);
* a log stream stops delivering at a line of 64 KiB, loses lines when the file is
  rotated under it, and delivers none for an API deployment, whose `log_path` is
  stored as a directory (`DeployLogs!Scanned`, `DoneDelivers`);
* two rotations of a log within one second overwrite each other's file
  (`DeployLogs!Renamed`);
* the copier of a container's log stays when its page was left, as does a terminal
  whose shell does not read (`ContainerStreams!Stuck`);
* a dead tunnel stays in the pool until the process ends (`ClientPool!TunnelDies`);
* the clean-up of the rate limiter forgets what a client has spent
  (`RateLimiter!WithinBudget`);
* the listing of notification channels takes from the 20 seconds without being
  limited by them, and channels after a failing row are not told
  (`Notifications!ListActiveForEvent`);
* a restore that crashes between rename and write leaves only the `.bak` file, which
  the next restore overwrites (`DatabaseFile!CopyKept`); a start that cannot read the
  catalogue inserts one beside it (`CatalogueOnce`).

## 4. The proofs

`DeployPipelineProofs` proves, for every set of deployments, every retention and
every number of mishaps, from `PipelineAssumption` alone:

* `TypeCorrect`: `Spec => []TypeOK`.
* `NoContainerIsLost`: `Spec => []NoOrphans`.
* `GateHolds`: `Spec => []Gated`.
* `RouteKeepsUp`: `Spec => []RouteFollowsRecord`.
* `SuccessMeansLive`: `Spec => SuccessIsEarned`.
* `ImplementsBlueGreen`: `Spec => BlueGreenSpec`, the refinement.
* `RollbackImagesKept`: `Spec => []CachedImagesKept`.

The argument. `TypeInv` is `TypeOK` with the fact that a pipeline in execution
has a deployment. `SafeInv` adds `Stages`, which says what the calls before have
established by the time the pipeline is at each call: a deployment at the route
switch has passed the gate, the container it means to replace is still the
recorded one, and it was recorded (or its record was lost) when it removes that
one. `NoOrphans` alone is not inductive: without `Stages` a step could remove a
container other than the one the record named. `RouteStages` adds what the list
of routes looks like between `DELETE`, `POST` and the record. `Fresh` says that a
deployment that has not run its candidate has left no trace and that the one in
execution no longer waits; it is what keeps a container from returning, and with
it the refinement: every action but six leaves every stage alone (`SilentSteps`),
and those six are `Launch`, `Pass`, `GoLive` or `Discard` of one deployment. For
`RollbackImagesKept`, `Planned` ties the image a row names to the job that has it
in hand, and `Retained` says that a pipeline about to prune has read every image
that must stay. The property counts deployments newer than another; a new success
is the newest, so the sets that are counted only grow, and they are finite because
`created` is a sequence.

`DeployQueueProofs` proves, for any number of deployments, workers, tokens and
restarts and any size of the buffer, from `QueueAssumption` alone:

* `TypeCorrect`: `Spec => []TypeOK`; that a token given back was taken is part of
  it, since `semaphore` is a natural number.
* `TokensExact`: `Spec => []SemaphoreExact`.
* `JobsInOnePlace`: `Spec => []OnePlace`.
* `ServedInOrder`: `Spec => []FifoService`.
* `ExecutesAtMostOnce`: `Spec => AtMostOnce`, the refinement of
  `DeploymentLifecycle`.

The argument. `IInv` is `TypeOK`, `SemaphoreExact` and four facts about where jobs
are. `Channel`: the senders are exactly the blocked requests, and what is in the
buffer was accepted and has not been executed. `Hands`: each worker past its
`select` holds an accepted job of its own that has left the channel, executed or
not according to where the worker is. `History`: what was executed was accepted,
and only a created deployment has a row. `Down`: a process that has ended holds
nothing, so that `Restart` begins with a full set of tokens. `OnePlace` alone is
not inductive: nothing in it keeps an offered job from being accepted a second
time, or ties the job a worker finishes to a request. For `ServedInOrder`, `Line`
says element by element that the buffer is the end of what was accepted; the
lemmas about `Append`, `Tail` and the removal of a sender in the middle of the
line carry it through the steps. For the refinement, `SeenAsBefore` says what a
step must leave alone for a job to look the same from outside; every action then
moves the one job it concerns, a stop loses the waiting ones and the end of the
process loses all that have not settled.

`DatabaseBackupsProofs` proves four theorems for any number of runs, backups,
destinations, changes and mishaps, from `BackupsAssumption`:

* `RestorableHolds`: `Spec => []Restorable`. The invariant says that a backup's row,
  its run and the lists of pruning runs know its file by one name and that two
  backups share one only if a second saw both begin (`Named`); that a pending row
  has one early run (`Begun`); and that the file is there, or a named accident took
  it, from the end of the dump on (`Dumped`) and as long as the row says `completed`
  (`Kept`). `Restorable` alone is not inductive: a failing dump removes a file by
  its name, and nothing in it says whose name that is.
* `NewestSurviveHolds`: `Spec => NewestSurvive`, which is about steps. `Lists` says
  of every list of old backups in hand that as many newer ones were completed as the
  count it was made with, whatever has been pruned since; `NewerGrows` compares the
  cardinalities.
* `TypesHold`: `Spec => []TypeOK`.
* `AccountedHolds`: `Spec => []Accounted`. `Traced` says of every file and object
  which row, run or lapse answers for it. It rests on what is known of a backup
  whose row is being deleted under its run (`EarlyRows`) or while it stands in a
  list of a pruning run (`ListedRows`).

`ApplicationsProofs` proves four theorems about `Applications` and `CronJobs`
together, from `ApplicationsAssumption`. `TypesHold`, `LimitsHold` (`CronSpec => []LimitsInForce`) and
`RouteLeadsHolds` (`CronSpec => []RouteLeads`) come from one invariant: a deployment
that has not begun has no container and nobody knows of it until the row does
(`New`); the limits of the recorded container are the row's, or a request is about
to set them, or a lapse is noted (`Limited`); and without a lapse the recorded
container exists and is where the first route of its domain leads, at every call of
the switch (`Leads`). `RouteLeads` speaks of running containers only and is not
inductive: a stopped one may be started. `CommandExclusiveHolds`: one run of the job
is past the guard, and it has the mark (`Marked`).

`ServicesProofs` proves, of the three components of `Services`:

* `TypesHold` and `RowsTellHolds` (`Spec => []RowsTell`), from `DatabasesAssumption`:
  until the row names the container it is the provisioning goroutine's own
  (`OwnedAt`), and a request that goes to Docker has read a row that named one, so
  that nobody provisions that database any more (`HeldAt`). The attempt at this proof
  found the history's rule for two updates of the limits that cross to be wrong;
  `Crossed` now notes a lapse when the last call to Docker sends other limits than
  the row has.
* `OneTunnelHolds`: a caller about to dial holds the lock and has seen that the pool
  has no client (`Locked`).
* `StateTypesHold`: the types of all three.

`ConsoleProofs` proves, of the four components of `Console`:

* `RowsHangHolds`: no row outlives what it hangs on. The invariant adds of what kind
  the parent of each row is (`Linked`), from which it follows that a cascade of
  three levels leaves no row behind (`DownIsClosed`), and what the requests in the
  middle of their statements are about to hang a row on (`Aims`). It is a theorem
  about the connection that has foreign keys on.
* `AccessTypesHold`, `AccessBoundedHolds`: lock-out, session cap and first
  registration hold but for the requests in hand. `AccessBounded` is inductive once
  sessions have ids of their own (`Distinct`), a row that was read is still there
  (`Known`) and the sets that are counted are finite; each step moves one request
  from one of the counts to another.
* `NewestSessionsKeptHolds`: a login throws out the oldest sessions only, by the
  least of a set of numbers.
* `OutcomeStandsHolds`: of the goroutines of the session in service no two have the
  same job, a job on the wire has no goroutine, and one whose outcome was heard can
  only repeat it (`WireOK`, `TasksOK`).
* `FileTypesHold`, `FileKeptHolds`: `MigratedOnce`, `CatalogueOnce` and `CopyKept`
  together. What is said of the file is said of the copy beside it and of every
  snapshot too (`Ordered`, `Once`, `Full`), since a restore makes either of them the
  file again; `Copies` follows the two files through the rename, the write and the
  way back, and says that without harm at most one restore is past its rename.

`TrafficProofs` proves, of the three components `Traffic` adds:

* `CaughtUpHolds`: `H!Spec => []CaughtUp`. Quiet is where the property looks, and
  `Coming` what it leaves out: as long as the last commit neither runs nor has come
  to nothing, its delivery, its deployment, any job in the queue or the build in
  progress will make it run. It needs that the worker has one job at a time and
  builds nothing older than what runs (`Served`), and that a delivery which names a
  commit is of the branch (`Announced`).
* `LimiterHolds`: `B!Spec => [](B!WithinBudget /\ B!Swept)`. `WithinBudget` counts
  what was served; `Within` adds what the client can still take at once, the tokens
  of its bucket and one for each request that holds a bucket no longer in the map.
  A clean-up adds a bucket and a request for each in hand to both sides.
* `ShareHolds`: `N!Spec => []N!FairShare`, where each call is charged its limit at
  most (`Timed`), so that as many fit as what the listing left has room for. Time is
  not assumed to be divided evenly, nor the channels to be listed in an order.
* `FairShareHolds`: the two together.

`ReadingsProofs` proves, of the three components `Readings` adds and of all ten:

* `CpuHonestHolds`: `U!Spec => []CpuHonest`. What the collector keeps is the residue of
  the counters the kernel had at its last reading, and no more has passed since than
  the ticks allow (`Marked`); so the difference it takes in unsigned arithmetic is the
  time that passed, on either side of a wrap, as long as less than a whole turn did.
* `FewSkippedHolds`: `G!Spec => []FewSkipped`. A row above the offset that the reader
  never saw was pushed there by a deletion: the rows passed without a sight are no
  more than the deletions since the walk began (`Passed`), whatever enters and wherever,
  and the total it was told is off by no more than the rows that entered and left since
  (`Walking`). A row's rank
  is a cardinality, and the lemmas compare ranks by injections.
* `DoneDeliversHolds` and `RotationKeepsHolds` (`L!Spec => []DoneDelivers` and
  `[]RotationKeeps`), from one invariant. The lines of an older file come before those
  of a newer one and of the one being written (`InFiles`); a status is final only after
  the lines that explain it, and the stream is past its polls only if it was told so
  (`InStep`); and as long as the file was not rotated under it, every line up to the
  stream's offset was sent or stands behind one too long for the scanner
  (`Following`).
* `AllTypesHold`: `ReadingsSpec => []StateTypeOK`, the types of all ten, and
  `AllInvariantsHold`, the nine other invariants of the run `console` at once, for the
  specification that run checks. `StepOfAll` says that a step of it is a step of one
  component in which the other nine stutter; each component's own invariant does
  the rest.

The specifications are `Spec` (or, of an instance, `A!Spec`, `F!Spec` and so on), and
`ReadingsSpec` of the ten together: the step relations that `MCServices` and `MCConsole`
use for the part that moves. All invariants were checked by TLC before they were
proved. The proofs lift the bounds of the runs from what they prove.

Assumptions on constants are what the code has: limits that are positive (a call's
timeout, a bucket's size), sets of channels, requests and logins that are finite,
as they are in a process, and a `None` that is no value of the set it is added to.
`HeartbeatAssumption` also has that the counters do not turn a whole round within the
`MaxTicks` ticks of a behaviour: they are 64 bits wide.

Only model-checked: the liveness properties (`AcceptedFinishes`, `StopTerminates`,
`StatusConverges` of `applications` and of `services`, `PagesEnd`). They rest on fairness,
which speaks of what is enabled, and that is out of TLAPS's reach. Every other
property of a passing run, invariant, action property or refinement, is stated by a
theorem. The expected violations are counterexamples and need none.

## 5. The plan

Done: every component that has a protocol has a module, a run that checks it and
theorems about its safety.
What would be worth adding, in this order:

1. An application on a remote server: `DeployPipeline` over a client of
   `ClientPool` whose tunnel may die.
2. Several applications that set the same domain, over Caddy's one list of routes.
3. `DeployPipeline` with two workers, should `app.BuildContainer` ever set them.

## 6. Not modelled

* Web pages (generated from templ), the command line, configuration, encryption,
  validation, metrics and plugins: no protocol.
* `RequireAuth`, audit, cache headers: they read, or insert a row that nobody reads
  back. API keys: their handlers look for the user under a context key that the
  middleware does not set (`internal/app/handlers.go:89`), so none of them gets to
  the repository.
* Compose applications beyond their creation and deletion: their operations write a
  field of the row and call neither Docker nor Caddy.
* Container statistics and monitoring: read and forgotten.
* The test of a notification channel. `TeamRepo.UpdateMemberRole`, which sets a
  column the table does not have and always fails; `DeployKeyRepo.Create`
  (`projects/repo.go:300`) for the same reason, so that there are no deploy keys.
* Pages with a number below one, whose offset is negative.
* What SQLite makes of a file replaced under open connections, and of the
  write-ahead log beside it.
* Docker, Caddy, Git, nixpacks, registries, S3 and the hub are external: they appear
  as calls that succeed, fail or fail half-way, the way `internal/` uses them.
  SQLite is a set of rows that statements change one at a time.

`PROJECT.json` lists every component with its status.
