---------------------------- MODULE DeployQueue ----------------------------
(***************************************************************************)
(* The deploy queue of the single Labuh process: the HTTP requests that    *)
(* create a deployment and offer its job (applications, webhooks,          *)
(* dropzone, API, rollback), the buffered channel and the semaphore of     *)
(* worker.DeployWorker, its worker goroutines, the two ways out of         *)
(* app.Run, and a crash or restart of the process, after which only the    *)
(* rows of the deployments table are left.                                 *)
(*                                                                         *)
(* A Go channel is its buffer and the queue of the senders blocked on it;  *)
(* a receive hands the first blocked sender's job to the freed slot, and   *)
(* closing a Done channel wakes every goroutine that selects on it.  What  *)
(* a job does while it runs is DeployPipeline's subject: here it is a run  *)
(* that may write working states and ends in one of its results.           *)
(***************************************************************************)
EXTENDS Naturals, Sequences, FiniteSets

CONSTANTS
    Deployments,     \* the deployments the requests create
    Workers,         \* workerCount goroutines
    BufferSize,      \* NewDeployWorker(bufferSize)
    MaxConcurrent,   \* capacity of the semaphore
    MaxRestarts,     \* bound: how often the process is started again
    NoJob

ASSUME QueueAssumption ==
    /\ Workers # {} /\ IsFiniteSet(Workers)
    /\ BufferSize \in Nat \ {0}
    /\ MaxConcurrent \in Nat \ {0}
    /\ MaxRestarts \in Nat
    /\ NoJob \notin Deployments

VARIABLES
    row,         \* deployments.status on disk
    request,     \* progress of the request that creates the deployment
    jobQueue,    \* the channel's buffer
    senders,     \* the requests blocked in Enqueue, in order of arrival
    cancelled,   \* w.ctx is done
    closed,      \* close(w.jobQueue) has happened
    semaphore,   \* tokens taken
    worker,      \* [pc, job] of each goroutine
    main,        \* progress of app.Run
    dbOpen,      \* the database handle still accepts statements
    restarts,    \* processes started so far, after the first
    finished,    \* history: the deployments whose execution came to its end
    accepted     \* history: the jobs accepted by the running process, in order

diskVars == <<row>>
chanVars == <<jobQueue, senders, cancelled, closed>>
workVars == <<semaphore, worker>>
procVars == <<main, dbOpen, restarts>>
histVars == <<finished, accepted>>
vars == <<diskVars, request, chanVars, workVars, procVars, histVars>>

(* "active" stands for cloning, building and deploying. *)
Final == {"success", "failed"}
Rows == {"absent", "queued", "active"} \union Final
Requests == {"none", "created", "blocked", "accepted",
             "refused", "panicked", "killed"}
WorkerPcs == {"select", "acquire", "execute", "release", "report", "exited"}
Mains == {"serving", "shutdown", "cancel", "close", "wait", "down"}

Elems(s) == {s[i] : i \in DOMAIN s}
Without(s, i) == SubSeq(s, 1, i - 1) \o SubSeq(s, i + 1, Len(s))
Idle == [pc |-> "select", job |-> NoJob]
Running == main # "down"
Holders == {w \in Workers : worker[w].pc \in {"execute", "release"}}

(* The type of the state.                                                  *)
TypeOK ==
    /\ row \in [Deployments -> Rows]
    /\ request \in [Deployments -> Requests]
    /\ jobQueue \in Seq(Deployments)
    /\ senders \in Seq(Deployments)
    /\ cancelled \in BOOLEAN
    /\ closed \in BOOLEAN
    /\ semaphore \in Nat
    /\ worker \in [Workers -> [pc : WorkerPcs, job : Deployments \union {NoJob}]]
    /\ main \in Mains
    /\ dbOpen \in BOOLEAN
    /\ restarts \in Nat
    /\ finished \in SUBSET Deployments
    /\ accepted \in Seq(Deployments)

Init ==
    /\ row = [d \in Deployments |-> "absent"]
    /\ request = [d \in Deployments |-> "none"]
    /\ jobQueue = <<>> /\ senders = <<>>
    /\ cancelled = FALSE /\ closed = FALSE
    /\ semaphore = 0
    /\ worker = [w \in Workers |-> Idle]
    /\ main = "serving" /\ dbOpen = TRUE /\ restarts = 0
    /\ finished = {} /\ accepted = <<>>

(* A statement on the deployments table; the callers drop its error.       *)
Write(d, status) ==
    row' = IF dbOpen THEN [row EXCEPT ![d] = status] ELSE row

Answer(d, outcome) == request' = [request EXCEPT ![d] = outcome]
-----------------------------------------------------------------------------
(* Requests.  One that reached its handler before the listener closed may  *)
(* outlive Shutdown's 30 seconds, and take its steps while the worker is   *)
(* being stopped or is gone.                                               *)

CreateDeployment(d) ==
    /\ Running /\ dbOpen
    /\ request[d] = "none"
    /\ Answer(d, "created")
    /\ Write(d, "queued")
    /\ UNCHANGED <<chanVars, workVars, procVars, histVars>>

(* Rollback shows its deployment as deploying before it offers the job;    *)
(* the API and the dropzone write "queued" again, which changes nothing.   *)
MarkDeploying(d) ==
    /\ Running
    /\ request[d] = "created" /\ row[d] = "queued"
    /\ Write(d, "active")
    /\ UNCHANGED <<request, chanVars, workVars, procVars, histVars>>

(* deployments.Handler.Start: the row of any deployment, and nothing else. *)
StartDeployment(d) ==
    /\ Running /\ dbOpen
    /\ row[d] # "absent"
    /\ Write(d, "active")
    /\ UNCHANGED <<request, chanVars, workVars, procVars, histVars>>

(* Mutant: a queue that honours Priority by putting the job in front.      *)
EnqueueInFront(d) ==
    /\ Running /\ ~closed
    /\ request[d] = "created" /\ Len(jobQueue) < BufferSize
    /\ jobQueue' = <<d>> \o jobQueue
    /\ accepted' = Append(accepted, d)
    /\ Answer(d, "accepted")
    /\ UNCHANGED <<row, senders, cancelled, closed, workVars, procVars, finished>>

(* Enqueue's select: the send, when the buffer has room.                   *)
EnqueueSend(d) ==
    /\ Running /\ ~closed
    /\ request[d] = "created" /\ Len(jobQueue) < BufferSize
    /\ jobQueue' = Append(jobQueue, d)
    /\ accepted' = Append(accepted, d)
    /\ Answer(d, "accepted")
    /\ UNCHANGED <<row, senders, cancelled, closed, workVars, procVars, finished>>

(* ... the wait for room, when there is none and the context is live;      *)
EnqueueBlock(d) ==
    /\ Running /\ ~closed /\ ~cancelled
    /\ request[d] = "created" /\ Len(jobQueue) = BufferSize
    /\ senders' = Append(senders, d)
    /\ Answer(d, "blocked")
    /\ UNCHANGED <<row, jobQueue, cancelled, closed, workVars, procVars, histVars>>

(* Mutant: the handler tries again while its first send is still pending.  *)
RetryAfterTimeout(d) ==
    /\ Running /\ request[d] = "blocked"
    /\ Answer(d, "created")
    /\ UNCHANGED <<row, chanVars, workVars, procVars, histVars>>

(* ... the five-second timer, which ends a wait;                           *)
EnqueueTimeout(d) ==
    /\ Running /\ request[d] = "blocked"
    /\ \E i \in DOMAIN senders :
          senders[i] = d /\ senders' = Without(senders, i)
    /\ Answer(d, "refused")
    /\ UNCHANGED <<row, jobQueue, cancelled, closed, workVars, procVars, histVars>>

(* ... the context, once the worker is being stopped;                      *)
EnqueueCancelled(d) ==
    /\ Running /\ cancelled
    /\ request[d] = "created"
    /\ Answer(d, "refused")
    /\ UNCHANGED <<row, chanVars, workVars, procVars, histVars>>

(* ... and the panic of a send on the closed channel, which select may     *)
(* prefer to the context: both are ready.  It ends the request.            *)
EnqueuePanic(d) ==
    /\ Running /\ closed
    /\ request[d] = "created"
    /\ Answer(d, "panicked")
    /\ UNCHANGED <<row, chanVars, workVars, procVars, histVars>>
-----------------------------------------------------------------------------
(* Worker goroutines.                                                      *)

At(w, pc) == Running /\ worker[w].pc = pc
Goto(w, pc) == worker' = [worker EXCEPT ![w].pc = pc]

(* A receive from the buffer; the first blocked sender takes the slot.     *)
Receive(w) ==
    /\ At(w, "select")
    /\ jobQueue # <<>>
    /\ worker' = [worker EXCEPT ![w] = [pc |-> "acquire", job |-> Head(jobQueue)]]
    /\ IF senders = <<>>
       THEN /\ jobQueue' = Tail(jobQueue)
            /\ UNCHANGED <<request, senders, accepted>>
       ELSE /\ jobQueue' = Append(Tail(jobQueue), Head(senders))
            /\ senders' = Tail(senders)
            /\ accepted' = Append(accepted, Head(senders))
            /\ Answer(Head(senders), "accepted")
    /\ UNCHANGED <<row, cancelled, closed, semaphore, procVars, finished>>

(* The loop ends when the context is done, or when the closed channel is   *)
(* drained; with jobs left both cases of the select may be ready.          *)
ExitLoop(w) ==
    /\ At(w, "select")
    /\ cancelled \/ (closed /\ jobQueue = <<>>)
    /\ Goto(w, "exited")
    /\ UNCHANGED <<row, request, chanVars, semaphore, procVars, histVars>>

AcquireSemaphore(w) ==
    /\ At(w, "acquire")
    /\ semaphore < MaxConcurrent
    /\ semaphore' = semaphore + 1
    /\ Goto(w, "execute")
    /\ UNCHANGED <<row, request, chanVars, procVars, histVars>>

(* Pipeline.Execute reaches a step.                                        *)
UpdateStep(w) ==
    /\ At(w, "execute")
    /\ Write(worker[w].job, "active")
    /\ UNCHANGED <<request, chanVars, workVars, procVars, histVars>>

(* Mutant: the loop's failure branch goes on without giving the token back. *)
FinishExecuteLeaks(w) ==
    /\ At(w, "execute")
    /\ \/ /\ Write(worker[w].job, "success") /\ Goto(w, "release")
       \/ /\ Write(worker[w].job, "failed") /\ Goto(w, "report")
    /\ finished' = finished \union {worker[w].job}
    /\ UNCHANGED <<request, chanVars, semaphore, procVars, accepted>>

(* Execute returns: after the updateStep of its result, or without one     *)
(* when the log cannot be created (or the statement fails: its error is    *)
(* dropped).  A cancelled context makes a failure likely, not certain: the *)
(* steps after the healthcheck do not look at it.                          *)
FinishExecute(w) ==
    /\ At(w, "execute")
    /\ \/ \E r \in Final : Write(worker[w].job, r)
       \/ UNCHANGED row
    /\ Goto(w, "release")
    /\ finished' = finished \union {worker[w].job}
    /\ UNCHANGED <<request, chanVars, semaphore, procVars, accepted>>

ReleaseSemaphore(w) ==
    /\ At(w, "release")
    /\ semaphore' = semaphore - 1
    /\ Goto(w, "report")
    /\ UNCHANGED <<row, request, chanVars, procVars, histVars>>

(* Mutant: a deferred release besides the explicit one.                    *)
ReportReleasesAgain(w) ==
    /\ At(w, "report")
    /\ worker' = [worker EXCEPT ![w] = Idle]
    /\ semaphore' = semaphore - 1
    /\ UNCHANGED <<row, request, chanVars, procVars, histVars>>

(* Mutant: the worker puts a job that failed back into the queue.          *)
ReportRetries(w) ==
    /\ At(w, "report")
    /\ worker' = [worker EXCEPT ![w] = Idle]
    /\ jobQueue' = IF row[worker[w].job] = "failed" /\ Len(jobQueue) < BufferSize
                   THEN Append(jobQueue, worker[w].job) ELSE jobQueue
    /\ UNCHANGED <<row, request, senders, cancelled, closed, semaphore,
                   procVars, histVars>>

(* The notification goes out in a goroutine; the worker returns to select. *)
Report(w) ==
    /\ At(w, "report")
    /\ worker' = [worker EXCEPT ![w] = Idle]
    /\ UNCHANGED <<row, request, chanVars, semaphore, procVars, histVars>>
-----------------------------------------------------------------------------
(* app.Run, and what becomes of the process.                               *)

BeginShutdown ==
    /\ main = "serving"
    /\ main' = "shutdown"
    /\ UNCHANGED <<row, request, chanVars, workVars, dbOpen, restarts, histVars>>

(* http.Server.Shutdown returns, drained or after its timeout.             *)
HttpShutdownReturns ==
    /\ main = "shutdown"
    /\ main' = "cancel"
    /\ UNCHANGED <<row, request, chanVars, workVars, dbOpen, restarts, histVars>>

(* The listener fails: Run returns, and its deferred calls close the       *)
(* database before they stop the worker.                                   *)
ServerError ==
    /\ main = "serving"
    /\ main' = "cancel"
    /\ dbOpen' = FALSE
    /\ UNCHANGED <<row, request, chanVars, workVars, restarts, histVars>>

(* Stop: w.cancel() wakes the blocked senders with the context's error.    *)
StopCancel ==
    /\ main = "cancel"
    /\ main' = "close"
    /\ cancelled' = TRUE
    /\ senders' = <<>>
    /\ request' = [d \in Deployments |->
                     IF request[d] = "blocked" THEN "refused" ELSE request[d]]
    /\ UNCHANGED <<row, jobQueue, closed, workVars, dbOpen, restarts, histVars>>

StopClose ==
    /\ main = "close"
    /\ main' = "wait"
    /\ closed' = TRUE
    /\ UNCHANGED <<row, request, jobQueue, senders, cancelled, workVars,
                   dbOpen, restarts, histVars>>

(* What the end of the process takes with it.                              *)
ProcessEnds ==
    /\ main' = "down" /\ dbOpen' = FALSE
    /\ request' = [d \in Deployments |->
                     IF request[d] \in {"created", "blocked"} THEN "killed"
                     ELSE request[d]]
    /\ jobQueue' = <<>> /\ senders' = <<>> /\ accepted' = <<>>
    /\ worker' = [w \in Workers |-> [pc |-> "exited", job |-> NoJob]]
    /\ semaphore' = 0
    /\ UNCHANGED <<row, cancelled, closed, restarts, finished>>

(* wg.Wait returns once every worker has left its loop; then the database  *)
(* is closed and main returns.                                             *)
StopReturns ==
    /\ main = "wait"
    /\ \A w \in Workers : worker[w].pc = "exited"
    /\ ProcessEnds

Crash ==
    /\ Running
    /\ ProcessEnds

(* BuildContainer makes a new worker with an empty queue.  No start-up     *)
(* code reads the deployments that were queued or running.                 *)
Restart ==
    /\ main = "down" /\ restarts < MaxRestarts
    /\ main' = "serving" /\ dbOpen' = TRUE
    /\ restarts' = restarts + 1
    /\ cancelled' = FALSE /\ closed' = FALSE
    /\ worker' = [w \in Workers |-> Idle]
    /\ UNCHANGED <<row, request, jobQueue, senders, semaphore, histVars>>
-----------------------------------------------------------------------------
RequestStep(d) ==
    \/ CreateDeployment(d) \/ MarkDeploying(d) \/ StartDeployment(d)
    \/ EnqueueSend(d) \/ EnqueueBlock(d) \/ EnqueueTimeout(d)
    \/ EnqueueCancelled(d) \/ EnqueuePanic(d)

WorkerStep(w) ==
    \/ Receive(w) \/ ExitLoop(w) \/ AcquireSemaphore(w)
    \/ UpdateStep(w) \/ FinishExecute(w)
    \/ ReleaseSemaphore(w) \/ Report(w)

MainStep ==
    \/ BeginShutdown \/ HttpShutdownReturns \/ ServerError
    \/ StopCancel \/ StopClose \/ StopReturns \/ Crash \/ Restart

Next ==
    \/ \E d \in Deployments : RequestStep(d)
    \/ \E w \in Workers : WorkerStep(w)
    \/ MainStep

Spec == Init /\ [][Next]_vars

(* Goroutines are scheduled, Execute returns (its context is bounded by 30 *)
(* minutes), the five-second timer fires and Shutdown returns after 30     *)
(* seconds.  Nothing makes a request arrive or the process end.            *)
Fairness ==
    /\ \A d \in Deployments :
          /\ WF_vars(EnqueueSend(d) \/ EnqueueBlock(d)
                       \/ EnqueueCancelled(d) \/ EnqueuePanic(d))
          /\ WF_vars(EnqueueTimeout(d))
    /\ \A w \in Workers :
          /\ WF_vars(Receive(w) \/ ExitLoop(w))
          /\ WF_vars(AcquireSemaphore(w))
          /\ WF_vars(FinishExecute(w))
          /\ WF_vars(ReleaseSemaphore(w))
          /\ WF_vars(Report(w))
    /\ WF_vars(HttpShutdownReturns \/ StopCancel \/ StopClose \/ StopReturns)

FairSpec == Spec /\ Fairness
-----------------------------------------------------------------------------
NoRepeat(s) == \A i, j \in DOMAIN s : s[i] = s[j] => i = j

(* A job is in one place at a time and passes through each at most once:   *)
(* no job is twice in the channel, at two workers, or queued again once a  *)
(* worker has it or has finished it.  Five request handlers, a timer, a    *)
(* stop and a restart move jobs between those places.                      *)
OnePlace ==
    /\ NoRepeat(jobQueue \o senders)
    /\ Elems(jobQueue \o senders) \intersect finished = {}
    /\ \A w \in Workers : worker[w].job \notin Elems(jobQueue \o senders)
    /\ \A v, w \in Workers :
          v # w /\ worker[v].job = worker[w].job => worker[v].job = NoJob

(* Every token taken belongs to one execution in progress, so the worker   *)
(* loop gives back what it takes on every path, and at most maxConcurrent  *)
(* pipelines run at once.                                                  *)
SemaphoreExact ==
    /\ semaphore = Cardinality(Holders)
    /\ semaphore <= MaxConcurrent

(* What waits in the buffer is the youngest part of what was accepted:     *)
(* jobs are taken in the order in which the queue accepted them, whichever *)
(* handler sent them and whatever Priority they carry; and no request      *)
(* waits beside a free slot, so its five seconds are spent only while the  *)
(* queue is full.                                                          *)
FifoService ==
    /\ jobQueue = SubSeq(accepted, Len(accepted) - Len(jobQueue) + 1, Len(accepted))
    /\ senders # <<>> => Len(jobQueue) = BufferSize

(* The queue keeps its promise: at most one execution of each job.         *)
JobView(d) ==
    CASE request[d] = "none" -> "new"
      [] request[d] \in {"created", "blocked"} -> "offered"
      [] request[d] \in {"refused", "panicked", "killed"} -> "lost"
      [] request[d] = "accepted" ->
            IF d \in finished THEN "settled"
            ELSE IF \E w \in Workers : worker[w] = [pc |-> "execute", job |-> d]
                 THEN "executing"
            ELSE IF \/ d \in Elems(jobQueue)
                    \/ \E w \in Workers : worker[w].job = d
                 THEN "pending"
            ELSE "lost"

Promise == INSTANCE DeploymentLifecycle
               WITH status <- row, job <- [d \in Deployments |-> JobView(d)]
AtMostOnce == Promise!Spec

(* An accepted job is executed to its end, unless the process is told to   *)
(* stop or dies first: no semaphore token is lost, no worker is stuck.     *)
AcceptedFinishes ==
    \A d \in Deployments :
        d \in Elems(accepted) ~> (d \in finished \/ main # "serving")

(* Stop always comes back: wg.Wait cannot wait for a worker that waits for *)
(* a token or for a job.                                                   *)
StopTerminates == main = "cancel" ~> main = "down"

(* "Start memulai ulang/menjalankan deployment" (deployments/handler.go):  *)
(* a deployment whose row Start shows as cloning has a job somewhere that  *)
(* will run.                                                               *)
HasJob(d) ==
    \/ request[d] \in {"created", "blocked"}
    \/ d \in Elems(jobQueue)
    \/ \E w \in Workers : worker[w].job = d
StartRuns == [][\A d \in Deployments : StartDeployment(d) => HasJob(d)']_vars
=============================================================================
