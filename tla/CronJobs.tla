------------------------------ MODULE CronJobs -----------------------------
(***************************************************************************)
(* One cron job of an application: its row, the scheduler's ticks, the     *)
(* goroutines that run RunJob for a tick or a request, and the command     *)
(* they start in the application's container, while deployments, stops and *)
(* crashes of Applications take that container away.                       *)
(***************************************************************************)
EXTENDS Applications

CONSTANTS
    Runs,          \* goroutines in RunJob at the same time
    MaxStarts      \* bound: runs in all

ASSUME CronAssumption == Runs # {} /\ MaxStarts \in Nat

VARIABLES
    cron,       \* application_cron_jobs: [enabled, last] or None
    scheduler,  \* CronScheduler has not been stopped
    mark,       \* runningJobs holds the job
    run,        \* the goroutines: [pc, manual, ctx, container, status]
    command,    \* Docker: the container an exec of each goroutine runs in
    toggle,     \* what ToggleEnabled has read, of the request in its middle
    starts      \* runs so far

cronVars == <<cron, scheduler, mark, run, command, toggle, starts>>
allVars == <<vars, cronVars>>

Outcomes == {"success", "failed"}
NoRun == [pc |-> "none"]
RunPcs == {"begin", "read", "exec", "wait", "record"}
RunState == {NoRun} \union
    [pc : RunPcs, manual : BOOLEAN, ctx : BOOLEAN,
     container : Deployments \union {None}, status : Outcomes]

CronInit ==
    /\ cron = None /\ scheduler = TRUE /\ mark = FALSE
    /\ run = [r \in Runs |-> NoRun] /\ command = [r \in Runs |-> None]
    /\ toggle = None /\ starts = 0

Create ==
    /\ cron = None /\ starts = 0
    /\ cron' = [enabled |-> TRUE, last |-> None]
    /\ UNCHANGED <<vars, scheduler, mark, run, command, toggle, starts>>

Spawn(r, manual) ==
    /\ run[r] = NoRun /\ command[r] = None /\ starts < MaxStarts
    /\ starts' = starts + 1
    /\ run' = [run EXCEPT ![r] = [pc |-> "begin", manual |-> manual, ctx |-> TRUE,
                                  container |-> None, status |-> "failed"]]
    /\ UNCHANGED <<vars, cron, scheduler, mark, command, toggle>>

(* A tick whose minute the expression matches starts the active jobs.      *)
Tick(r) == scheduler /\ cron # None /\ cron.enabled /\ Spawn(r, FALSE)

(* RunCronJobNow runs the job in its request.                              *)
RunNow(r) == Spawn(r, TRUE)

RunAt(r, pc) == run[r].pc = pc
RunGoto(r, pc) == run' = [run EXCEPT ![r].pc = pc]
Leave(r) == run' = [run EXCEPT ![r] = NoRun]

(* Mutant: the mark is released however the guard was passed.              *)
GuardReleases(r) ==
    /\ RunAt(r, "begin")
    /\ IF mark THEN Leave(r) /\ mark' = FALSE ELSE RunGoto(r, "read") /\ mark' = TRUE
    /\ UNCHANGED <<vars, cron, scheduler, command, toggle, starts>>

(* RunJob: LoadOrStore lets one run of the job in; whether the job is      *)
(* still enabled is not asked again.                                       *)
Guard(r) ==
    /\ RunAt(r, "begin")
    /\ IF mark THEN Leave(r) /\ UNCHANGED mark ELSE RunGoto(r, "read") /\ mark' = TRUE
    /\ UNCHANGED <<vars, cron, scheduler, command, toggle, starts>>

(* The rows of job and application and the state of the container; without *)
(* a running container that can be seen the run has failed before it       *)
(* began.  Without the job's row, or with a context that is done, it ends  *)
(* and leaves no trace.                                                    *)
ReadJob(r) ==
    /\ RunAt(r, "read")
    /\ \/ /\ cron # None /\ run[r].ctx /\ UNCHANGED <<vars, mark>>
          /\ run' = [run EXCEPT ![r].pc = IF Running(row.container) THEN "exec" ELSE "record",
                                ![r].container = row.container]
       \/ /\ cron # None /\ run[r].ctx /\ RunGoto(r, "record") /\ UNCHANGED mark
          /\ Fails /\ UNCHANGED <<row, hostVars, deployVars, req, poll, served, lapses>>
       \/ /\ Leave(r) /\ mark' = FALSE
          /\ \/ cron \in {None} /\ UNCHANGED vars
             \/ ~run[r].ctx /\ UNCHANGED vars
             \/ Fails /\ UNCHANGED <<row, hostVars, deployVars, req, poll, served, lapses>>
    /\ UNCHANGED <<cron, scheduler, command, toggle, starts>>

(* ExecCommand: the command starts, unless its container has gone.         *)
Exec(r) ==
    /\ RunAt(r, "exec") /\ UNCHANGED vars
    /\ IF Running(run[r].container) /\ run[r].ctx
       THEN RunGoto(r, "wait") /\ command' = [command EXCEPT ![r] = run[r].container]
       ELSE RunGoto(r, "record") /\ UNCHANGED command
    /\ UNCHANGED <<cron, scheduler, mark, toggle, starts>>

ExecFails(r) ==
    /\ RunAt(r, "exec") /\ Fails /\ RunGoto(r, "record")
    /\ UNCHANGED <<row, hostVars, deployVars, req, poll, served, lapses,
                   cron, scheduler, mark, command, toggle, starts>>

(* The command ends by itself or with its container.                       *)
CommandEnds(r) ==
    /\ command[r] # None
    /\ command' = [command EXCEPT ![r] = None]
    /\ UNCHANGED <<vars, cron, scheduler, mark, run, toggle, starts>>

(* Reading the output ends with the command and not with the context; its  *)
(* exit code is asked for with the context.                                *)
Wait(r) ==
    /\ RunAt(r, "wait") /\ command[r] = None
    /\ \E s \in Outcomes :
        /\ s = "success" => run[r].ctx
        /\ run' = [run EXCEPT ![r].pc = "record", ![r].status = s]
    /\ UNCHANGED <<vars, cron, scheduler, mark, command, toggle, starts>>

(* UpdateExecution, lost when the context is done; the mark goes last.     *)
RecordRun(r) ==
    /\ RunAt(r, "record") /\ Leave(r) /\ mark' = FALSE
    /\ \/ /\ run[r].ctx /\ cron # None /\ UNCHANGED vars
          /\ cron' = [cron EXCEPT !.last = run[r].status]
       \/ (cron = None \/ ~run[r].ctx) /\ UNCHANGED <<vars, cron>>
       \/ /\ Fails
          /\ UNCHANGED <<row, hostVars, deployVars, req, poll, served, lapses, cron>>
    /\ UNCHANGED <<scheduler, command, toggle, starts>>

(* ToggleEnabled writes the negation of what it read, a request of its own *)
(* or, with another in its middle, of the same.                            *)
ToggleRead ==
    /\ toggle = None /\ cron # None
    /\ toggle' = cron.enabled
    /\ UNCHANGED <<vars, cron, scheduler, mark, run, command, starts>>

ToggleWrite ==
    /\ toggle # None /\ toggle' = None
    /\ cron' = IF cron = None THEN None ELSE [cron EXCEPT !.enabled = ~toggle]
    /\ UNCHANGED <<vars, scheduler, mark, run, command, starts>>

Delete ==
    /\ cron # None /\ cron' = None
    /\ UNCHANGED <<vars, scheduler, mark, run, command, toggle, starts>>

(* The browser leaves a manual run.  (The 30 minutes that RunJob gives the *)
(* command only make it count as failed.)                                  *)
CancelRun(r) ==
    /\ run[r] # NoRun /\ run[r].manual /\ run[r].ctx /\ Fails
    /\ run' = [run EXCEPT ![r].ctx = FALSE]
    /\ UNCHANGED <<row, hostVars, deployVars, req, poll, served, lapses,
                   cron, scheduler, mark, command, toggle, starts>>

(* Stop, deferred by App.Run: it does not wait for the runs.               *)
StopScheduler ==
    /\ scheduler /\ Fails
    /\ scheduler' = FALSE
    /\ run' = [r \in Runs |-> IF run[r] = NoRun \/ run[r].manual THEN run[r]
                              ELSE [run[r] EXCEPT !.ctx = FALSE]]
    /\ UNCHANGED <<row, hostVars, deployVars, req, poll, served, lapses,
                   cron, mark, command, toggle, starts>>

(* The process starts again, while the commands go on in Docker.           *)
CronCrash ==
    /\ Crash
    /\ scheduler' = TRUE /\ mark' = FALSE
    /\ run' = [r \in Runs |-> NoRun] /\ toggle' = None
    /\ UNCHANGED <<cron, command, starts>>

CronStep ==
    \/ Create \/ Delete \/ ToggleRead \/ ToggleWrite \/ StopScheduler
    \/ \E r \in Runs :
        \/ Tick(r) \/ RunNow(r) \/ Guard(r) \/ ReadJob(r) \/ Exec(r) \/ ExecFails(r)
        \/ CommandEnds(r) \/ Wait(r) \/ RecordRun(r) \/ CancelRun(r)

CronNext ==
    \/ Serve /\ UNCHANGED cronVars
    \/ CronStep
    \/ CronCrash

CronSpec == Init /\ CronInit /\ [][CronNext]_allVars
----------------------------------------------------------------------------
(* The type of the state.                                                  *)
CronTypeOK ==
    /\ cron \in {None} \union [enabled : BOOLEAN, last : Outcomes \union {None}]
    /\ scheduler \in BOOLEAN /\ mark \in BOOLEAN
    /\ run \in [Runs -> RunState]
    /\ command \in [Runs -> Deployments \union {None}]
    /\ toggle \in BOOLEAN \union {None}
    /\ starts \in Nat

(* The type of the state of both modules.                                  *)
StateTypeOK == TypeOK /\ CronTypeOK

(* Ticks and requests start no command of a job while RunJob waits for     *)
(* another one: of two commands that run at once one was left behind by a  *)
(* process that has crashed.                                               *)
CommandExclusive ==
    \A r, s \in Runs : r # s /\ command[r] # None /\ command[s] # None
        => ~RunAt(r, "wait") \/ ~RunAt(s, "wait")
=============================================================================
