------------------------------- MODULE Runner ------------------------------
(***************************************************************************)
(* The runner agent: a node that keeps a websocket to a hub, executes the  *)
(* deploy jobs it is sent, each in a goroutine of its own, and reports on  *)
(* them.  The context of a session is cancelled when its connection is     *)
(* lost, before the next one is dialled; the jobs it started go on until   *)
(* the pipeline notices, and meet those of the next session.               *)
(*                                                                         *)
(* The hub is not part of this code.  It is taken to ask for a job again   *)
(* in a new session as long as it has not heard how the job ended.  A send *)
(* with a context that is done is taken to fail.                           *)
(***************************************************************************)
EXTENDS Naturals, Sequences

CONSTANTS
    Jobs,
    Tasks,         \* goroutines in runDeployJob at the same time
    MaxSessions,   \* bound: connections in all
    None           \* nothing heard, no job

RunnerAssumption == MaxSessions \in Nat /\ None \notin Jobs

VARIABLES
    session,       \* the number of the last session
    serving,       \* connectAndServe is in its reader loop
    connected,     \* the connection carries messages
    wire,          \* jobs on their way to the runner
    task,          \* goroutines: [pc, job, session]
    asked,         \* hub: jobs sent in this session
    heard          \* hub: the last status heard of each job

vars == <<session, serving, connected, wire, task, asked, heard>>

Outcomes == {"success", "failed"}
Free == [pc |-> "free"]
Task == {Free} \union
    [pc : {"begin", "execute", "failed", "success"}, job : Jobs, session : Nat]

Init ==
    /\ session = 0 /\ serving = FALSE /\ connected = FALSE /\ wire = <<>>
    /\ task = [t \in Tasks |-> Free]
    /\ asked = {} /\ heard = [j \in Jobs |-> None]

(* Run dials after a pause, for ever; the hello and its answer leave no    *)
(* trace here.                                                             *)
ConnectAndServe ==
    /\ ~serving /\ session < MaxSessions
    /\ session' = session + 1 /\ serving' = TRUE /\ connected' = TRUE
    /\ asked' = {} /\ wire' = <<>>
    /\ UNCHANGED <<task, heard>>

HubSends(j) ==
    /\ connected /\ j \notin asked /\ heard[j] \notin Outcomes
    /\ asked' = asked \union {j} /\ wire' = Append(wire, j)
    /\ UNCHANGED <<session, serving, connected, task, heard>>

ConnectionBreaks ==
    /\ connected /\ connected' = FALSE /\ wire' = <<>>
    /\ UNCHANGED <<session, serving, task, asked, heard>>

(* The reader's error returns from connectAndServe, which cancels the      *)
(* context of the session.                                                 *)
ReadError ==
    /\ serving /\ ~connected
    /\ serving' = FALSE
    /\ UNCHANGED <<session, connected, wire, task, asked, heard>>

(* handleMessage of a deploy job.                                          *)
HandleMessage(t) ==
    /\ serving /\ wire # <<>> /\ task[t] = Free
    /\ wire' = Tail(wire)
    /\ task' = [task EXCEPT ![t] = [pc |-> "begin", job |-> Head(wire), session |-> session]]
    /\ UNCHANGED <<session, serving, connected, asked, heard>>

Live(t) == serving /\ task[t].session = session

(* Mutant: the jobs get the context of Run.                                *)
SendAnySession(t, status) ==
    heard' = IF connected THEN [heard EXCEPT ![task[t].job] = status] ELSE heard

(* SendJobStatus writes to the connection of the day, with the context of  *)
(* the task's session; its error is dropped.  That a write whose context   *)
(* is done does not reach the connection is the websocket library's doing, *)
(* which waits for its lock and for the context, and is assumed here: Send *)
(* itself does not look at the context before it takes the connection.     *)
Send(t, status) ==
    heard' = IF Live(t) /\ connected
             THEN [heard EXCEPT ![task[t].job] = status] ELSE heard

At(t, pc) == task[t] # Free /\ task[t].pc = pc
Goto(t, pc) == task' = [task EXCEPT ![t].pc = pc]

BeginJob(t) ==
    /\ At(t, "begin") /\ Goto(t, "execute")
    /\ Send(t, "building")
    /\ UNCHANGED <<session, serving, connected, wire, asked>>

(* The steps of the pipeline are reported as they come.                    *)
ReportStep(t) ==
    /\ At(t, "execute")
    /\ Send(t, "building")
    /\ UNCHANGED <<session, serving, connected, wire, task, asked>>

(* ExecuteDeploy returns, its last step reported or, without a log file,   *)
(* not; a context that is done may or may not have reached the pipeline in *)
(* time.                                                                   *)
ExecuteDeploy(t) ==
    /\ At(t, "execute")
    /\ \E o \in Outcomes : Goto(t, o) /\ (Send(t, o) \/ UNCHANGED heard)
    /\ UNCHANGED <<session, serving, connected, wire, asked>>

ReportEnd(t) ==
    /\ \E o \in Outcomes : At(t, o) /\ Send(t, o)
    /\ task' = [task EXCEPT ![t] = Free]
    /\ UNCHANGED <<session, serving, connected, wire, asked>>

(* The runner's process dies, and is started again.                        *)
Crash ==
    /\ connected' = FALSE /\ serving' = FALSE /\ wire' = <<>>
    /\ task' = [t \in Tasks |-> Free]
    /\ UNCHANGED <<session, asked, heard>>

Next ==
    \/ ConnectAndServe \/ ConnectionBreaks \/ ReadError \/ Crash
    \/ \E j \in Jobs : HubSends(j)
    \/ \E t \in Tasks :
        \/ HandleMessage(t) \/ BeginJob(t) \/ ReportStep(t)
        \/ ExecuteDeploy(t) \/ ReportEnd(t)

Spec == Init /\ [][Next]_vars
----------------------------------------------------------------------------
(* The type of the state.                                                  *)
TypeOK ==
    /\ session \in 0..MaxSessions /\ serving \in BOOLEAN /\ connected \in BOOLEAN
    /\ wire \in Seq(Jobs) /\ task \in [Tasks -> Task]
    /\ asked \subseteq Jobs
    /\ heard \in [Jobs -> {None, "building"} \union Outcomes]

(* Once the hub has heard how a job ended it hears nothing else of it: an  *)
(* execution that a lost session left behind never reports over a later    *)
(* one, beside or after the execution that the later one asked for.        *)
OutcomeStands ==
    [][\A j \in Jobs : heard[j] \in Outcomes => heard'[j] = heard[j]]_vars
=============================================================================
