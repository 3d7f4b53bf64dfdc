------------------------------ MODULE Console -----------------------------
(***************************************************************************)
(* Four components that share no state and do not call each other: the     *)
(* rows of the console, the accounts that may see them, the file that both *)
(* are in, and the agent that runs jobs for a hub elsewhere.               *)
(***************************************************************************)
EXTENDS Workspace

CONSTANTS
    Users, Logins, MaxFailed, MaxSessions, MaxRequests, MaxMishaps,
    Jobs, Tasks, MaxConnections,
    Processes, Migrations, Idempotent, CatalogueVersion, Templates, Restores, MaxStarts,
    MaxBreakdowns

VARIABLES
    user, sessions, issued, login, served, mishaps, uncounted, unlocked, unevicted,
    session, serving, connected, wire, task, asked, heard,
    db, bak, process, restore, snapshots, starts, breakdowns, harmed,
    misread

A == INSTANCE Access WITH Requests <- Logins, req <- login
R == INSTANCE Runner WITH MaxSessions <- MaxConnections
F == INSTANCE DatabaseFile WITH MaxMishaps <- MaxBreakdowns, mishaps <- breakdowns

ConsoleAssumption ==
    /\ WorkspaceAssumption /\ A!AccessAssumption /\ R!RunnerAssumption /\ F!FileAssumption

accessVars == <<user, sessions, issued, login, served, mishaps,
                uncounted, unlocked, unevicted>>
runnerVars == <<session, serving, connected, wire, task, asked, heard>>
fileVars == <<db, bak, process, restore, snapshots, starts, breakdowns, harmed,
              misread>>
----------------------------------------------------------------------------
(* Access: lock-out, session cap and first registration hold but for the   *)
(* requests in hand (modules/auth/handler.go, Login and Register).         *)
AccessBounded == A!AccessBounded

(* Access: a login throws out the oldest sessions only                     *)
(* (modules/auth/repo.go, EvictOldestSessions).                            *)
NewestSessionsKept == A!NewestSessionsKept

(* Runner: what the hub has heard of a job's end is not taken back         *)
(* (runner/client.go, runDeployJob).                                       *)
OutcomeStands == R!OutcomeStands

(* DatabaseFile: every migration has been applied once and in order, a     *)
(* start adds no templates to those of the migration unless it could not   *)
(* read them, and a restore does not lose both the old and the new file,   *)
(* whatever starts together and crashes (database/db.go, RunAllMigrations; *)
(* app/seed.go; modules/settings/handler.go, RestoreBackup).               *)
FileKept == F!MigratedOnce /\ F!CatalogueOnce /\ F!CopyKept
=============================================================================
