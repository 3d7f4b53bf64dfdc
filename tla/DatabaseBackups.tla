-------------------------- MODULE DatabaseBackups --------------------------
(***************************************************************************)
(* The backups of one database: the runs of the backup runner, started by  *)
(* users and by the scheduler, with their dump, upload and pruning; the    *)
(* requests that delete a backup or the database; and the storage          *)
(* destinations that runs upload to.                                       *)
(*                                                                         *)
(* Backups are numbered in order of created_at.  A file, and the key of    *)
(* its object, are named after the second the run began in, so runs of the *)
(* same second share them.  Calls may fail and the process may crash       *)
(* between any two steps; the runs of the scheduler and of users then stop *)
(* where they are.                                                         *)
(***************************************************************************)
EXTENDS Naturals, FiniteSets

CONSTANTS
    Runs,          \* runs in progress at the same time
    Destinations,
    DefaultKeep,   \* backups kept without a configuration: 7
    Keeps,         \* retention counts a user can configure
    MaxBackups,    \* bound: runs in all
    MaxChanges,    \* bound: changes of the configuration, the destinations and
                   \* the database
    MaxMishaps,    \* bound: failing calls and crashes
    None

VARIABLES
    alive,         \* the database's row and its container exist
    config,        \* its backup configuration: [dest, keep, enabled] or None
    dests,         \* storage_destinations rows
    defaults,      \* those with is_default = 1
    adding,        \* requests of StorageCreate past their first statement
    backup,        \* database_backups: [status, dest, key, file] or None
    count,         \* backups created so far
    second,        \* the last second a run began in
    files,         \* local files, by the second of their name
    objects,       \* remote objects: <<destination, second>>
    run,           \* the runs
    deleting,      \* the request that deletes a backup: the backup, or None
    changes, mishaps,
    completed,     \* history: backups that were completed
    byUser,        \* history: completed backups a user deleted
    applied,       \* history: retention counts runs have pruned with
    lapses         \* history: what mishaps and races left behind

settingVars == <<config, dests, defaults, adding, changes>>
storeVars == <<files, objects>>
histVars == <<completed, byUser, applied, lapses>>
vars == <<alive, settingVars, backup, count, second, storeVars, run, deleting, mishaps,
          histVars>>

Backups == 1..MaxBackups
Seconds == 1..MaxBackups
Dests == Destinations \union {None}
Record == [status : {"pending", "completed", "failed"}, dest : Dests, key : BOOLEAN,
           file : Seconds]

ASSUME BackupsAssumption ==
    /\ DefaultKeep \in Nat \ {0} /\ Keeps \subseteq Nat \ {0}
    /\ MaxBackups \in Nat /\ MaxChanges \in Nat /\ MaxMishaps \in Nat
    /\ None \notin Destinations \union Nat \union Record

Created == {b \in Backups : backup[b] # None}
Completed == {b \in Created : backup[b].status = "completed"}

NoRun == [pc |-> "none", old |-> {}]
Queued == [pc |-> "queued", old |-> {}]
Early == {"open", "dump", "upload", "complete"}
Pcs == Early \union {"query", "prune", "drop"}

Init ==
    /\ alive = TRUE
    /\ config = None
    /\ dests \in SUBSET Destinations
    /\ defaults \in {S \in SUBSET dests : Cardinality(S) <= 1}
    /\ adding = {}
    /\ backup = [b \in Backups |-> None]
    /\ count = 0 /\ second = 0
    /\ files = {}
    /\ objects = {}
    /\ run = [r \in Runs |-> NoRun]
    /\ deleting = None
    /\ changes = 0 /\ mishaps = 0
    /\ completed = {} /\ byUser = {} /\ applied = {} /\ lapses = {}

Fails == mishaps < MaxMishaps /\ mishaps' = mishaps + 1
Works == UNCHANGED mishaps

(* What mishaps and races leave behind: a file or an object without a row, *)
(* a row without its file, a row pending for ever, a name used twice.      *)
Left(what) == lapses' = lapses \union what

(* An UPDATE ... WHERE id = ?: no row, no effect.                          *)
UpdateStatus(b, status, key) ==
    backup' = IF backup[b] = None THEN backup
              ELSE [backup EXCEPT ![b] = [status |-> status, dest |-> backup[b].dest,
                                          key |-> key, file |-> backup[b].file]]

----------------------------------------------------------------------------
(* The configuration, by UpsertConfig, and the destinations.               *)
Change == alive /\ changes < MaxChanges /\ changes' = changes + 1
NoChangeElsewhere ==
    UNCHANGED <<alive, backup, count, second, storeVars, run, deleting, mishaps, histVars>>

UpdateBackupConfig(dest, keep, enabled) ==
    /\ Change
    /\ dest \in dests \union {None}
    /\ config' = [dest |-> dest, keep |-> keep, enabled |-> enabled]
    /\ UNCHANGED <<dests, defaults, adding>>
    /\ NoChangeElsewhere

(* A new default destination first takes the flag from the others, and is  *)
(* inserted by a second statement.                                         *)
StorageCreate(t, isDefault) ==
    /\ Change
    /\ t \in Destinations \ (dests \union adding)
    /\ IF isDefault
       THEN /\ adding' = adding \union {t} /\ defaults' = {}
            /\ UNCHANGED dests
       ELSE /\ dests' = dests \union {t}
            /\ UNCHANGED <<adding, defaults>>
    /\ UNCHANGED config /\ NoChangeElsewhere

StorageInsert(t) ==
    /\ t \in adding
    /\ adding' = adding \ {t}
    /\ dests' = dests \union {t} /\ defaults' = defaults \union {t}
    /\ UNCHANGED <<config, changes>> /\ NoChangeElsewhere

StorageSetDefault(t) ==
    /\ Change /\ t \in dests
    /\ defaults' = {t}
    /\ UNCHANGED <<config, dests, adding>> /\ NoChangeElsewhere

Uploading(r, t) == run[r].pc \in {"open", "dump", "upload", "complete"} /\ run[r].dest = t

(* ON DELETE SET NULL in the configuration and in the backups, or, on a    *)
(* connection that does not enforce foreign keys, the identifier of a row  *)
(* that is gone: nobody finds a destination by either, so None stands for  *)
(* both.                                                                   *)
StorageDelete(t) ==
    /\ Change /\ t \in dests
    /\ dests' = dests \ {t} /\ defaults' = defaults \ {t}
    /\ config' = IF config # None /\ config.dest = t
                 THEN [config EXCEPT !.dest = None] ELSE config
    /\ backup' = [b \in Backups |->
                    IF b \in Created /\ backup[b].dest = t
                    THEN [backup[b] EXCEPT !.dest = None] ELSE backup[b]]
    /\ Left({<<"object", o>> : o \in {p \in objects : p[1] = t}} \union
            {<<"object", <<t, run[r].file>>>> : r \in {q \in Runs : Uploading(q, t)}})
    /\ UNCHANGED <<alive, adding, count, second, storeVars, run, deleting, mishaps,
                   completed, byUser, applied>>

----------------------------------------------------------------------------
(* The destination of a run: the configured one if it still exists, else a *)
(* default one, else the local disk alone.                                 *)
Target ==
    IF config # None /\ config.dest \in dests THEN {config.dest}
    ELSE IF defaults # {} THEN defaults ELSE {None}

KeepCount == IF config = None THEN DefaultKeep ELSE config.keep

(* The scheduler starts a goroutine for every enabled configuration that   *)
(* is due; the run does not look at enabled again.                         *)
CheckAndRunBackups(r) ==
    /\ run[r] = NoRun
    /\ config # None /\ config.enabled /\ count < MaxBackups
    /\ run' = [run EXCEPT ![r] = Queued]
    /\ UNCHANGED <<alive, settingVars, backup, count, second, storeVars, deleting,
                   mishaps, histVars>>

(* A run whose database is gone ends at once.                              *)
RunNotFound(r) ==
    /\ run[r] = Queued /\ (~alive \/ count = MaxBackups)
    /\ run' = [run EXCEPT ![r] = NoRun]
    /\ UNCHANGED <<alive, settingVars, backup, count, second, storeVars, deleting,
                   mishaps, histVars>>

(* The start of a run, a user's or a queued one: what it reads, the name   *)
(* of its file, its row.                                                   *)
RunBackup(r, dest, s) ==
    /\ run[r] \in {NoRun, Queued} /\ alive /\ count < MaxBackups
    /\ dest \in Target /\ s \in {second, second + 1} \intersect Seconds
    /\ count' = count + 1 /\ second' = s
    /\ backup' = [backup EXCEPT ![count + 1] =
                    [status |-> "pending", dest |-> dest, key |-> FALSE, file |-> s]]
    /\ run' = [run EXCEPT ![r] =
                [pc |-> "open", backup |-> count + 1, dest |-> dest, key |-> FALSE,
                 keep |-> KeepCount, file |-> s, old |-> {}]]
    /\ Left(IF s = second THEN {<<"clash", s>>} ELSE {})
    /\ UNCHANGED <<alive, settingVars, storeVars, deleting, mishaps,
                   completed, byUser, applied>>

Continue(r, pc, key, old) ==
    run' = [run EXCEPT ![r] = [pc |-> pc, backup |-> run[r].backup, dest |-> run[r].dest,
                               key |-> key, keep |-> run[r].keep, file |-> run[r].file,
                               old |-> old]]
Goto(r, pc) == Continue(r, pc, run[r].key, run[r].old)
End(r) == run' = [run EXCEPT ![r] = NoRun]
RunVars == <<alive, settingVars, count, second, deleting>>

(* A run that fails says so in its row, if that can be written: the error  *)
(* of the statement is dropped, and what made the run fail may make it     *)
(* fail, too.                                                              *)
FailStatus(b) == UpdateStatus(b, "failed", FALSE) /\ UNCHANGED lapses
FailUnsaid(b) == UNCHANGED backup /\ Left({<<"pending", b>>})

(* The file is truncated if it exists.                                     *)
Open(r) ==
    /\ run[r].pc = "open"
    /\ \/ /\ Works /\ Goto(r, "dump")
          /\ files' = files \union {run[r].file}
          /\ UNCHANGED <<backup, lapses>>
       \/ /\ Fails /\ End(r)
          /\ FailStatus(run[r].backup) \/ FailUnsaid(run[r].backup)
          /\ UNCHANGED files
    /\ UNCHANGED <<RunVars, objects, completed, byUser, applied>>

(* ExecStream, and the look at the file's size: a file that was deleted    *)
(* meanwhile makes the run fail as well.                                   *)
DumpEnds(r) ==
    /\ run[r].pc = "dump" /\ run[r].file \in files
    /\ Goto(r, IF run[r].dest = None THEN "complete" ELSE "upload")
    /\ UNCHANGED <<RunVars, backup, storeVars, mishaps, histVars>>

(* Mutant: a failed dump is logged and the run goes on without its file.   *)
DumpFailsIgnored(r) ==
    /\ run[r].pc = "dump" /\ Fails /\ Goto(r, "complete")
    /\ files' = files \ {run[r].file}
    /\ UNCHANGED <<RunVars, backup, objects, histVars>>

DumpFails(r) ==
    /\ run[r].pc = "dump" /\ End(r)
    /\ files' = files \ {run[r].file}
    /\ \/ /\ ((~alive \/ run[r].file \notin files) /\ Works) \/ Fails
          /\ FailStatus(run[r].backup)
       \/ Fails /\ FailUnsaid(run[r].backup)
    /\ UNCHANGED <<RunVars, objects, completed, byUser, applied>>

(* A failing upload is only logged.                                        *)
Upload(r) ==
    /\ run[r].pc = "upload"
    /\ \/ /\ Works /\ run[r].file \in files
          /\ objects' = objects \union {<<run[r].dest, run[r].file>>}
          /\ Continue(r, "complete", TRUE, run[r].old)
       \/ /\ (run[r].file \notin files /\ Works) \/ Fails
          /\ Goto(r, "complete") /\ UNCHANGED objects
    /\ UNCHANGED <<RunVars, backup, files, histVars>>

ObjectsOf(r) == IF run[r].key THEN {<<"object", <<run[r].dest, run[r].file>>>>} ELSE {}

(* Mutant: the word the deployments use.                                   *)
CompleteAsSuccess(r) ==
    /\ run[r].pc = "complete" /\ Works /\ Goto(r, "query")
    /\ UpdateStatus(run[r].backup, "success", run[r].key)
    /\ UNCHANGED <<RunVars, storeVars, histVars>>

Complete(r) ==
    /\ run[r].pc = "complete" /\ Goto(r, "query")
    /\ LET b == run[r].backup IN
       \/ /\ Works /\ UpdateStatus(b, "completed", run[r].key)
          /\ IF b \in Created
             THEN completed' = completed \union {b} /\ UNCHANGED lapses
             ELSE Left({<<"file", run[r].file>>} \union ObjectsOf(r)) /\ UNCHANGED completed
       \/ /\ Fails /\ UNCHANGED <<backup, completed>>
          /\ Left({<<"pending", b>>, <<"file", run[r].file>>} \union ObjectsOf(r))
    /\ UNCHANGED <<RunVars, storeVars, byUser, applied>>

----------------------------------------------------------------------------
(* Mutant: ORDER BY created_at ASC.                                        *)
OldAscending(keep) ==
    {b \in Completed : Cardinality({c \in Completed : c < b}) >= keep}

(* GetOldBackupsForPruning: completed backups beyond the newest keep.      *)
Old(keep) == {b \in Completed : Cardinality({c \in Completed : c > b}) >= keep}

Listed(b) == [backup |-> b, file |-> backup[b].file, key |-> backup[b].key,
              dest |-> backup[b].dest]

QueryOld(r) ==
    /\ run[r].pc = "query"
    /\ \/ /\ Works /\ Old(run[r].keep) # {}
          /\ Continue(r, "prune", run[r].key, {Listed(b) : b \in Old(run[r].keep)})
          /\ applied' = applied \union {run[r].keep}
       \/ /\ (Old(run[r].keep) = {} /\ Works) \/ Fails
          /\ End(r) /\ UNCHANGED applied
    /\ UNCHANGED <<RunVars, backup, storeVars, completed, byUser, lapses>>

NextOld(r, o) == o \in run[r].old /\ \A p \in run[r].old : p.backup <= o.backup

(* Mutant: only the object is removed.                                     *)
PruneFilesRemote(r, o) ==
    /\ run[r].pc = "prune" /\ NextOld(r, o) /\ Goto(r, "drop")
    /\ objects' = objects \ {<<run[r].dest, o.file>>}
    /\ UNCHANGED <<RunVars, backup, files, mishaps, histVars>>

(* The local file, and the object under the backup's key at the            *)
(* destination OF THIS RUN: at another destination it stays for ever.      *)
PruneFiles(r, o) ==
    /\ run[r].pc = "prune" /\ NextOld(r, o) /\ Goto(r, "drop")
    /\ LET remote == <<run[r].dest, o.file>>
           own == <<o.dest, o.file>>
       IN \/ /\ Works /\ files' = files \ {o.file}
             /\ objects' = IF o.key THEN objects \ {remote} ELSE objects
             /\ Left(IF o.key /\ remote # own THEN {<<"object", own>>} ELSE {})
          \/ /\ Fails /\ Left({<<"file", o.file>>, <<"object", own>>})
             /\ files' \in {files, files \ {o.file}}
             /\ UNCHANGED objects
    /\ UNCHANGED <<RunVars, backup, completed, byUser, applied>>

PruneRow(r, o) ==
    /\ run[r].pc = "drop" /\ NextOld(r, o)
    /\ IF run[r].old = {o} THEN End(r)
       ELSE Continue(r, "prune", run[r].key, run[r].old \ {o})
    /\ \/ Works /\ backup' = [backup EXCEPT ![o.backup] = None] /\ UNCHANGED lapses
       \/ Fails /\ Left({<<"row", o.backup>>}) /\ UNCHANGED backup
    /\ UNCHANGED <<RunVars, storeVars, completed, byUser, applied>>

RunStep(r) ==
    \/ RunNotFound(r) \/ Open(r) \/ DumpEnds(r) \/ DumpFails(r) \/ Upload(r)
    \/ Complete(r) \/ QueryOld(r)
    \/ \E o \in run[r].old : PruneFiles(r, o) \/ PruneRow(r, o)

----------------------------------------------------------------------------
(* What the run of a backup may still write after the request looked.      *)
InProgress(b) == UNION {{<<"file", run[r].file>>, <<"object", <<run[r].dest, run[r].file>>>>} :
                          r \in {q \in Runs : run[q].pc \in Early /\ run[q].backup = b}}

(* DeleteBackup removes the file, the object at the backup's own           *)
(* destination, and then the row; errors are dropped.                      *)
DeleteFiles(b) ==
    /\ deleting = None /\ b \in Created
    /\ deleting' = b
    /\ LET own == <<backup[b].dest, backup[b].file>> IN
       \/ /\ Works /\ files' = files \ {backup[b].file}
          /\ objects' = IF backup[b].key THEN objects \ {own} ELSE objects
          /\ Left(InProgress(b))
       \/ /\ Fails
          /\ Left({<<"file", backup[b].file>>, <<"object", own>>} \union InProgress(b))
          /\ files' \in {files, files \ {backup[b].file}}
          /\ UNCHANGED objects
    /\ UNCHANGED <<alive, settingVars, backup, count, second, run, completed, byUser,
                   applied>>

DeleteRow ==
    /\ deleting # None /\ deleting' = None
    /\ \/ /\ Works /\ backup' = [backup EXCEPT ![deleting] = None]
          /\ byUser' = byUser \union ({deleting} \intersect Completed)
          /\ UNCHANGED lapses
       \/ Fails /\ Left({<<"row", deleting>>}) /\ UNCHANGED <<backup, byUser>>
    /\ UNCHANGED <<alive, settingVars, count, second, storeVars, run, completed, applied>>

(* Deleting the database takes its configuration and the rows of its       *)
(* backups with it, where the connection enforces foreign keys, and        *)
(* neither files nor objects.                                              *)
DeleteDatabase ==
    /\ Change /\ alive' = FALSE
    /\ \/ /\ config' = None
          /\ backup' = [b \in Backups |-> None]
          /\ Left({<<"file", backup[b].file>> : b \in Created} \union
                  {<<"object", <<backup[b].dest, backup[b].file>>>> : b \in Created})
       \/ UNCHANGED <<config, backup, lapses>>
    /\ UNCHANGED <<dests, defaults, adding, count, second, storeVars, run,
                   deleting, mishaps, completed, byUser, applied>>

(* What runs and a request in their middle leave behind.                   *)
EarlyRuns == {r \in Runs : run[r].pc \in Early}
LeftByRuns ==
    {<<"pending", run[r].backup>> : r \in EarlyRuns} \union
    {<<"file", run[r].file>> : r \in EarlyRuns} \union
    UNION {ObjectsOf(r) : r \in {q \in Runs : run[q].pc = "complete"}}
Dropped == UNION {{o \in run[r].old : NextOld(r, o)} : r \in {q \in Runs : run[q].pc = "drop"}}
RowsLeft ==
    {<<"row", o.backup>> : o \in Dropped} \union
    (IF deleting = None THEN {} ELSE {<<"row", deleting>>})

(* The process dies: nothing resumes a run or a request.                   *)
Crash ==
    /\ Fails
    /\ run' = [r \in Runs |-> NoRun] /\ deleting' = None /\ adding' = {}
    /\ Left(LeftByRuns \union RowsLeft)
    /\ UNCHANGED <<alive, config, dests, defaults, changes, backup, count, second,
                   storeVars, completed, byUser, applied>>

Next ==
    \/ \E dest \in Dests, keep \in Keeps, on \in BOOLEAN : UpdateBackupConfig(dest, keep, on)
    \/ \E t \in Destinations, isDefault \in BOOLEAN : StorageCreate(t, isDefault)
    \/ \E t \in Destinations : StorageInsert(t) \/ StorageSetDefault(t) \/ StorageDelete(t)
    \/ \E r \in Runs, dest \in Dests, s \in Seconds : RunBackup(r, dest, s)
    \/ \E r \in Runs : CheckAndRunBackups(r) \/ RunStep(r)
    \/ \E b \in Backups : DeleteFiles(b)
    \/ DeleteRow \/ DeleteDatabase \/ Crash

Spec == Init /\ [][Next]_vars
----------------------------------------------------------------------------
OldBackup == [backup : Backups, file : Seconds, key : BOOLEAN, dest : Dests]
Run == [pc : Pcs, backup : Backups, dest : Dests, key : BOOLEAN,
        keep : Keeps \union {DefaultKeep}, file : Seconds, old : SUBSET OldBackup]

(* The types of the variables.                                             *)
TypeOK ==
    /\ alive \in BOOLEAN
    /\ config \in [dest : Dests, keep : Keeps, enabled : BOOLEAN] \union {None}
    /\ dests \subseteq Destinations /\ defaults \subseteq dests
    /\ adding \subseteq Destinations
    /\ \A b \in Created : backup[b] \in Record
    /\ count \in 0..MaxBackups /\ second \in 0..MaxBackups
    /\ files \subseteq Seconds /\ objects \subseteq Destinations \X Seconds
    /\ \A r \in Runs : run[r] \in Run \union {NoRun, Queued}
    /\ deleting \in Backups \union {None}
    /\ changes \in Nat /\ mishaps \in Nat
    /\ completed \subseteq Backups /\ byUser \subseteq completed
    /\ applied \subseteq Keeps \union {DefaultKeep}

Least(S) == CHOOSE n \in S : \A m \in S : n <= m

(* However many runs prune at once, with whatever retention counts, what   *)
(* they take is older than as many completed backups as the lowest count   *)
(* applied so far (DatabaseBackupRunner.pruneOldBackups).                  *)
NewestSurvive == [][\A b \in Completed :
    backup'[b] = None /\ alive' /\ b \notin byUser' =>
        Cardinality({c \in completed : c > b}) >= Least(applied)]_vars

(* A completed backup still has its file, unless two runs shared its name, *)
(* its deletion is under way, or was cut short.                            *)
Restorable == \A b \in Completed :
    \/ backup[b].file \in files
    \/ <<"clash", backup[b].file>> \in lapses
    \/ <<"row", b>> \in lapses \/ deleting = b
    \/ \E r \in Runs : run[r].pc = "drop" /\ \E o \in run[r].old : NextOld(r, o) /\ o.backup = b

(* Every object at a destination is one a backup's row leads to, or was    *)
(* just uploaded, or was left by one of the named accidents.               *)
ObjectsAccounted == \A o \in objects :
    \/ <<"object", o>> \in lapses
    \/ \E b \in Completed : backup[b].key /\ <<backup[b].dest, backup[b].file>> = o
    \/ \E r \in Runs : run[r].pc = "complete" /\ run[r].key
                       /\ <<run[r].dest, run[r].file>> = o

(* Every file in the backup directory is one a row names or a run is busy  *)
(* with, or was left by one of the named accidents.                        *)
FilesAccounted == \A s \in files :
    \/ <<"file", s>> \in lapses
    \/ \E b \in Created : backup[b].file = s
    \/ \E r \in Runs : run[r].pc \in {"dump", "upload", "complete"} /\ run[r].file = s

(* A pending backup is in progress, unless a crash or a write that failed  *)
(* left it so.                                                             *)
PendingInProgress == \A b \in Created :
    backup[b].status = "pending" =>
        <<"pending", b>> \in lapses \/ \E r \in Runs : run[r].pc \in Early /\ run[r].backup = b

(* Nothing a backup leaves behind is unaccounted for: the three together.  *)
Accounted == ObjectsAccounted /\ FilesAccounted /\ PendingInProgress
=============================================================================
