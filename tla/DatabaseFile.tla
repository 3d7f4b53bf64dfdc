---------------------------- MODULE DatabaseFile ---------------------------
(***************************************************************************)
(* The database file: the migrations a starting process applies to it, one *)
(* of which inserts the catalogue of templates, the templates it seeds     *)
(* where it finds none, the snapshots and restores of the settings page,   *)
(* and crashes between any two steps.  Two processes may start on one file,*)
(* as when a service manager starts the next before the last is gone.      *)
(*                                                                         *)
(* What SQLite makes of a file that is replaced under its open connections,*)
(* and of the write-ahead log left beside it, is not modelled: no process  *)
(* starts during a restore, and a restore begins while none is migrating.  *)
(***************************************************************************)
EXTENDS Naturals, FiniteSets

CONSTANTS
    Processes,     \* processes that may run on the file
    Migrations,    \* the versions 1..Migrations, in the order of their names
    Idempotent,    \* those whose statements may be executed twice
    CatalogueVersion, \* the version that inserts the catalogue, 020
    Templates,     \* the templates 1..Templates that SeedTemplates would insert
    Restores,      \* requests to RestoreBackup
    MaxStarts,     \* bound: starts of a process
    MaxMishaps,    \* bound: failing statements and file operations, crashes
    None           \* no file, nobody

VARIABLES
    db,        \* the file at the database's path, or None
    bak,       \* the file at path.bak, or None
    process,   \* process[p]: [pc, at]
    restore,   \* restore[q]: [pc, by, upload]
    snapshots, \* the files in the backup directory
    starts,    \* starts so far
    mishaps,   \* mishaps so far
    harmed,    \* history: a restore's rename failed or fell on a copy kept
    misread    \* history: a start could not read the catalogue

fileVars == <<db, bak>>
vars == <<fileVars, process, restore, snapshots, starts, mishaps, harmed, misread>>

Version == 1..Migrations

(* A file: whether it is complete; what the statements of each migration   *)
(* did to it, how often; the rows of schema_migrations; those SeedTemplates *)
(* inserted; the start that created it; and the restore that writes it.    *)
File == [complete : BOOLEAN, done : [Version -> Nat], noted : SUBSET Version,
         seeded : [1..Templates -> Nat],
         born : 1..MaxStarts, writer : Restores \union {None}]

FileAssumption ==
    /\ Migrations \in Nat /\ Idempotent \subseteq Version /\ CatalogueVersion \in Version
    /\ Templates \in Nat /\ MaxStarts \in Nat /\ MaxMishaps \in Nat
    /\ IsFiniteSet(Processes) /\ None \notin File

Created == [complete |-> TRUE, done |-> [m \in Version |-> 0], noted |-> {},
            seeded |-> [t \in 1..Templates |-> 0],
            born |-> starts + 1, writer |-> None]

Down == [pc |-> "down", at |-> 1]
Unused == [pc |-> "none", by |-> None, upload |-> None]

Init ==
    /\ db = None /\ bak = None
    /\ process = [p \in Processes |-> Down]
    /\ restore = [q \in Restores |-> Unused]
    /\ snapshots = {} /\ starts = 0 /\ mishaps = 0 /\ harmed = FALSE
    /\ misread = FALSE

Fails == mishaps < MaxMishaps /\ mishaps' = mishaps + 1
Works == UNCHANGED mishaps
Active(q) == restore[q].pc \in {"aside", "write", "writing", "back", "remove"}

----------------------------------------------------------------------------
(* main, app.New and database.Connect: opening creates a missing file, and *)
(* a file that is not complete is refused.                                 *)
Connect(p) ==
    /\ process[p] = Down /\ starts < MaxStarts /\ starts' = starts + 1
    /\ \A q \in Restores : ~ Active(q)
    /\ db' = IF db = None THEN Created ELSE db
    /\ process' = IF db'.complete THEN [process EXCEPT ![p].pc = "check"] ELSE process
    /\ UNCHANGED <<bak, restore, snapshots, mishaps, harmed, misread>>

(* Any error ends the process.                                             *)
Exit(p) == process' = [process EXCEPT ![p] = Down]

(* SELECT COUNT(1) FROM schema_migrations, outside of any transaction.     *)
Check(p) ==
    /\ process[p].pc = "check"
    /\ LET m == process[p].at IN
         \/ Works /\ process' = [process EXCEPT ![p] =
               IF m \notin Version THEN [pc |-> "catalogue", at |-> 1]
               ELSE IF m \in db.noted THEN [@ EXCEPT !.at = m + 1]
               ELSE [@ EXCEPT !.pc = "apply"]]
         \/ Fails /\ Exit(p)
    /\ UNCHANGED <<fileVars, restore, snapshots, starts, harmed, misread>>

Executed(m) == [db EXCEPT !.done[m] = @ + 1]
Noted(file, m) == [file EXCEPT !.noted = @ \union {m}]
NextVersion(p) == [process EXCEPT ![p].pc = "check", ![p].at = @ + 1]

(* Mutant: the statements commit before the row is written, which may fail.*)
ApplyThenNote(p) ==
    /\ process[p].pc = "apply"
    /\ LET m == process[p].at IN
         \/ /\ Works /\ m \notin db.noted /\ (m \in Idempotent \/ db.done[m] = 0)
            /\ db' = Noted(Executed(m), m) /\ process' = NextVersion(p)
         \/ /\ Works /\ m \in db.noted /\ UNCHANGED db /\ Exit(p)
         \/ /\ Fails /\ m \in Idempotent /\ db.done[m] < 2
            /\ db' = Executed(m) /\ Exit(p)
         \/ Fails /\ UNCHANGED db /\ Exit(p)
    /\ UNCHANGED <<bak, restore, snapshots, starts, harmed, misread>>

(* The statements and their row in schema_migrations commit together or not*)
(* at all.  Where another process has applied the version meanwhile, the   *)
(* statements fail, or else the primary key of the row does.               *)
ApplyMigration(p) ==
    /\ process[p].pc = "apply"
    /\ LET m == process[p].at IN
         \/ /\ Works /\ m \notin db.noted /\ (m \in Idempotent \/ db.done[m] = 0)
            /\ db' = Noted(Executed(m), m) /\ process' = NextVersion(p)
         \/ /\ Works /\ m \in db.noted /\ UNCHANGED db /\ Exit(p)
         \/ Fails /\ UNCHANGED db /\ Exit(p)
    /\ UNCHANGED <<bak, restore, snapshots, starts, harmed, misread>>

(* SeedTemplates: templates that cannot be read count as none.  The rows   *)
(* the migration inserted are never removed: they are in a file whose      *)
(* migration has been executed.                                            *)
Empty(file) == file.done[CatalogueVersion] = 0 /\ \A t \in 1..Templates : file.seeded[t] = 0
Seeding(p) == process[p].pc = "seed"

Catalogue(p) ==
    /\ process[p].pc = "catalogue"
    /\ \/ Works /\ process' = [process EXCEPT ![p].pc = IF Empty(db) THEN "seed" ELSE "build"]
          /\ UNCHANGED misread
       \/ Fails /\ process' = [process EXCEPT ![p].pc = "seed"] /\ misread' = TRUE
    /\ UNCHANGED <<fileVars, restore, snapshots, starts, harmed>>

(* One insertion per template, whose error is dropped.                     *)
SeedTemplate(p) ==
    /\ Seeding(p)
    /\ LET t == process[p].at IN
         /\ process' = [process EXCEPT ![p] = IF t < Templates THEN [@ EXCEPT !.at = t + 1]
                                                              ELSE [pc |-> "build", at |-> 1]]
         /\ \/ Works /\ db' = [db EXCEPT !.seeded[t] = @ + 1]
            \/ Fails /\ UNCHANGED db
    /\ UNCHANGED <<bak, restore, snapshots, starts, harmed, misread>>

(* The rest of BuildContainer, which fails with the Docker client.         *)
BuildContainer(p) ==
    /\ process[p].pc = "build"
    /\ \/ Works /\ process' = [process EXCEPT ![p].pc = "serve"]
       \/ Fails /\ Exit(p)
    /\ UNCHANGED <<fileVars, restore, snapshots, starts, harmed, misread>>

----------------------------------------------------------------------------
(* VACUUM INTO a file of the backup directory; DownloadBackup only reads.  *)
(* A process whose file a restore has replaced is not asked for one.       *)
CreateBackup ==
    /\ \E p \in Processes : process[p].pc = "serve"
    /\ \A q \in Restores : restore[q] = Unused
    /\ snapshots' = snapshots \union {db} /\ snapshots' # snapshots
    /\ UNCHANGED <<fileVars, process, restore, starts, mishaps, harmed, misread>>

(* A downloaded file is uploaded; only its first bytes are looked at.      *)
RestoreBackup(q, p) ==
    /\ restore[q] = Unused /\ process[p].pc = "serve"
    /\ \A other \in Processes : process[other].pc \in {"down", "serve"}
    /\ \E file \in snapshots :
          restore' = [restore EXCEPT ![q] = [pc |-> "aside", by |-> p, upload |-> file]]
    /\ UNCHANGED <<fileVars, process, snapshots, starts, mishaps, harmed, misread>>

Moves(q, pc) == restore' = [restore EXCEPT ![q].pc = pc]

(* os.Rename(path, path.bak), whose error is ignored.                      *)
SetAside(q) ==
    /\ restore[q].pc = "aside" /\ Moves(q, "write")
    /\ \/ Works /\ db # None /\ bak' = db /\ db' = None /\ harmed' = (harmed \/ bak # None)
       \/ Works /\ db = None /\ UNCHANGED fileVars /\ harmed' = TRUE
       \/ Fails /\ UNCHANGED fileVars /\ harmed' = TRUE
    /\ UNCHANGED <<process, snapshots, starts, misread>>

(* os.WriteFile truncates or creates the file, and then writes.            *)
BeginWrite(q) ==
    /\ restore[q].pc = "write"
    /\ \/ Works /\ Moves(q, "writing")
          /\ db' = [restore[q].upload EXCEPT !.complete = FALSE, !.writer = q]
       \/ Fails /\ Moves(q, "back") /\ UNCHANGED db
    /\ UNCHANGED <<bak, process, snapshots, starts, harmed, misread>>

Ended(file, q) ==
    IF file # None /\ file.writer = q THEN [file EXCEPT !.complete = TRUE, !.writer = None]
                                      ELSE file

EndWrite(q) ==
    /\ restore[q].pc = "writing"
    /\ \/ Works /\ Moves(q, "remove") /\ db' = Ended(db, q) /\ bak' = Ended(bak, q)
       \/ Fails /\ Moves(q, "back") /\ UNCHANGED fileVars
    /\ UNCHANGED <<process, snapshots, starts, harmed, misread>>

(* A failed write puts the old file back, and the error is ignored.        *)
PutBack(q) ==
    /\ restore[q].pc = "back" /\ Moves(q, "over")
    /\ \/ Works /\ bak # None /\ db' = bak /\ bak' = None
       \/ Works /\ bak = None /\ UNCHANGED fileVars
       \/ Fails /\ UNCHANGED fileVars
    /\ UNCHANGED <<process, snapshots, starts, harmed, misread>>

RemoveAside(q) ==
    /\ restore[q].pc = "remove" /\ Moves(q, "over")
    /\ \/ Works /\ bak' = None
       \/ Fails /\ UNCHANGED bak
    /\ UNCHANGED <<db, process, snapshots, starts, harmed, misread>>

(* The process ends, with its requests; a second one on the port ends too. *)
Crash(p) ==
    /\ process[p] # Down /\ Fails /\ Exit(p)
    /\ restore' = [q \in Restores |-> IF restore[q].by = p /\ Active(q)
                                        THEN [restore[q] EXCEPT !.pc = "over"] ELSE restore[q]]
    /\ UNCHANGED <<fileVars, snapshots, starts, harmed, misread>>

Next ==
    \/ CreateBackup
    \/ \E p \in Processes :
        \/ Connect(p) \/ Check(p) \/ ApplyMigration(p) \/ Crash(p)
        \/ Catalogue(p) \/ SeedTemplate(p) \/ BuildContainer(p)
    \/ \E q \in Restores, p \in Processes : RestoreBackup(q, p)
    \/ \E q \in Restores : SetAside(q) \/ BeginWrite(q) \/ EndWrite(q)
                             \/ PutBack(q) \/ RemoveAside(q)

Spec == Init /\ [][Next]_vars

----------------------------------------------------------------------------
(* The types of the variables.                                             *)
TypeOK ==
    /\ db \in File \union {None} /\ bak \in File \union {None}
    /\ process \in [Processes -> [pc : {"down", "check", "apply", "catalogue", "seed",
                                        "build", "serve"},
                                  at : 1..(Migrations + 1) \union 1..Templates]]
    /\ restore \in [Restores -> [
          pc : {"none", "aside", "write", "writing", "back", "remove", "over"},
          by : Processes \union {None}, upload : File \union {None}]]
    /\ snapshots \subseteq File
    /\ starts \in 0..MaxStarts /\ mishaps \in 0..MaxMishaps /\ harmed \in BOOLEAN
    /\ misread \in BOOLEAN

(* Whatever processes start together, crash, or restore older files, each  *)
(* file has had a first part of the migrations, in order and each once, and*)
(* schema_migrations says which (database.RunAllMigrations).               *)
Migrated(file) ==
    /\ \A m \in Version : file.done[m] = IF m \in file.noted THEN 1 ELSE 0
    /\ \A m \in file.noted : 1..m \subseteq file.noted

MigratedOnce ==
    /\ \A file \in {db, bak} \union snapshots : file # None => Migrated(file)
    /\ \A p \in Processes :
          process[p].pc = "serve" /\ (\A q \in Restores : restore[q] = Unused)
            => db.noted = Version

(* The templates are those that the migration inserted, each once: no start*)
(* adds its own to them, in whatever order processes start, crash, restore *)
(* and migrate the file, unless it could not read that they are there      *)
(* (app.SeedTemplates, which drops that error).                            *)
CatalogueOnce ==
    ~misread =>
        \A file \in {db, bak} \union snapshots : file # None =>
            \A t \in 1..Templates : file.seeded[t] = 0

(* From the first start on, at the database's path or beside it there is a *)
(* complete file with the rows of that start or of a snapshot of them: a   *)
(* restore that fails or crashes does not lose both the old and the new one*)
(* unless its first rename failed or fell on a copy that an earlier restore*)
(* had left or a concurrent one needs (settings.Handler.RestoreBackup).    *)
CopyKept ==
    starts > 0 /\ ~harmed =>
        \E file \in {db, bak} : file # None /\ file.complete /\ file.born = 1
=============================================================================
