----------------------- MODULE DatabaseBackupsProofs ------------------------
(***************************************************************************)
(* Proofs about DatabaseBackups for any number of runs, backups, changes   *)
(* and mishaps: a completed backup keeps its file, pruning takes the       *)
(* oldest, and whatever a backup leaves behind is accounted for.           *)
(***************************************************************************)
EXTENDS DatabaseBackups, FiniteSetTheorems, NaturalsInduction, TLAPS

Types ==
    /\ config \in [dest : Dests, keep : Keeps, enabled : BOOLEAN] \union {None}
    /\ dests \subseteq Destinations /\ defaults \subseteq Destinations
    /\ adding \subseteq Destinations
    /\ backup \in [Backups -> Record \union {None}]
    /\ count \in 0..MaxBackups /\ second \in 0..MaxBackups
    /\ run \in [Runs -> Run \union {NoRun, Queued}]

(* The name a backup's file has, as its row, its run and the lists of runs *)
(* that prune know it: one for each backup, and two backups share one only *)
(* if a second saw both begin.                                             *)
Name(b, s) ==
    \/ b \in Created /\ backup[b].file = s
    \/ \E r \in Runs : run[r].pc \in Pcs /\ run[r].backup = b /\ run[r].file = s
    \/ \E r \in Runs : \E o \in run[r].old : o.backup = b /\ o.file = s

Named == \A b, c \in Backups, s, t \in Seconds :
    Name(b, s) /\ Name(c, t) =>
        /\ b <= count /\ s <= second
        /\ b = c => s = t
        /\ b # c /\ s = t => <<"clash", s>> \in lapses

(* The row of a backup is pending while its one run is early.              *)
Begun == \A r \in Runs : run[r].pc \in Early =>
    /\ run[r].backup \in Created => backup[run[r].backup].status = "pending"
    /\ \A q \in Runs : run[q].pc \in Early /\ q # r => run[q].backup # run[r].backup

(* Why a backup may have lost its file.                                    *)
Dropping(b) ==
    \E r \in Runs : run[r].pc = "drop" /\ \E o \in run[r].old : NextOld(r, o) /\ o.backup = b

Covered(b, s) ==
    \/ s \in files
    \/ <<"clash", s>> \in lapses
    \/ <<"row", b>> \in lapses \/ deleting = b
    \/ Dropping(b)

Kept == \A b \in Completed : Covered(b, backup[b].file)
Dumped == \A r \in Runs : run[r].pc \in {"upload", "complete"} /\ run[r].backup \in Created
                            => Covered(run[r].backup, run[r].file)

Inv == Types /\ Named /\ Begun /\ Kept /\ Dumped

-----------------------------------------------------------------------------
(* What the helpers of the runs do.                                        *)
LEMMA ContinueStep ==
    ASSUME Types, NEW r \in Runs, run[r].pc \in Pcs, NEW pc \in Pcs, NEW key \in BOOLEAN,
           NEW old \in SUBSET OldBackup, Continue(r, pc, key, old)
    PROVE  /\ run' \in [Runs -> Run \union {NoRun, Queued}]
           /\ run'[r].pc = pc /\ run'[r].backup = run[r].backup
           /\ run'[r].file = run[r].file /\ run'[r].keep = run[r].keep
           /\ run'[r].old = old /\ run'[r].key = key /\ run'[r].dest = run[r].dest
           /\ \A q \in Runs : q # r => run'[q] = run[q]
<1>1. run[r] \in Run
  BY DEF Types, NoRun, Queued, Pcs, Early
<1> DEFINE v == [pc |-> pc, backup |-> run[r].backup, dest |-> run[r].dest, key |-> key,
                 keep |-> run[r].keep, file |-> run[r].file, old |-> old]
<1>2. v \in Run
  BY <1>1 DEF Run
<1>3. run' = [run EXCEPT ![r] = v]
  BY DEF Continue
<1>4. /\ v.pc = pc /\ v.backup = run[r].backup /\ v.file = run[r].file
      /\ v.keep = run[r].keep /\ v.old = old /\ v.key = key /\ v.dest = run[r].dest
  OBVIOUS
<1> HIDE DEF v
<1>5. QED
  BY <1>2, <1>3, <1>4 DEF Types

LEMMA EndStep ==
    ASSUME Types, NEW r \in Runs, End(r)
    PROVE  /\ run' \in [Runs -> Run \union {NoRun, Queued}]
           /\ run'[r].pc = "none" /\ run'[r].old = {}
           /\ \A q \in Runs : q # r => run'[q] = run[q]
BY DEF Types, End, NoRun

LEMMA UpdateStep ==
    ASSUME Types, NEW b \in Backups, NEW status \in {"completed", "failed"},
           NEW key \in BOOLEAN, UpdateStatus(b, status, key)
    PROVE  /\ backup' \in [Backups -> Record \union {None}]
           /\ Created' = Created
           /\ \A c \in Created : backup'[c].file = backup[c].file
           /\ \A c \in Backups : c # b => backup'[c] = backup[c]
           /\ b \in Created => /\ backup'[b].status = status /\ backup'[b].key = key
                               /\ backup'[b].dest = backup[b].dest
<1>1. CASE backup[b] = None
  BY <1>1 DEF UpdateStatus, Types, Created
<1>2. CASE backup[b] # None
  <2> DEFINE v == [status |-> status, dest |-> backup[b].dest, key |-> key,
                   file |-> backup[b].file]
  <2>1. backup[b] \in Record
    BY <1>2 DEF Types
  <2>2. /\ v \in Record /\ v.file = backup[b].file /\ v.status = status
        /\ v.key = key /\ v.dest = backup[b].dest
    BY <2>1 DEF Record
  <2>3. backup' = [backup EXCEPT ![b] = v]
    BY <1>2 DEF UpdateStatus
  <2>4. v # None
    BY <2>2, BackupsAssumption
  <2> HIDE DEF v
  <2>5. QED
    BY <1>2, <2>2, <2>3, <2>4 DEF Types, Created
<1>3. QED
  BY <1>1, <1>2

-----------------------------------------------------------------------------
(* What runs are named after does not change, and lists of old backups are *)
(* made of rows.                                                           *)
SameNames ==
    /\ UNCHANGED <<count, second>>
    /\ lapses \subseteq lapses'
    /\ \A b \in Created' : b \in Created /\ backup'[b].file = backup[b].file
    /\ \A q \in Runs :
        /\ run'[q].pc \in Pcs =>
              /\ run[q].pc \in Pcs
              /\ run'[q].backup = run[q].backup /\ run'[q].file = run[q].file
        /\ \A o \in run'[q].old : Name(o.backup, o.file)

LEMMA NamedStep ==
    ASSUME Inv, SameNames
    PROVE  Named'
<1>1. \A b \in Backups, s \in Seconds : Name(b, s)' => Name(b, s)
  BY DEF SameNames, Name
<1>2. QED
  BY <1>1 DEF Inv, Named, SameNames

(* A step that puts no row back to an early status and begins no run.      *)
Onward ==
    /\ \A q \in Runs : run'[q].pc \in Early =>
          /\ run[q].pc \in Early /\ run'[q].backup = run[q].backup
          /\ run[q].backup \in Created' => backup'[run[q].backup].status = "pending"

LEMMA BegunStep ==
    ASSUME Inv, Onward
    PROVE  Begun'
BY DEF Inv, Begun, Onward

(* What is covered stays covered while its row is there and its file is    *)
(* counted on.                                                             *)
Counted(b) ==
    \/ b \in Completed
    \/ \E r \in Runs : run[r].pc \in {"upload", "complete"} /\ run[r].backup = b

StaysCovered == \A b \in Created', s \in Seconds :
    Name(b, s) /\ Covered(b, s) /\ Counted(b)' => Covered(b, s)'

LEMMA CoveredStep ==
    ASSUME Inv, files \subseteq files', lapses \subseteq lapses', UNCHANGED deleting,
           \A q \in Runs : run[q].pc = "drop" => run'[q] = run[q]
    PROVE  StaysCovered
<1> SUFFICES ASSUME NEW b \in Created', NEW s \in Seconds, Covered(b, s)
             PROVE  Covered(b, s)'
  BY DEF StaysCovered
<1>1. Dropping(b) => Dropping(b)'
  BY DEF Dropping, NextOld
<1>2. QED
  BY <1>1 DEF Covered

(* The files of completed and of dumped backups, for any step that names   *)
(* no new backup.                                                          *)
LEMMA FilesStep ==
    ASSUME Inv, SameNames, StaysCovered, Types',
           \A b \in Created' : backup'[b].status = "completed" =>
              \/ backup[b].status = "completed"
              \/ \E r \in Runs : run[r].pc \in {"upload", "complete"} /\ run[r].backup = b,
           \A q \in Runs : run'[q].pc \in {"upload", "complete"} =>
              \/ run[q].pc \in {"upload", "complete"}
              \/ run[q].file \in files'
    PROVE  Kept' /\ Dumped'
<1>1. ASSUME NEW b \in Completed' PROVE Covered(b, backup[b].file)'
  <2>1. /\ b \in Created' /\ b \in Created /\ b \in Backups
        /\ backup'[b].file = backup[b].file /\ backup[b].file \in Seconds
        /\ backup'[b].status = "completed"
    BY <1>1 DEF Completed, Created, SameNames, Inv, Types, Record
  <2>2. Name(b, backup[b].file)
    BY <2>1 DEF Name
  <2>3. CASE backup[b].status = "completed"
    <3>1. Covered(b, backup[b].file)
      BY <2>1, <2>3 DEF Inv, Kept, Completed
    <3>2. QED
      BY <1>1, <2>1, <2>2, <3>1 DEF StaysCovered, Counted
  <2>4. ASSUME NEW r \in Runs, run[r].pc \in {"upload", "complete"}, run[r].backup = b
        PROVE  Covered(b, backup[b].file)'
    <3>1. run[r].pc \in Pcs /\ run[r].file \in Seconds
      BY <2>4 DEF Pcs, Early, Inv, Types, Run, NoRun, Queued
    <3>2. Name(b, run[r].file)
      BY <2>4, <3>1 DEF Name
    <3>3. run[r].file = backup[b].file
      BY <2>1, <2>2, <3>1, <3>2 DEF Inv, Named
    <3>4. Covered(b, backup[b].file)
      BY <2>1, <2>4, <3>3 DEF Inv, Dumped
    <3>5. QED
      BY <1>1, <2>1, <2>2, <3>4 DEF StaysCovered, Counted
  <2>5. QED
    BY <2>1, <2>3, <2>4
<1>2. ASSUME NEW q \in Runs, run'[q].pc \in {"upload", "complete"}, run'[q].backup \in Created'
      PROVE  Covered(run[q].backup, run[q].file)'
  <2>1. /\ run[q].pc \in Pcs /\ run'[q].backup = run[q].backup /\ run'[q].file = run[q].file
        /\ run[q].backup \in Created /\ run[q].file \in Seconds
    BY <1>2 DEF SameNames, Pcs, Early, Inv, Types, Run, NoRun, Queued
  <2>2. Name(run[q].backup, run[q].file)
    BY <2>1 DEF Name
  <2>3. CASE run[q].pc \in {"upload", "complete"}
    <3>1. Covered(run[q].backup, run[q].file)
      BY <2>1, <2>3 DEF Inv, Dumped
    <3>2. PICK b : b = run[q].backup
      OBVIOUS
    <3>3. PICK s : s = run[q].file
      OBVIOUS
    <3>4. Covered(b, s)'
      BY <1>2, <2>1, <2>2, <3>1, <3>2, <3>3 DEF StaysCovered, Counted
    <3>5. QED
      BY <2>1, <3>2, <3>3, <3>4
  <2>4. CASE run[q].file \in files'
    BY <2>1, <2>4 DEF Covered
  <2>5. QED
    BY <1>2, <2>3, <2>4
<1>3. QED
  BY <1>1, <1>2 DEF Kept, Dumped

(* A step that satisfies all of these keeps the invariant.                 *)
LEMMA InvStep ==
    ASSUME Inv, Types', SameNames, Onward, StaysCovered,
           \A b \in Created' : backup'[b].status = "completed" =>
              \/ backup[b].status = "completed"
              \/ \E r \in Runs : run[r].pc \in {"upload", "complete"} /\ run[r].backup = b,
           \A q \in Runs : run'[q].pc \in {"upload", "complete"} =>
              \/ run[q].pc \in {"upload", "complete"}
              \/ run[q].file \in files'
    PROVE  Inv'
BY NamedStep, BegunStep, FilesStep DEF Inv

-----------------------------------------------------------------------------
(* The settings touch no run, no row of a backup and no file.              *)
LEMMA SettingsKeep ==
    ASSUME Inv,
           \/ \E dest \in Dests, keep \in Keeps, on \in BOOLEAN : UpdateBackupConfig(dest, keep, on)
           \/ \E t \in Destinations, isDefault \in BOOLEAN : StorageCreate(t, isDefault)
           \/ \E t \in Destinations : StorageInsert(t) \/ StorageSetDefault(t)
    PROVE  Inv'
<1>1. UNCHANGED <<backup, count, second, files, run, deleting, lapses>>
  BY DEF UpdateBackupConfig, StorageCreate, StorageInsert, StorageSetDefault,
         NoChangeElsewhere, storeVars, histVars
<1>2. /\ config' \in [dest : Dests, keep : Keeps, enabled : BOOLEAN] \union {None}
      /\ dests' \subseteq Destinations /\ defaults' \subseteq Destinations
      /\ adding' \subseteq Destinations
  BY DEF Inv, Types, UpdateBackupConfig, StorageCreate, StorageInsert, StorageSetDefault
<1>3. Created' = Created
  BY <1>1 DEF Created
<1>4. Types'
  BY <1>1, <1>2 DEF Inv, Types
<1>5. SameNames
  BY <1>1, <1>3 DEF SameNames, Name
<1>6. Onward
  BY <1>1, <1>3 DEF Onward, Inv, Begun
<1>7. StaysCovered
  BY <1>1, CoveredStep
<1>8. QED
  BY <1>1, <1>3, <1>4, <1>5, <1>6, <1>7, InvStep

LEMMA StorageDeleteKeeps ==
    ASSUME Inv, NEW t \in Destinations, StorageDelete(t)
    PROVE  Inv'
<1>1. /\ UNCHANGED <<adding, count, second, files, run, deleting>>
      /\ lapses \subseteq lapses' /\ dests' \subseteq dests /\ defaults' \subseteq defaults
  BY DEF StorageDelete, storeVars, Left
<1>2. config' \in [dest : Dests, keep : Keeps, enabled : BOOLEAN] \union {None}
  BY DEF StorageDelete, Inv, Types, Dests
<1>3. ASSUME NEW b \in Backups, backup[b] # None
      PROVE  /\ backup'[b] \in Record
             /\ backup'[b].file = backup[b].file /\ backup'[b].status = backup[b].status
  BY <1>3 DEF StorageDelete, Inv, Types, Record, Dests
<1>4. \A b \in Backups : backup[b] = None => backup'[b] = None
  BY DEF StorageDelete, Created
<1>5. backup' \in [Backups -> Record \union {None}]
  <2>1. backup' = [b \in Backups |-> backup'[b]]
    BY DEF StorageDelete
  <2>2. QED
    BY <1>3, <1>4, <2>1
<1>6. Created' \subseteq Created
  BY <1>4 DEF Created
<1>7. Types'
  BY <1>1, <1>2, <1>5 DEF Inv, Types
<1>8. SameNames
  BY <1>1, <1>3, <1>6 DEF SameNames, Name, Created
<1>9. Onward
  BY <1>1, <1>3, <1>6 DEF Onward, Inv, Begun, Created
<1>10. StaysCovered
  BY <1>1, CoveredStep
<1>11. QED
  BY <1>1, <1>3, <1>6, <1>7, <1>8, <1>9, <1>10, InvStep DEF Created

-----------------------------------------------------------------------------
LEMMA QueueKeeps ==
    ASSUME Inv, NEW r \in Runs, CheckAndRunBackups(r) \/ RunNotFound(r)
    PROVE  Inv'
<1>1. /\ UNCHANGED <<backup, count, second, files, deleting, lapses, config, dests,
                      defaults, adding>>
      /\ run' \in [Runs -> Run \union {NoRun, Queued}]
      /\ run[r].pc \in {"none", "queued"} /\ run'[r].pc \in {"none", "queued"}
      /\ run'[r].old = {}
      /\ \A q \in Runs : q # r => run'[q] = run[q]
  BY DEF CheckAndRunBackups, RunNotFound, settingVars, storeVars, histVars, Inv, Types,
         NoRun, Queued
<1>2. Created' = Created
  BY <1>1 DEF Created
<1>3. Types'
  BY <1>1 DEF Inv, Types
<1>4. SameNames
  BY <1>1, <1>2 DEF SameNames, Name, Pcs, Early
<1>5. Onward
  BY <1>1, <1>2 DEF Onward, Inv, Begun, Early
<1>6. StaysCovered
  BY <1>1, CoveredStep
<1>7. QED
  BY <1>1, <1>2, <1>3, <1>4, <1>5, <1>6, InvStep

LEMMA RunBackupKeeps ==
    ASSUME Inv, NEW r \in Runs, NEW dest \in Dests, NEW s \in Seconds, RunBackup(r, dest, s)
    PROVE  Inv'
<1> DEFINE row == [status |-> "pending", dest |-> dest, key |-> FALSE, file |-> s]
           b == count + 1
           v == [pc |-> "open", backup |-> b, dest |-> dest, key |-> FALSE,
                 keep |-> KeepCount, file |-> s, old |-> {}]
<1>1. /\ UNCHANGED <<files, deleting, config, dests, defaults, adding>>
      /\ count < MaxBackups /\ s \in {second, second + 1}
      /\ count' = b /\ second' = s
      /\ backup' = [backup EXCEPT ![b] = row] /\ run' = [run EXCEPT ![r] = v]
      /\ run[r] \in {NoRun, Queued}
      /\ lapses' = lapses \union (IF s = second THEN {<<"clash", s>>} ELSE {})
  BY DEF RunBackup, settingVars, storeVars, Left
<1>2. b \in Backups /\ b \in 0..MaxBackups /\ s \in 0..MaxBackups /\ second <= s
  BY <1>1, BackupsAssumption DEF Inv, Types, Backups, Seconds
<1>3. row \in Record /\ row.status = "pending" /\ row.file = s
  BY DEF Record
<1>4. KeepCount \in Keeps \union {DefaultKeep}
  BY DEF KeepCount, Inv, Types
<1>5. /\ v \in Run /\ v.pc = "open" /\ v.backup = b /\ v.file = s /\ v.old = {}
  BY <1>2, <1>4 DEF Run, Pcs, Early
<1> HIDE DEF row, v
<1>6. Types'
  BY <1>1, <1>2, <1>3, <1>5 DEF Inv, Types
<1>7. /\ backup'[b] = row /\ run'[r] = v
      /\ \A c \in Backups : c # b => backup'[c] = backup[c]
      /\ \A q \in Runs : q # r => run'[q] = run[q]
  BY <1>1, <1>2 DEF Inv, Types
<1>8. \A c \in Backups, t \in Seconds : Name(c, t)' => Name(c, t) \/ (c = b /\ t = s)
  BY <1>3, <1>5, <1>7 DEF Name, Created
<1>9. \A c \in Backups, t \in Seconds : Name(c, t) => c <= count /\ c # b /\ t <= second
  <2> SUFFICES ASSUME NEW c \in Backups, NEW t \in Seconds, Name(c, t)
               PROVE  c <= count /\ c # b /\ t <= second
    OBVIOUS
  <2>1. c <= count /\ t <= second
    BY DEF Inv, Named
  <2>2. c \in Nat /\ count \in Nat
    BY DEF Inv, Types, Backups
  <2>3. QED
    BY <2>1, <2>2
<1>10. Named'
  <2> SUFFICES ASSUME NEW c \in Backups, NEW d \in Backups, NEW t \in Seconds,
                      NEW u \in Seconds, Name(c, t)', Name(d, u)'
               PROVE  /\ c <= count' /\ t <= second'
                      /\ c = d => t = u
                      /\ c # d /\ t = u => <<"clash", t>> \in lapses'
    BY DEF Named
  <2>1. c <= count' /\ t <= second'
    BY <1>1, <1>2, <1>8, <1>9 DEF Inv, Types, Backups, Seconds
  <2>2. Name(c, t) /\ Name(d, u) =>
           (c = d => t = u) /\ (c # d /\ t = u => <<"clash", t>> \in lapses)
    BY DEF Inv, Named
  <2>3. c = d => t = u
    BY <1>8, <1>9, <2>2
  <2>4. ASSUME c # d, t = u PROVE <<"clash", t>> \in lapses'
    <3>1. CASE Name(c, t) /\ Name(d, u)
      BY <1>1, <2>2, <2>4, <3>1
    <3>2. CASE ~(Name(c, t) /\ Name(d, u))
      <4>1. t = s /\ t <= second
        BY <1>8, <1>9, <2>4, <3>2
      <4>2. s = second
        BY <1>1, <4>1 DEF Inv, Types, Seconds
      <4>3. QED
        BY <1>1, <4>1, <4>2
    <3>3. QED
      BY <3>1, <3>2
  <2>5. QED
    BY <2>1, <2>3, <2>4
<1>11. ASSUME NEW q \in Runs, run[q].pc \in Pcs PROVE run[q].backup \in Backups /\ run[q].backup # b
  <2>1. run[q].backup \in Backups /\ run[q].file \in Seconds
    BY <1>11 DEF Inv, Types, Run, NoRun, Queued, Pcs, Early
  <2>2. Name(run[q].backup, run[q].file)
    BY <1>11 DEF Name
  <2>3. QED
    BY <1>9, <2>1, <2>2
<1>12. Begun'
  BY <1>3, <1>5, <1>7, <1>11 DEF Inv, Begun, Early, Pcs, Created
<1>13. StaysCovered
  BY <1>1, <1>7, CoveredStep DEF NoRun, Queued
<1>14. ASSUME NEW c \in Completed' PROVE Covered(c, backup[c].file)'
  <2>1. /\ c \in Backups /\ c # b /\ c \in Completed /\ c \in Created'
        /\ backup'[c].file = backup[c].file /\ backup[c].file \in Seconds
    BY <1>3, <1>7, <1>14 DEF Completed, Created, Inv, Types, Record
  <2>2. Name(c, backup[c].file) /\ Covered(c, backup[c].file)
    BY <2>1 DEF Name, Completed, Inv, Kept
  <2>3. QED
    BY <2>1, <2>2, <1>13, <1>14 DEF StaysCovered, Counted
<1>15. ASSUME NEW q \in Runs, run'[q].pc \in {"upload", "complete"}, run'[q].backup \in Created'
       PROVE  Covered(run[q].backup, run[q].file)'
  <2>1. q # r /\ run'[q] = run[q]
    BY <1>5, <1>7, <1>15
  <2>2. /\ run[q].pc \in Pcs /\ run[q].backup # b /\ run[q].backup \in Backups
        /\ run[q].file \in Seconds
    BY <1>11, <1>15, <2>1 DEF Pcs, Early, Inv, Types, Run, NoRun, Queued
  <2>3. run[q].backup \in Created
    BY <1>7, <1>15, <2>1, <2>2 DEF Created
  <2>4. PICK c, t : c = run[q].backup /\ t = run[q].file
    OBVIOUS
  <2>5. Name(c, t) /\ Covered(c, t)
    BY <1>15, <2>1, <2>2, <2>3, <2>4 DEF Name, Inv, Dumped
  <2>6. Covered(c, t)'
    BY <1>13, <1>15, <2>1, <2>2, <2>4, <2>5 DEF StaysCovered, Counted
  <2>7. QED
    BY <2>1, <2>4, <2>6
<1>16. QED
  BY <1>6, <1>10, <1>12, <1>14, <1>15 DEF Inv, Kept, Dumped

-----------------------------------------------------------------------------
(* What a run in progress is about.                                        *)
LEMMA RunFacts ==
    ASSUME Inv, NEW r \in Runs, run[r].pc \in Pcs
    PROVE  /\ run[r].backup \in Backups /\ run[r].file \in Seconds
           /\ run[r].key \in BOOLEAN /\ run[r].old \in SUBSET OldBackup
           /\ Name(run[r].backup, run[r].file)
           /\ \A o \in run[r].old : /\ o.backup \in Backups /\ o.file \in Seconds
                                    /\ Name(o.backup, o.file)
<1>1. run[r] \in Run
  BY DEF Inv, Types, NoRun, Queued, Pcs, Early
<1>2. \A o \in OldBackup : o.backup \in Backups /\ o.file \in Seconds
  BY DEF OldBackup
<1>3. QED
  BY <1>1, <1>2 DEF Run, Name

(* A run goes on without a word to the database, with the list it has.     *)
LEMMA GotoKeeps ==
    ASSUME Inv, NEW r \in Runs, run[r].pc \in Pcs, NEW pc \in Pcs, NEW key \in BOOLEAN,
           Continue(r, pc, key, run[r].old),
           UNCHANGED <<config, dests, defaults, adding, backup, count, second, deleting, lapses>>,
           files \subseteq files', run[r].pc # "drop",
           pc \in Early => run[r].pc \in Early,
           pc \in {"upload", "complete"} =>
              run[r].pc \in {"upload", "complete"} \/ run[r].file \in files'
    PROVE  Inv'
<1>1. /\ run' \in [Runs -> Run \union {NoRun, Queued}]
      /\ run'[r].pc = pc /\ run'[r].backup = run[r].backup
      /\ run'[r].file = run[r].file /\ run'[r].old = run[r].old
      /\ \A q \in Runs : q # r => run'[q] = run[q]
  BY RunFacts, ContinueStep DEF Inv
<1>2. Created' = Created
  BY DEF Created
<1>3. Types'
  BY <1>1 DEF Inv, Types
<1>4. SameNames
  BY <1>1, <1>2 DEF SameNames, Name
<1>5. Onward
  BY <1>1, <1>2 DEF Onward, Inv, Begun
<1>6. StaysCovered
  BY <1>1, CoveredStep
<1>7. QED
  BY <1>1, <1>2, <1>3, <1>4, <1>5, <1>6, InvStep

(* A run that fails before its backup is complete may take its file along. *)
LEMMA FailKeeps ==
    ASSUME Inv, NEW r \in Runs, run[r].pc \in Early, End(r),
           UpdateStatus(run[r].backup, "failed", FALSE) \/ UNCHANGED backup,
           UNCHANGED <<config, dests, defaults, adding, count, second, deleting>>,
           lapses \subseteq lapses', files \ {run[r].file} \subseteq files'
    PROVE  Inv'
<1>1. /\ run' \in [Runs -> Run \union {NoRun, Queued}]
      /\ run'[r].pc = "none" /\ run'[r].old = {}
      /\ \A q \in Runs : q # r => run'[q] = run[q]
  BY EndStep DEF Inv
<1>2. run[r].pc \in Pcs
  BY DEF Pcs
<1>3. PICK b : b = run[r].backup
  OBVIOUS
<1>4. b \in Backups /\ run[r].file \in Seconds /\ Name(b, run[r].file)
  BY <1>2, <1>3, RunFacts
<1>5. /\ backup' \in [Backups -> Record \union {None}]
      /\ Created' \subseteq Created
      /\ \A c \in Created : backup'[c].file = backup[c].file
      /\ \A c \in Backups : c # b => backup'[c] = backup[c]
      /\ b \in Created => backup'[b].status # "completed"
  <2>1. CASE UpdateStatus(b, "failed", FALSE)
    BY <1>4, <2>1, UpdateStep DEF Inv
  <2>2. CASE UNCHANGED backup
    BY <1>3, <2>2 DEF Inv, Types, Begun, Created
  <2>3. QED
    BY <1>3, <2>1, <2>2
<1>6. Types'
  BY <1>1, <1>5 DEF Inv, Types
<1>7. SameNames
  BY <1>1, <1>5 DEF SameNames, Name, Pcs, Early
<1>8. Onward
  <2> SUFFICES ASSUME NEW q \in Runs, run'[q].pc \in Early
               PROVE  /\ run[q].pc \in Early /\ run'[q].backup = run[q].backup
                      /\ run[q].backup \in Created' =>
                            backup'[run[q].backup].status = "pending"
    BY DEF Onward
  <2>1. q # r /\ run'[q] = run[q] /\ run[q].pc \in Early
    BY <1>1 DEF Early
  <2>2. run[q].backup \in Backups /\ run[q].backup # b
    BY <1>3, <2>1, RunFacts DEF Inv, Begun, Pcs
  <2>3. QED
    BY <1>5, <2>1, <2>2 DEF Inv, Begun
<1>9. StaysCovered
  <2> SUFFICES ASSUME NEW c \in Created', NEW s \in Seconds, Name(c, s), Covered(c, s),
                      Counted(c)'
               PROVE  Covered(c, s)'
    BY DEF StaysCovered
  <2>1. c \in Backups /\ c \in Created
    BY <1>5 DEF Created
  <2>2. c # b
    <3>1. CASE c \in Completed'
      BY <1>5, <2>1, <3>1 DEF Completed
    <3>2. ASSUME NEW q \in Runs, run'[q].pc \in {"upload", "complete"}, run'[q].backup = c
          PROVE  c # b
      <4>1. q # r /\ run'[q] = run[q] /\ run[q].pc \in Early
        BY <1>1, <3>2 DEF Early
      <4>2. QED
        BY <1>3, <3>2, <4>1 DEF Inv, Begun
    <3>3. QED
      BY <3>1, <3>2 DEF Counted
  <2>3. CASE s = run[r].file
    BY <1>4, <2>1, <2>2, <2>3 DEF Inv, Named, Covered
  <2>4. Dropping(c) => Dropping(c)'
    BY <1>1 DEF Dropping, NextOld, Early
  <2>5. CASE s # run[r].file
    BY <2>4, <2>5 DEF Covered
  <2>6. QED
    BY <2>3, <2>5
<1>10. \A c \in Created' : backup'[c].status = "completed" => backup[c].status = "completed"
  BY <1>5 DEF Created
<1>11. QED
  BY <1>1, <1>6, <1>7, <1>8, <1>9, <1>10, InvStep

LEMMA DumpKeeps ==
    ASSUME Inv, NEW r \in Runs, Open(r) \/ DumpEnds(r) \/ DumpFails(r) \/ Upload(r)
    PROVE  Inv'
<1>1. /\ run[r].pc \in Pcs /\ run[r].pc \in Early /\ run[r].pc # "drop"
      /\ {"dump", "upload", "complete"} \subseteq Early /\ Early \subseteq Pcs
  BY DEF Open, DumpEnds, DumpFails, Upload, Pcs, Early
<1>2. run[r].key \in BOOLEAN
  BY <1>1, RunFacts
<1>3. UNCHANGED <<config, dests, defaults, adding, count, second, deleting>>
  BY DEF Open, DumpEnds, DumpFails, Upload, RunVars, settingVars
<1>9. FailStatus(run[r].backup) \/ FailUnsaid(run[r].backup) =>
         /\ UpdateStatus(run[r].backup, "failed", FALSE) \/ UNCHANGED backup
         /\ lapses \subseteq lapses'
  BY DEF FailStatus, FailUnsaid, Left
<1>4. CASE Open(r)
  <2>1. CASE Goto(r, "dump") /\ files' = files \union {run[r].file}
             /\ UNCHANGED <<backup, lapses>>
    BY <1>1, <1>2, <1>3, <2>1, GotoKeeps DEF Goto
  <2>2. CASE End(r) /\ UNCHANGED files
             /\ (FailStatus(run[r].backup) \/ FailUnsaid(run[r].backup))
    BY <1>1, <1>3, <1>9, <2>2, FailKeeps
  <2>3. QED
    BY <1>4, <2>1, <2>2 DEF Open
<1>5. CASE DumpEnds(r)
  <2>1. run[r].file \in files /\ UNCHANGED <<backup, files, lapses>>
    BY <1>5 DEF DumpEnds, storeVars, histVars
  <2>2. PICK pc \in {"complete", "upload"} : Goto(r, pc)
    BY <1>5 DEF DumpEnds
  <2>3. QED
    BY <1>1, <1>2, <1>3, <2>1, <2>2, GotoKeeps DEF Goto
<1>6. CASE DumpFails(r)
  <2>1. End(r) /\ files' = files \ {run[r].file}
        /\ (FailStatus(run[r].backup) \/ FailUnsaid(run[r].backup))
    BY <1>6 DEF DumpFails
  <2>2. QED
    BY <1>1, <1>3, <1>9, <2>1, FailKeeps
<1>7. CASE Upload(r)
  <2>1. PICK key \in BOOLEAN : Continue(r, "complete", key, run[r].old)
    BY <1>2, <1>7 DEF Upload, Goto
  <2>2. UNCHANGED <<backup, files, lapses>> /\ run[r].pc = "upload"
    BY <1>7 DEF Upload, histVars
  <2>3. QED
    BY <1>1, <1>3, <2>1, <2>2, GotoKeeps
<1>8. QED
  BY <1>4, <1>5, <1>6, <1>7

LEMMA CompleteKeeps ==
    ASSUME Inv, NEW r \in Runs, Complete(r)
    PROVE  Inv'
<1>1. /\ run[r].pc = "complete" /\ run[r].pc \in Pcs /\ "query" \in Pcs
      /\ "query" \notin Early /\ run[r].pc \in Early
      /\ UNCHANGED <<config, dests, defaults, adding, count, second, deleting, files>>
      /\ lapses \subseteq lapses' /\ Goto(r, "query")
  BY DEF Complete, Pcs, Early, RunVars, settingVars, storeVars, Left
<1>2. PICK b : b = run[r].backup
  OBVIOUS
<1>3. b \in Backups /\ run[r].key \in BOOLEAN /\ run[r].old \in SUBSET OldBackup
  BY <1>1, <1>2, RunFacts
<1>4. /\ run' \in [Runs -> Run \union {NoRun, Queued}]
      /\ run'[r].pc = "query" /\ run'[r].backup = run[r].backup
      /\ run'[r].file = run[r].file /\ run'[r].old = run[r].old
      /\ \A q \in Runs : q # r => run'[q] = run[q]
  BY <1>1, <1>3, ContinueStep DEF Inv, Goto
<1>5. UpdateStatus(b, "completed", run[r].key) \/ UNCHANGED backup
  BY <1>2 DEF Complete
<1>6. /\ backup' \in [Backups -> Record \union {None}]
      /\ Created' \subseteq Created
      /\ \A c \in Created : backup'[c].file = backup[c].file
      /\ \A c \in Backups : c # b => backup'[c] = backup[c]
  <2>1. CASE UpdateStatus(b, "completed", run[r].key)
    BY <1>3, <2>1, UpdateStep DEF Inv
  <2>2. CASE UNCHANGED backup
    BY <2>2 DEF Inv, Types, Created
  <2>3. QED
    BY <1>5, <2>1, <2>2
<1>7. Types'
  BY <1>1, <1>4, <1>6 DEF Inv, Types
<1>8. SameNames
  BY <1>1, <1>4, <1>6 DEF SameNames, Name
<1>9. Onward
  <2> SUFFICES ASSUME NEW q \in Runs, run'[q].pc \in Early
               PROVE  /\ run[q].pc \in Early /\ run'[q].backup = run[q].backup
                      /\ run[q].backup \in Created' =>
                            backup'[run[q].backup].status = "pending"
    BY DEF Onward
  <2>1. q # r /\ run'[q] = run[q] /\ run[q].pc \in Early
    BY <1>1, <1>4
  <2>2. run[q].backup \in Backups /\ run[q].backup # b
    BY <1>1, <1>2, <2>1, RunFacts DEF Inv, Begun, Pcs
  <2>3. QED
    BY <1>6, <2>1, <2>2 DEF Inv, Begun
<1>10. StaysCovered
  BY <1>1, <1>4, CoveredStep
<1>11. \A c \in Created' : backup'[c].status = "completed" =>
          backup[c].status = "completed" \/ run[r].backup = c
  BY <1>2, <1>6 DEF Created
<1>12. QED
  BY <1>1, <1>4, <1>7, <1>8, <1>9, <1>10, <1>11, InvStep

-----------------------------------------------------------------------------
(* A run past its own backup, whatever it does to the rows of others.      *)
LEMMA LateKeeps ==
    ASSUME Inv, NEW r \in Runs, run[r].pc \in Pcs \ Early,
           run' \in [Runs -> Run \union {NoRun, Queued}],
           \A q \in Runs : q # r => run'[q] = run[q],
           run'[r].pc \notin Early,
           run'[r].pc \in Pcs => run'[r].backup = run[r].backup /\ run'[r].file = run[r].file,
           \A o \in run'[r].old : Name(o.backup, o.file),
           UNCHANGED <<config, dests, defaults, adding, count, second>>,
           backup' \in [Backups -> Record \union {None}],
           \A b \in Backups : backup'[b] \in {backup[b], None},
           lapses \subseteq lapses', StaysCovered
    PROVE  Inv'
<1>1. /\ Created' \subseteq Created
      /\ \A b \in Created' : backup'[b] = backup[b]
  BY DEF Created
<1>2. Types'
  BY DEF Inv, Types
<1>3. SameNames
  BY <1>1 DEF SameNames, Name
<1>4. Onward
  <2> SUFFICES ASSUME NEW q \in Runs, run'[q].pc \in Early
               PROVE  /\ run[q].pc \in Early /\ run'[q].backup = run[q].backup
                      /\ run[q].backup \in Created' =>
                            backup'[run[q].backup].status = "pending"
    BY DEF Onward
  <2>1. run'[q] = run[q] /\ run[q].pc \in Early
    OBVIOUS
  <2>2. QED
    BY <1>1, <2>1 DEF Inv, Begun
<1>5. \A q \in Runs : run'[q].pc \in {"upload", "complete"} =>
         run[q].pc \in {"upload", "complete"}
  BY DEF Early
<1>6. QED
  BY <1>1, <1>2, <1>3, <1>4, <1>5, InvStep

LEMMA QueryKeeps ==
    ASSUME Inv, NEW r \in Runs, QueryOld(r)
    PROVE  Inv'
<1> DEFINE old == {Listed(b) : b \in Old(run[r].keep)}
<1>1. /\ run[r].pc = "query" /\ run[r].pc \in Pcs \ Early
      /\ "prune" \in Pcs /\ "prune" \notin Early /\ "none" \notin Early \union Pcs
      /\ UNCHANGED <<config, dests, defaults, adding, count, second, deleting, files, backup,
                     lapses>>
  BY DEF QueryOld, Pcs, Early, RunVars, settingVars, storeVars
<1>2. /\ backup' \in [Backups -> Record \union {None}]
      /\ \A b \in Backups : backup'[b] = backup[b]
  BY <1>1 DEF Inv, Types
<1>3. \A o \in old : o \in OldBackup /\ Name(o.backup, o.file)
  <2> SUFFICES ASSUME NEW b \in Old(run[r].keep)
               PROVE  Listed(b) \in OldBackup /\ Name(Listed(b).backup, Listed(b).file)
    OBVIOUS
  <2>1. b \in Created /\ b \in Backups /\ backup[b] \in Record
    BY DEF Old, Completed, Created, Inv, Types
  <2>2. Listed(b).backup = b /\ Listed(b).file = backup[b].file
    BY DEF Listed
  <2>3. QED
    BY <2>1, <2>2 DEF Listed, OldBackup, Record, Name
<1>4. run[r].key \in BOOLEAN
  BY <1>1, RunFacts
<1> HIDE DEF old
<1>5. CASE Continue(r, "prune", run[r].key, old)
  <2>1. old \in SUBSET OldBackup
    BY <1>3
  <2>2. /\ run' \in [Runs -> Run \union {NoRun, Queued}]
        /\ run'[r].pc = "prune" /\ run'[r].backup = run[r].backup
        /\ run'[r].file = run[r].file /\ run'[r].old = old
        /\ \A q \in Runs : q # r => run'[q] = run[q]
    BY <1>1, <1>4, <1>5, <2>1, ContinueStep DEF Inv
  <2>3. StaysCovered
    BY <1>1, <2>2, CoveredStep
  <2>4. QED
    BY <1>1, <1>2, <1>3, <2>2, <2>3, LateKeeps
<1>6. CASE End(r)
  <2>1. /\ run' \in [Runs -> Run \union {NoRun, Queued}]
        /\ run'[r].pc = "none" /\ run'[r].old = {}
        /\ \A q \in Runs : q # r => run'[q] = run[q]
    BY <1>6, EndStep DEF Inv
  <2>2. StaysCovered
    BY <1>1, <2>1, CoveredStep
  <2>3. QED
    BY <1>1, <1>2, <2>1, <2>2, LateKeeps
<1>7. QED
  BY <1>5, <1>6 DEF QueryOld, old

LEMMA PruneFilesKeeps ==
    ASSUME Inv, NEW r \in Runs, NEW o \in run[r].old, PruneFiles(r, o)
    PROVE  Inv'
<1>1. /\ run[r].pc = "prune" /\ run[r].pc \in Pcs /\ run[r].pc \in Pcs \ Early
      /\ "drop" \in Pcs /\ "drop" \notin Early /\ NextOld(r, o) /\ Goto(r, "drop")
      /\ UNCHANGED <<config, dests, defaults, adding, count, second, deleting, backup>>
      /\ lapses \subseteq lapses'
  BY DEF PruneFiles, Pcs, Early, RunVars, settingVars, Left
<1>2. files \ {o.file} \subseteq files'
  BY DEF PruneFiles
<1>3. /\ run[r].key \in BOOLEAN /\ run[r].old \in SUBSET OldBackup
      /\ \A p \in run[r].old : Name(p.backup, p.file)
      /\ o.backup \in Backups /\ o.file \in Seconds /\ Name(o.backup, o.file)
  BY <1>1, RunFacts
<1>4. /\ run' \in [Runs -> Run \union {NoRun, Queued}]
      /\ run'[r].pc = "drop" /\ run'[r].backup = run[r].backup
      /\ run'[r].file = run[r].file /\ run'[r].old = run[r].old
      /\ \A q \in Runs : q # r => run'[q] = run[q]
  BY <1>1, <1>3, ContinueStep DEF Inv, Goto
<1>5. StaysCovered
  <2> SUFFICES ASSUME NEW c \in Created', NEW s \in Seconds, Name(c, s), Covered(c, s)
               PROVE  Covered(c, s)'
    BY DEF StaysCovered
  <2>1. c \in Backups
    BY DEF Created
  <2>2. CASE s # o.file
    <3>1. Dropping(c) => Dropping(c)'
      BY <1>1, <1>4 DEF Dropping, NextOld
    <3>2. QED
      BY <1>1, <1>2, <2>2, <3>1 DEF Covered
  <2>3. CASE s = o.file /\ c # o.backup
    BY <1>1, <1>3, <2>1, <2>3 DEF Inv, Named, Covered
  <2>4. CASE c = o.backup
    <3>1. Dropping(c)'
      BY <1>1, <1>4, <2>4 DEF Dropping, NextOld
    <3>2. QED
      BY <3>1 DEF Covered
  <2>5. QED
    BY <2>2, <2>3, <2>4
<1>6. /\ backup' \in [Backups -> Record \union {None}]
      /\ \A b \in Backups : backup'[b] = backup[b]
  BY <1>1 DEF Inv, Types
<1>7. QED
  BY <1>1, <1>3, <1>4, <1>5, <1>6, LateKeeps

LEMMA PruneRowKeeps ==
    ASSUME Inv, NEW r \in Runs, NEW o \in run[r].old, PruneRow(r, o)
    PROVE  Inv'
<1>1. /\ run[r].pc = "drop" /\ run[r].pc \in Pcs /\ run[r].pc \in Pcs \ Early
      /\ "prune" \in Pcs /\ "prune" \notin Early /\ "none" \notin Early \union Pcs
      /\ NextOld(r, o)
      /\ UNCHANGED <<config, dests, defaults, adding, count, second, deleting, files>>
      /\ lapses \subseteq lapses'
  BY DEF PruneRow, Pcs, Early, RunVars, settingVars, storeVars, Left
<1>2. /\ run[r].key \in BOOLEAN /\ run[r].old \in SUBSET OldBackup
      /\ \A p \in run[r].old : /\ p.backup \in Backups
                               /\ Name(p.backup, p.file)
  BY <1>1, RunFacts
<1>3. /\ run' \in [Runs -> Run \union {NoRun, Queued}]
      /\ run'[r].pc \in {"none", "prune"} /\ run'[r].old \subseteq run[r].old
      /\ run'[r].pc = "prune" => /\ run'[r].backup = run[r].backup
                                 /\ run'[r].file = run[r].file
      /\ \A q \in Runs : q # r => run'[q] = run[q]
  <2>1. CASE End(r)
    BY <2>1, EndStep DEF Inv
  <2>2. CASE Continue(r, "prune", run[r].key, run[r].old \ {o})
    <3>1. run[r].old \ {o} \in SUBSET OldBackup
      BY <1>2
    <3>2. QED
      BY <1>1, <1>2, <2>2, <3>1, ContinueStep DEF Inv
  <2>3. QED
    BY <2>1, <2>2 DEF PruneRow
<1>4. /\ backup' \in [Backups -> Record \union {None}]
      /\ \A b \in Backups : backup'[b] \in {backup[b], None}
      /\ backup'[o.backup] = None \/ <<"row", o.backup>> \in lapses'
  BY <1>2 DEF PruneRow, Inv, Types, Left
<1>5. StaysCovered
  <2> SUFFICES ASSUME NEW c \in Created', NEW s \in Seconds, Covered(c, s)
               PROVE  Covered(c, s)'
    BY DEF StaysCovered
  <2>1. CASE c = o.backup
    BY <1>4, <2>1 DEF Covered, Created
  <2>2. CASE c # o.backup
    <3>1. \A p \in run[r].old : NextOld(r, p) => p.backup = o.backup
      BY <1>1, <1>2 DEF NextOld, Backups
    <3>2. Dropping(c) => Dropping(c)'
      BY <1>3, <2>2, <3>1 DEF Dropping, NextOld
    <3>3. QED
      BY <1>1, <3>2 DEF Covered
  <2>3. QED
    BY <2>1, <2>2
<1>6. QED
  BY <1>1, <1>2, <1>3, <1>4, <1>5, LateKeeps

-----------------------------------------------------------------------------
(* Requests that delete, and the death of the process: rows go, runs stop. *)
LEMMA LossKeeps ==
    ASSUME Inv, UNCHANGED <<dests, defaults, count, second>>,
           config' \in {config, None}, adding' \subseteq adding,
           backup' \in [Backups -> Record \union {None}],
           \A b \in Backups : backup'[b] \in {backup[b], None},
           \/ UNCHANGED run
           \/ run' = [r \in Runs |-> NoRun],
           lapses \subseteq lapses', StaysCovered
    PROVE  Inv'
<1>1. /\ Created' \subseteq Created
      /\ \A b \in Created' : backup'[b] = backup[b]
  BY DEF Created
<1>2. /\ run' \in [Runs -> Run \union {NoRun, Queued}]
      /\ \A r \in Runs : run'[r] = run[r] \/ run'[r] = NoRun
  BY DEF Inv, Types
<1>3. /\ NoRun.pc \notin Pcs /\ NoRun.pc \notin Early /\ NoRun.old = {}
      /\ NoRun.pc \notin {"upload", "complete"}
  BY DEF NoRun, Pcs, Early
<1>4. Types'
  BY <1>2 DEF Inv, Types
<1>5. SameNames
  BY <1>1, <1>2, <1>3 DEF SameNames, Name
<1>6. Onward
  <2> SUFFICES ASSUME NEW q \in Runs, run'[q].pc \in Early
               PROVE  /\ run[q].pc \in Early /\ run'[q].backup = run[q].backup
                      /\ run[q].backup \in Created' =>
                            backup'[run[q].backup].status = "pending"
    BY DEF Onward
  <2>1. run'[q] = run[q] /\ run[q].pc \in Early
    BY <1>2, <1>3
  <2>2. QED
    BY <1>1, <2>1 DEF Inv, Begun
<1>7. QED
  BY <1>1, <1>2, <1>3, <1>4, <1>5, <1>6, InvStep

LEMMA DeleteKeeps ==
    ASSUME Inv, DeleteRow \/ \E b \in Backups : DeleteFiles(b)
    PROVE  Inv'
<1>1. /\ UNCHANGED <<config, dests, defaults, adding, count, second, run>>
      /\ lapses \subseteq lapses'
  BY DEF DeleteRow, DeleteFiles, settingVars, Left
<1>2. None \notin Backups
  BY BackupsAssumption DEF Backups
<1>3. ASSUME NEW b \in Backups, DeleteFiles(b)
      PROVE  Inv'
  <2>1. /\ deleting = None /\ deleting' = b /\ b \in Created /\ UNCHANGED backup
        /\ files \ {backup[b].file} \subseteq files'
    BY <1>3 DEF DeleteFiles
  <2>2. Name(b, backup[b].file) /\ backup[b].file \in Seconds
    BY <2>1 DEF Name, Created, Inv, Types, Record
  <2>3. StaysCovered
    <3> SUFFICES ASSUME NEW c \in Created', NEW s \in Seconds, Name(c, s), Covered(c, s)
                 PROVE  Covered(c, s)'
      BY DEF StaysCovered
    <3>1. c \in Backups
      BY DEF Created
    <3>2. CASE c = b
      BY <2>1, <3>2 DEF Covered
    <3>3. CASE c # b /\ s = backup[b].file
      BY <1>1, <2>2, <3>1, <3>3 DEF Inv, Named, Covered
    <3>4. CASE s # backup[b].file
      <4>1. Dropping(c) => Dropping(c)'
        BY <1>1 DEF Dropping, NextOld
      <4>2. QED
        BY <1>1, <1>2, <2>1, <3>1, <3>4, <4>1 DEF Covered
    <3>5. QED
      BY <3>2, <3>3, <3>4
  <2>4. /\ backup' \in [Backups -> Record \union {None}]
        /\ \A c \in Backups : backup'[c] = backup[c]
    BY <2>1 DEF Inv, Types
  <2>5. QED
    BY <1>1, <2>3, <2>4, LossKeeps
<1>4. CASE DeleteRow
  <2>1. /\ deleting # None /\ UNCHANGED files
        /\ \/ backup' = [backup EXCEPT ![deleting] = None]
           \/ <<"row", deleting>> \in lapses' /\ UNCHANGED backup
    BY <1>4 DEF DeleteRow, storeVars, Left
  <2>2. /\ backup' \in [Backups -> Record \union {None}]
        /\ \A c \in Backups : backup'[c] \in {backup[c], None}
        /\ deleting \in Backups => backup'[deleting] = None \/ <<"row", deleting>> \in lapses'
    BY <2>1 DEF Inv, Types
  <2>3. StaysCovered
    <3> SUFFICES ASSUME NEW c \in Created', NEW s \in Seconds, Covered(c, s)
                 PROVE  Covered(c, s)'
      BY DEF StaysCovered
    <3>1. c \in Backups /\ backup'[c] # None
      BY DEF Created
    <3>2. CASE c = deleting
      BY <2>2, <3>1, <3>2 DEF Covered
    <3>3. CASE c # deleting
      <4>1. Dropping(c) => Dropping(c)'
        BY <1>1 DEF Dropping, NextOld
      <4>2. QED
        BY <1>1, <2>1, <3>3, <4>1 DEF Covered
    <3>4. QED
      BY <3>2, <3>3
  <2>4. QED
    BY <1>1, <2>2, <2>3, LossKeeps
<1>5. QED
  BY <1>3, <1>4

LEMMA DeleteDatabaseKeeps ==
    ASSUME Inv, DeleteDatabase
    PROVE  Inv'
<1>1. /\ UNCHANGED <<dests, defaults, adding, count, second, run, files, deleting>>
      /\ lapses \subseteq lapses'
  BY DEF DeleteDatabase, storeVars, Left
<1>2. CASE config' = None /\ backup' = [b \in Backups |-> None]
  <2>1. StaysCovered
    BY <1>2 DEF StaysCovered, Created
  <2>2. QED
    BY <1>1, <1>2, <2>1, LossKeeps
<1>3. CASE UNCHANGED <<config, backup>>
  <2>1. StaysCovered
    BY <1>1, CoveredStep
  <2>2. backup' \in [Backups -> Record \union {None}]
    BY <1>3 DEF Inv, Types
  <2>3. QED
    BY <1>1, <1>3, <2>1, <2>2, LossKeeps
<1>4. QED
  BY <1>2, <1>3 DEF DeleteDatabase

LEMMA CrashKeeps ==
    ASSUME Inv, Crash
    PROVE  Inv'
<1>1. /\ UNCHANGED <<config, dests, defaults, backup, count, second, files>>
      /\ run' = [r \in Runs |-> NoRun] /\ adding' = {} /\ lapses \subseteq lapses'
  BY DEF Crash, storeVars, Left
<1>2. /\ deleting # None => <<"row", deleting>> \in lapses'
      /\ \A r \in Runs : run[r].pc = "drop" =>
            \A o \in run[r].old : NextOld(r, o) => <<"row", o.backup>> \in lapses'
  <2>1. RowsLeft \subseteq lapses'
    BY DEF Crash, Left
  <2>2. deleting # None => <<"row", deleting>> \in RowsLeft
    BY DEF RowsLeft
  <2>3. \A o \in Dropped : <<"row", o.backup>> \in RowsLeft
    BY DEF RowsLeft
  <2>4. ASSUME NEW r \in Runs, run[r].pc = "drop", NEW o \in run[r].old, NextOld(r, o)
        PROVE  o \in Dropped
    BY <2>4 DEF Dropped
  <2>5. QED
    BY <2>1, <2>2, <2>3, <2>4
<1>3. StaysCovered
  <2> SUFFICES ASSUME NEW c \in Created', NEW s \in Seconds, Covered(c, s)
               PROVE  Covered(c, s)'
    BY DEF StaysCovered
  <2>1. c # None
    BY BackupsAssumption DEF Created, Backups
  <2>2. Dropping(c) \/ deleting = c => <<"row", c>> \in lapses'
    BY <1>2, <2>1 DEF Dropping
  <2>3. QED
    BY <1>1, <2>2 DEF Covered
<1>4. /\ backup' \in [Backups -> Record \union {None}]
      /\ \A b \in Backups : backup'[b] = backup[b]
  BY <1>1 DEF Inv, Types
<1>5. QED
  BY <1>1, <1>3, <1>4, LossKeeps

-----------------------------------------------------------------------------
LEMMA InvIsInductive ==
    ASSUME Inv, [Next]_vars
    PROVE  Inv'
<1>1. CASE UNCHANGED vars
  BY <1>1
  DEF vars, settingVars, storeVars, histVars, Inv, Types, Named, Name, Created, Begun, Kept,
      Completed, Dumped, Covered, Dropping, NextOld
<1>2. ASSUME NEW r \in Runs, CheckAndRunBackups(r) \/ RunStep(r)
      PROVE  Inv'
  BY <1>2, QueueKeeps, DumpKeeps, CompleteKeeps, QueryKeeps, PruneFilesKeeps, PruneRowKeeps
  DEF RunStep
<1>3. QED
  BY <1>1, <1>2, SettingsKeep, StorageDeleteKeeps, RunBackupKeeps, DeleteKeeps,
     DeleteDatabaseKeeps, CrashKeeps DEF Next

LEMMA InvInitially == Init => Inv
BY BackupsAssumption
DEF Init, Inv, Types, Named, Name, Created, Begun, Kept, Completed, Dumped, NoRun, Pcs, Early

LEMMA InvHolds == Spec => []Inv
<1>1. Init => Inv
  BY InvInitially
<1>2. Inv /\ [Next]_vars => Inv'
  BY InvIsInductive
<1>3. QED
  BY <1>1, <1>2, PTL DEF Spec

(* However many runs dump, fail, upload and prune at once, and wherever    *)
(* the process dies: a completed backup still has its file, unless a named *)
(* accident took it (RunBackup, pruneOldBackups, DeleteBackup).            *)
THEOREM RestorableHolds == Spec => []Restorable
<1>1. Inv => Restorable
  BY DEF Inv, Kept, Restorable, Covered, Dropping
<1>2. QED
  BY <1>1, InvHolds, PTL

-----------------------------------------------------------------------------
(* Pruning takes the oldest.  A list of old backups was made with a count  *)
(* that was noted, and as many newer ones have been completed as it says.  *)
Newer(b) == {c \in completed : c > b}

History == completed \subseteq Backups /\ Completed \subseteq completed /\ applied \subseteq Nat

Lists == \A r \in Runs : run[r].old # {} =>
    /\ run[r].keep \in applied
    /\ \A o \in run[r].old : Cardinality(Newer(o.backup)) >= run[r].keep

LEMMA NewerGrows ==
    ASSUME NEW S, NEW T, T \subseteq Backups, S \subseteq T, NEW b
    PROVE  /\ Cardinality({c \in S : c > b}) \in Nat /\ Cardinality({c \in T : c > b}) \in Nat
           /\ Cardinality({c \in S : c > b}) <= Cardinality({c \in T : c > b})
<1> DEFINE U == {c \in T : c > b}
           V == {c \in S : c > b}
<1>1. IsFiniteSet(Backups)
  BY FS_Interval, BackupsAssumption DEF Backups
<1>2. U \in SUBSET Backups /\ V \in SUBSET U
  OBVIOUS
<1> HIDE DEF U, V
<1>3. IsFiniteSet(U)
  BY <1>1, <1>2, FS_Subset
<1>4. IsFiniteSet(V) /\ Cardinality(V) <= Cardinality(U)
  BY <1>2, <1>3, FS_Subset
<1>5. Cardinality(V) \in Nat /\ Cardinality(U) \in Nat
  BY <1>3, <1>4, FS_CardinalityType
<1>6. QED
  BY <1>4, <1>5 DEF U, V

LEMMA LeastIsLeast ==
    ASSUME NEW S, S \subseteq Nat, NEW n \in S
    PROVE  Least(S) \in Nat /\ Least(S) <= n
<1>1. PICK m \in S : \A k \in S : ~ (<<k, m>> \in OpToRel(<, Nat))
  BY WFMin, NatLessThanWellFounded
<1>2. ASSUME NEW k \in S PROVE m <= k
  <2>1. <<k, m>> \in Nat \X Nat /\ ~ (<<k, m>> \in OpToRel(<, Nat))
    BY <1>1
  <2>2. ~ (k < m)
    BY <2>1 DEF OpToRel
  <2>3. QED
    BY <2>2
<1>3. Least(S) \in S /\ \A k \in S : Least(S) <= k
  BY <1>2 DEF Least
<1>4. QED
  BY <1>3

(* What a step may do to what the lists are about.                         *)
Recorded ==
    /\ completed \subseteq completed' /\ completed' \subseteq Backups
    /\ applied \subseteq applied' /\ applied' \subseteq Nat
    /\ \A b \in Completed' : b \in Completed \/ b \in completed'

Shrink(r) == run'[r].old # {} => run'[r].keep = run[r].keep /\ run'[r].old \subseteq run[r].old

LEMMA ListsStep ==
    ASSUME Inv, History, Lists, Recorded,
           \A r \in Runs :
              \/ Shrink(r)
              \/ run'[r].keep \in applied' /\ run'[r].keep \in Nat /\
                 \A o \in run'[r].old : Cardinality(Newer(o.backup)) >= run'[r].keep
    PROVE  History' /\ Lists'
<1>1. History'
  BY DEF History, Recorded
<1>2. ASSUME NEW r \in Runs, run'[r].old # {}, NEW o \in run'[r].old
      PROVE  /\ run'[r].keep \in applied'
             /\ Cardinality({c \in completed' : c > o.backup}) >= run'[r].keep
  <2>1. /\ Cardinality(Newer(o.backup)) \in Nat
        /\ Cardinality({c \in completed' : c > o.backup}) \in Nat
        /\ Cardinality(Newer(o.backup)) <= Cardinality({c \in completed' : c > o.backup})
    BY NewerGrows DEF Recorded, Newer
  <2>2. CASE Shrink(r)
    <3>1. run'[r].keep = run[r].keep /\ o \in run[r].old
      BY <1>2, <2>2 DEF Shrink
    <3>2. run[r].keep \in applied /\ Cardinality(Newer(o.backup)) >= run[r].keep
      BY <3>1 DEF Lists
    <3>3. run[r].keep \in applied' /\ run[r].keep \in Nat
      BY <3>2 DEF Recorded, History
    <3>4. QED
      BY <2>1, <3>1, <3>2, <3>3
  <2>3. CASE ~ Shrink(r)
    BY <2>1, <2>3
  <2>4. QED
    BY <2>2, <2>3
<1>3. QED
  BY <1>1, <1>2 DEF Lists, Newer

(* What pruning may take at a step.                                        *)
OldestGo == \A b \in Completed :
    backup'[b] = None /\ alive' /\ b \notin byUser' =>
        Cardinality({c \in completed : c > b}) >= Least(applied)

Pruned == History' /\ Lists' /\ OldestGo

LEMMA QuietLists ==
    ASSUME Inv, History, Lists, UNCHANGED <<completed, applied>>,
           \A b \in Created' :
              backup'[b].status = "completed" => b \in Created /\ backup[b].status = "completed",
           \A r \in Runs : Shrink(r),
           OldestGo
    PROVE  Pruned
<1>1. Recorded
  BY DEF Recorded, History, Completed
<1>2. QED
  BY <1>1, ListsStep DEF Pruned

LEMMA RowsStay ==
    ASSUME Inv, History, Lists, UNCHANGED <<backup, completed, applied>>,
           \A r \in Runs : Shrink(r)
    PROVE  Pruned
<1>1. Created' = Created
  BY DEF Created
<1>2. OldestGo
  BY DEF OldestGo, Completed, Created
<1>3. QED
  BY <1>1, <1>2, QuietLists

LEMMA ShrinkStep ==
    ASSUME Inv, NEW r \in Runs,
           \/ UNCHANGED run
           \/ End(r)
           \/ \E pc \in Pcs, key \in BOOLEAN :
                 run[r].pc \in Pcs /\ Continue(r, pc, key, run[r].old)
    PROVE  \A q \in Runs : Shrink(q)
<1>1. CASE UNCHANGED run
  BY <1>1 DEF Shrink
<1>2. CASE End(r)
  <2>1. run'[r].old = {} /\ \A q \in Runs : q # r => run'[q] = run[q]
    BY <1>2, EndStep DEF Inv
  <2>2. QED
    BY <2>1 DEF Shrink
<1>3. ASSUME NEW pc \in Pcs, NEW key \in BOOLEAN, run[r].pc \in Pcs,
             Continue(r, pc, key, run[r].old)
      PROVE  \A q \in Runs : Shrink(q)
  <2>1. /\ run'[r].keep = run[r].keep /\ run'[r].old = run[r].old
        /\ \A q \in Runs : q # r => run'[q] = run[q]
    BY <1>3, RunFacts, ContinueStep DEF Inv
  <2>2. QED
    BY <2>1 DEF Shrink
<1>4. QED
  BY <1>1, <1>2, <1>3

-----------------------------------------------------------------------------
LEMMA OthersPrune ==
    ASSUME Inv, History, Lists,
           \/ \E dest \in Dests, keep \in Keeps, on \in BOOLEAN : UpdateBackupConfig(dest, keep, on)
           \/ \E t \in Destinations, isDefault \in BOOLEAN : StorageCreate(t, isDefault)
           \/ \E t \in Destinations : StorageInsert(t) \/ StorageSetDefault(t)
           \/ \E r \in Runs : CheckAndRunBackups(r) \/ RunNotFound(r)
           \/ \E b \in Backups : DeleteFiles(b)
           \/ Crash
    PROVE  Pruned
<1>1. UNCHANGED <<backup, completed, applied>>
  BY DEF UpdateBackupConfig, StorageCreate, StorageInsert, StorageSetDefault, Crash,
         NoChangeElsewhere, CheckAndRunBackups, RunNotFound, DeleteFiles, histVars
<1>2. CASE UNCHANGED run
  BY <1>1, <1>2, RowsStay DEF Shrink
<1>3. ASSUME NEW r \in Runs, CheckAndRunBackups(r) \/ RunNotFound(r)
      PROVE  Pruned
  <2>1. run'[r].old = {} /\ \A q \in Runs : q # r => run'[q] = run[q]
    BY <1>3 DEF CheckAndRunBackups, RunNotFound, Inv, Types, NoRun, Queued
  <2>2. QED
    BY <1>1, <2>1, RowsStay DEF Shrink
<1>4. CASE run' = [r \in Runs |-> NoRun]
  BY <1>1, <1>4, RowsStay DEF Shrink, NoRun
<1>5. QED
  BY <1>2, <1>3, <1>4
  DEF UpdateBackupConfig, StorageCreate, StorageInsert, StorageSetDefault, Crash,
      NoChangeElsewhere, DeleteFiles

LEMMA StorageDeletePrunes ==
    ASSUME Inv, History, Lists, NEW t \in Destinations, StorageDelete(t)
    PROVE  Pruned
<1>1. UNCHANGED <<run, completed, applied>>
  BY DEF StorageDelete
<1>2. ASSUME NEW b \in Backups, backup[b] # None
      PROVE  backup'[b] \in Record /\ backup'[b].status = backup[b].status
  BY <1>2 DEF StorageDelete, Inv, Types, Record, Dests
<1>3. \A b \in Backups : backup[b] = None => backup'[b] = None
  BY DEF StorageDelete, Created
<1>4. OldestGo
  BY <1>2, BackupsAssumption DEF OldestGo, Completed, Created
<1>5. QED
  BY <1>1, <1>2, <1>3, <1>4, QuietLists DEF Created, Shrink

LEMMA RunBackupPrunes ==
    ASSUME Inv, History, Lists, NEW r \in Runs, NEW dest \in Dests, NEW s \in Seconds,
           RunBackup(r, dest, s)
    PROVE  Pruned
<1> DEFINE row == [status |-> "pending", dest |-> dest, key |-> FALSE, file |-> s]
           b == count + 1
<1>1. /\ UNCHANGED <<completed, applied>> /\ count < MaxBackups
      /\ backup' = [backup EXCEPT ![b] = row]
  BY DEF RunBackup
<1>2. run'[r].old = {} /\ \A q \in Runs : q # r => run'[q] = run[q]
  BY DEF RunBackup, Inv, Types
<1>3. row \in Record /\ row.status = "pending"
  BY DEF Record
<1>4. row # None
  BY <1>3, BackupsAssumption
<1> HIDE DEF row, b
<1>5. \A c \in Backups : backup'[c] = row \/ backup'[c] = backup[c]
  BY <1>1 DEF Inv, Types
<1>6. OldestGo
  BY <1>4, <1>5 DEF OldestGo, Completed, Created
<1>7. QED
  BY <1>1, <1>2, <1>3, <1>5, <1>6, QuietLists DEF Created, Shrink

LEMMA DumpPrunes ==
    ASSUME Inv, History, Lists, NEW r \in Runs,
           Open(r) \/ DumpEnds(r) \/ DumpFails(r) \/ Upload(r)
    PROVE  Pruned
<1>1. run[r].pc \in Pcs /\ {"dump", "upload", "complete"} \subseteq Pcs
  BY DEF Open, DumpEnds, DumpFails, Upload, Pcs, Early
<1>2. run[r].key \in BOOLEAN /\ run[r].backup \in Backups
  BY <1>1, RunFacts
<1>3. UNCHANGED <<completed, applied>>
  BY DEF Open, DumpEnds, DumpFails, Upload, histVars
<1>4. \A q \in Runs : Shrink(q)
  <2>1. End(r) \/ \E pc \in Pcs, key \in BOOLEAN : Continue(r, pc, key, run[r].old)
    BY <1>1, <1>2 DEF Open, DumpEnds, DumpFails, Upload, Goto
  <2>2. QED
    BY <1>1, <2>1, ShrinkStep
<1>5. UNCHANGED backup \/ UpdateStatus(run[r].backup, "failed", FALSE)
  BY DEF Open, DumpEnds, DumpFails, Upload, storeVars, FailStatus, FailUnsaid
<1>6. CASE UNCHANGED backup
  BY <1>3, <1>4, <1>6, RowsStay
<1>7. CASE UpdateStatus(run[r].backup, "failed", FALSE)
  <2>1. PICK b : b = run[r].backup
    OBVIOUS
  <2>2. /\ Created' = Created
        /\ \A c \in Backups : c # b => backup'[c] = backup[c]
        /\ b \in Created => backup'[b].status = "failed"
    BY <1>2, <1>7, <2>1, UpdateStep DEF Inv
  <2>3. OldestGo
    BY <2>2 DEF OldestGo, Completed, Created
  <2>4. QED
    BY <1>3, <1>4, <2>2, <2>3, QuietLists DEF Created
<1>8. QED
  BY <1>5, <1>6, <1>7

LEMMA CompletePrunes ==
    ASSUME Inv, History, Lists, NEW r \in Runs, Complete(r)
    PROVE  Pruned
<1>1. run[r].pc \in Pcs /\ "query" \in Pcs /\ Goto(r, "query") /\ UNCHANGED applied
  BY DEF Complete, Pcs, Early
<1>2. PICK b : b = run[r].backup
  OBVIOUS
<1>3. b \in Backups /\ run[r].key \in BOOLEAN
  BY <1>1, <1>2, RunFacts
<1>4. \A q \in Runs : Shrink(q)
  BY <1>1, <1>3, ShrinkStep DEF Goto
<1>5. CASE UNCHANGED <<backup, completed>>
  BY <1>1, <1>4, <1>5, RowsStay
<1>6. CASE /\ UpdateStatus(b, "completed", run[r].key)
           /\ completed' = IF b \in Created THEN completed \union {b} ELSE completed
  <2>1. /\ Created' = Created
        /\ \A c \in Backups : c # b => backup'[c] = backup[c]
    BY <1>3, <1>6, UpdateStep DEF Inv
  <2>2. \A c \in Completed' : c \in Completed \/ c \in completed'
    BY <1>6, <2>1 DEF Completed, Created
  <2>3. Recorded
    BY <1>1, <1>3, <1>6, <2>2 DEF Recorded, History
  <2>4. OldestGo
    BY <2>1 DEF OldestGo, Completed, Created
  <2>5. QED
    BY <1>4, <2>3, <2>4, ListsStep DEF Pruned
<1>7. QED
  BY <1>2, <1>5, <1>6 DEF Complete

LEMMA QueryPrunes ==
    ASSUME Inv, History, Lists, NEW r \in Runs, QueryOld(r)
    PROVE  Pruned
<1> DEFINE keep == run[r].keep
           old == {Listed(b) : b \in Old(keep)}
<1>1. /\ run[r].pc \in Pcs /\ "prune" \in Pcs /\ UNCHANGED <<backup, completed>>
      /\ run[r] \in Run /\ keep \in Nat
  <2>1. /\ run[r].pc \in Pcs /\ "prune" \in Pcs
        /\ UNCHANGED <<backup, completed>>
    BY DEF QueryOld, Pcs, Early
  <2>2. run[r] \in Run
    BY <2>1 DEF Inv, Types, NoRun, Queued, Pcs, Early
  <2>3. keep \in Nat
    BY <2>2, BackupsAssumption DEF Run
  <2>4. QED
    BY <2>1, <2>2, <2>3
<1>2. CASE End(r) /\ UNCHANGED applied
  BY <1>1, <1>2, ShrinkStep, RowsStay
<1>3. CASE Continue(r, "prune", run[r].key, old) /\ applied' = applied \union {keep}
  <2>1. \A o \in old : o \in OldBackup /\ o.backup \in Old(keep)
    <3> SUFFICES ASSUME NEW b \in Old(keep)
                 PROVE  Listed(b) \in OldBackup /\ Listed(b).backup = b
      OBVIOUS
    <3>1. b \in Backups /\ backup[b] \in Record
      BY DEF Old, Completed, Created, Inv, Types
    <3>2. QED
      BY <3>1 DEF Listed, OldBackup, Record
  <2> HIDE DEF old
  <2>2. /\ run'[r].keep = run[r].keep /\ run'[r].old = old
        /\ \A q \in Runs : q # r => run'[q] = run[q]
    <3>1. old \in SUBSET OldBackup /\ run[r].key \in BOOLEAN
      BY <1>1, <2>1, RunFacts
    <3>2. QED
      BY <1>1, <1>3, <3>1, ContinueStep DEF Inv
  <2>3. ASSUME NEW o \in old PROVE Cardinality(Newer(o.backup)) >= keep
    <3>1. Cardinality({c \in Completed : c > o.backup}) >= keep
      BY <2>1 DEF Old
    <3>2. /\ Cardinality({c \in Completed : c > o.backup}) \in Nat
          /\ Cardinality(Newer(o.backup)) \in Nat
          /\ Cardinality({c \in Completed : c > o.backup}) <= Cardinality(Newer(o.backup))
      BY NewerGrows DEF History, Newer
    <3>3. QED
      BY <1>1, <3>1, <3>2
  <2>4. Recorded
    BY <1>1, <1>3 DEF Recorded, History, Completed, Created
  <2>5. OldestGo
    BY <1>1 DEF OldestGo, Completed, Created
  <2>6. keep \in applied'
    BY <1>3
  <2>7. \A q \in Runs : q # r => Shrink(q)
    BY <2>2 DEF Shrink
  <2>8. QED
    BY <1>1, <2>2, <2>3, <2>4, <2>5, <2>6, <2>7, ListsStep DEF Pruned
<1>4. QED
  BY <1>2, <1>3 DEF QueryOld

LEMMA PruneRowPrunes ==
    ASSUME Inv, History, Lists, NEW r \in Runs, NEW o \in run[r].old, PruneRow(r, o)
    PROVE  Pruned
<1>1. run[r].pc \in Pcs /\ "prune" \in Pcs /\ UNCHANGED <<completed, applied>>
  BY DEF PruneRow, Pcs
<1>2. run[r].key \in BOOLEAN /\ run[r].old \in SUBSET OldBackup /\ o.backup \in Backups
  BY <1>1, RunFacts
<1>3. \A q \in Runs : Shrink(q)
  <2>1. CASE End(r)
    BY <2>1, ShrinkStep
  <2>2. CASE Continue(r, "prune", run[r].key, run[r].old \ {o})
    <3>1. run[r].old \ {o} \in SUBSET OldBackup
      BY <1>2
    <3>2. /\ run'[r].keep = run[r].keep /\ run'[r].old = run[r].old \ {o}
          /\ \A q \in Runs : q # r => run'[q] = run[q]
      BY <1>1, <1>2, <2>2, <3>1, ContinueStep DEF Inv
    <3>3. QED
      BY <3>2 DEF Shrink
  <2>3. QED
    BY <2>1, <2>2 DEF PruneRow
<1>4. \/ backup' = [backup EXCEPT ![o.backup] = None]
      \/ UNCHANGED backup
  BY DEF PruneRow
<1>5. \A b \in Backups : \/ backup'[b] = backup[b]
                         \/ backup'[b] = None /\ b = o.backup
  BY <1>2, <1>4 DEF Inv, Types
<1>6. OldestGo
  <2> SUFFICES ASSUME NEW b \in Completed, backup'[b] = None
               PROVE  Cardinality({c \in completed : c > b}) >= Least(applied)
    BY DEF OldestGo
  <2>1. b = o.backup
    BY <1>5 DEF Completed, Created
  <2>2. run[r].keep \in applied /\ Cardinality(Newer(b)) >= run[r].keep
    BY <2>1 DEF Lists
  <2>3. Least(applied) \in Nat /\ Least(applied) <= run[r].keep /\ run[r].keep \in Nat
    BY <2>2, LeastIsLeast DEF History
  <2>4. Cardinality(Newer(b)) \in Nat
    BY NewerGrows DEF History, Newer
  <2>5. QED
    BY <2>2, <2>3, <2>4 DEF Newer
<1>7. QED
  BY <1>1, <1>3, <1>5, <1>6, QuietLists DEF Created

LEMMA RestPrunes ==
    ASSUME Inv, History, Lists,
           \/ \E r \in Runs : \E o \in run[r].old : PruneFiles(r, o)
           \/ DeleteRow \/ DeleteDatabase
    PROVE  Pruned
<1>1. ASSUME NEW r \in Runs, NEW o \in run[r].old, PruneFiles(r, o)
      PROVE  Pruned
  <2>1. /\ run[r].pc \in Pcs /\ "drop" \in Pcs /\ Goto(r, "drop")
        /\ UNCHANGED <<backup, completed, applied>>
    BY <1>1 DEF PruneFiles, Pcs
  <2>2. run[r].key \in BOOLEAN
    BY <2>1, RunFacts
  <2>3. QED
    BY <2>1, <2>2, ShrinkStep, RowsStay DEF Goto
<1>2. CASE DeleteRow
  <2>1. /\ UNCHANGED <<run, completed, applied>>
        /\ \/ backup' = [backup EXCEPT ![deleting] = None]
              /\ byUser' = byUser \union ({deleting} \intersect Completed)
           \/ UNCHANGED backup
    BY <1>2 DEF DeleteRow
  <2>2. \A b \in Backups : \/ backup'[b] = backup[b]
                           \/ backup'[b] = None /\ (b \in Completed => b \in byUser')
    BY <2>1 DEF Inv, Types
  <2>3. OldestGo
    BY <2>2 DEF OldestGo, Completed, Created
  <2>4. QED
    BY <2>1, <2>2, <2>3, QuietLists DEF Created, Shrink
<1>3. CASE DeleteDatabase
  <2>1. /\ UNCHANGED <<run, completed, applied>> /\ ~ alive'
        /\ backup' = [b \in Backups |-> None] \/ UNCHANGED backup
    BY <1>3 DEF DeleteDatabase
  <2>2. QED
    BY <2>1, QuietLists DEF Created, Shrink, OldestGo
<1>4. QED
  BY <1>1, <1>2, <1>3

LEMMA PruneStep ==
    ASSUME Inv, History, Lists, Next
    PROVE  Pruned
<1>1. ASSUME NEW r \in Runs, RunStep(r) PROVE Pruned
  BY <1>1, OthersPrune, DumpPrunes, CompletePrunes, QueryPrunes, PruneRowPrunes, RestPrunes
  DEF RunStep
<1>2. QED
  BY <1>1, OthersPrune, StorageDeletePrunes, RunBackupPrunes, RestPrunes DEF Next

(* However many runs prune at once, with whatever counts: what they take   *)
(* is older than as many completed backups as the lowest count applied     *)
(* (pruneOldBackups, GetOldBackupsForPruning).                             *)
THEOREM NewestSurviveHolds == Spec => NewestSurvive
<1> DEFINE All == Inv /\ History /\ Lists
<1>1. Init => All
  <2>1. Init => Inv
    BY InvInitially
  <2>2. Init => History /\ Lists
    BY DEF Init, History, Lists, Completed, Created, NoRun
  <2>3. QED
    BY <2>1, <2>2
<1>2. ASSUME All, [Next]_vars PROVE All' /\ [OldestGo]_vars
  <2>1. Inv'
    BY <1>2, InvIsInductive
  <2>2. CASE UNCHANGED vars
    BY <1>2, <2>1, <2>2
    DEF vars, histVars, History, Lists, Newer, Completed, Created
  <2>3. CASE Next
    BY <1>2, <2>1, <2>3, PruneStep DEF Pruned
  <2>4. QED
    BY <1>2, <2>2, <2>3
<1>3. QED
  BY <1>1, <1>2, PTL DEF Spec, NewestSurvive, OldestGo

-----------------------------------------------------------------------------
(* The types of what the invariant above does not speak of.                *)
Stores ==
    /\ alive \in BOOLEAN /\ defaults \subseteq dests
    /\ files \subseteq Seconds /\ objects \subseteq Destinations \X Seconds
    /\ deleting \in Backups \union {None}
    /\ changes \in Nat /\ mishaps \in Nat
    /\ byUser \subseteq completed
    /\ applied \subseteq Keeps \union {DefaultKeep}
    /\ \A r \in Runs : run[r].pc = "upload" => run[r].dest # None

(* A run that moves on keeps the destination it read.                      *)
LEMMA UploadsTyped ==
    ASSUME Inv, Stores, NEW r \in Runs, \A q \in Runs : q # r => run'[q] = run[q],
           run'[r].pc = "upload" => run'[r].dest # None
    PROVE  \A q \in Runs : run'[q].pc = "upload" => run'[q].dest # None
BY DEF Stores

(* The settings keep these types.                                          *)
LEMMA SettingsTyped ==
    ASSUME Inv, Stores,
           \/ \E dest \in Dests, keep \in Keeps, on \in BOOLEAN : UpdateBackupConfig(dest, keep, on)
           \/ \E t \in Destinations, isDefault \in BOOLEAN : StorageCreate(t, isDefault)
           \/ \E t \in Destinations : StorageInsert(t) \/ StorageSetDefault(t) \/ StorageDelete(t)
    PROVE  Stores'
<1>1. /\ UNCHANGED <<alive, files, objects, run, deleting, mishaps, completed, byUser, applied>>
  BY DEF UpdateBackupConfig, StorageCreate, StorageInsert, StorageSetDefault, StorageDelete,
         NoChangeElsewhere, storeVars, histVars
<1>2. changes' \in Nat
  <2>1. changes' = changes \/ changes' = changes + 1
    BY DEF UpdateBackupConfig, StorageCreate, StorageInsert, StorageSetDefault, StorageDelete,
           Change
  <2>2. QED
    BY <2>1 DEF Stores
<1>3. defaults' \subseteq dests'
  BY DEF UpdateBackupConfig, StorageCreate, StorageInsert, StorageSetDefault, StorageDelete,
         Stores
<1>4. QED
  BY <1>1, <1>2, <1>3 DEF Stores

(* So do requests that delete and the death of the process,                *)
LEMMA LossTyped ==
    ASSUME Inv, History, Stores,
           DeleteRow \/ DeleteDatabase \/ Crash \/ \E b \in Backups : DeleteFiles(b)
    PROVE  Stores'
<1>1. changes' \in Nat /\ mishaps' \in Nat
  <2>1. /\ changes' = changes \/ changes' = changes + 1
        /\ mishaps' = mishaps \/ mishaps' = mishaps + 1
    BY DEF DeleteRow, DeleteDatabase, Crash, DeleteFiles, Change, Fails, Works, settingVars
  <2>2. QED
    BY <2>1 DEF Stores
<1>2. files' \subseteq files /\ objects' \subseteq objects
  BY DEF DeleteRow, DeleteDatabase, Crash, DeleteFiles, storeVars
<1>3. alive' \in BOOLEAN /\ UNCHANGED <<dests, defaults, completed, applied>>
  BY DEF Stores, DeleteRow, DeleteDatabase, Crash, DeleteFiles, settingVars
<1>4. UNCHANGED run \/ run' = [r \in Runs |-> NoRun]
  BY DEF DeleteRow, DeleteDatabase, Crash, DeleteFiles
<1>5. deleting' \in Backups \union {None} /\ byUser' \subseteq completed
  BY DEF Stores, History, DeleteRow, DeleteDatabase, Crash, DeleteFiles
<1>6. QED
  BY <1>1, <1>2, <1>3, <1>4, <1>5 DEF Stores, NoRun

(* and every step of a run.                                                *)
LEMMA RunTyped ==
    ASSUME Inv, History, Stores, NEW r \in Runs,
           \/ \E dest \in Dests, s \in Seconds : RunBackup(r, dest, s)
           \/ CheckAndRunBackups(r) \/ RunStep(r)
    PROVE  Stores'
<1>1. mishaps' \in Nat
  <2>1. mishaps' = mishaps \/ mishaps' = mishaps + 1
    BY DEF RunBackup, CheckAndRunBackups, RunStep, RunNotFound, Open, DumpEnds, DumpFails,
           Upload, Complete, QueryOld, PruneFiles, PruneRow, Fails, Works
  <2>2. QED
    BY <2>1 DEF Stores
<1>2. UNCHANGED <<alive, dests, defaults, changes, deleting, byUser>>
  BY DEF RunBackup, CheckAndRunBackups, RunStep, RunNotFound, Open, DumpEnds, DumpFails,
         Upload, Complete, QueryOld, PruneFiles, PruneRow, RunVars, settingVars, histVars
<1>3. completed \subseteq completed'
  BY DEF RunBackup, CheckAndRunBackups, RunStep, RunNotFound, Open, DumpEnds, DumpFails,
         Upload, Complete, QueryOld, PruneFiles, PruneRow, histVars
<1>4. CASE \/ \E dest \in Dests, s \in Seconds : RunBackup(r, dest, s)
           \/ CheckAndRunBackups(r) \/ RunNotFound(r)
  <2>1. /\ UNCHANGED <<files, objects, applied>> /\ run'[r].pc # "upload"
        /\ \A q \in Runs : q # r => run'[q] = run[q]
    <3>1. UNCHANGED <<files, objects, applied>>
      BY <1>4 DEF RunBackup, CheckAndRunBackups, RunNotFound, storeVars, histVars
    <3>2. run'[r].pc # "upload" /\ \A q \in Runs : q # r => run'[q] = run[q]
      <4>1. CASE \E dest \in Dests, s \in Seconds : RunBackup(r, dest, s)
        BY <4>1 DEF RunBackup, Inv, Types
      <4>2. CASE CheckAndRunBackups(r)
        BY <4>2 DEF CheckAndRunBackups, Queued, Inv, Types
      <4>3. CASE RunNotFound(r)
        BY <4>3 DEF RunNotFound, NoRun, Inv, Types
      <4>4. QED
        BY <1>4, <4>1, <4>2, <4>3
    <3>3. QED
      BY <3>1, <3>2
  <2>2. QED
    BY <1>1, <1>2, <1>3, <2>1, UploadsTyped DEF Stores
<1>5. CASE Open(r) \/ DumpEnds(r) \/ DumpFails(r) \/ Upload(r) \/ Complete(r) \/ QueryOld(r)
           \/ \E o \in run[r].old : PruneFiles(r, o) \/ PruneRow(r, o)
  <2>1. run[r].pc \in Pcs
    BY <1>5 DEF Open, DumpEnds, DumpFails, Upload, Complete, QueryOld, PruneFiles, PruneRow,
       Pcs, Early
  <2>2. /\ run[r] \in Run /\ run[r].keep \in Keeps \union {DefaultKeep}
        /\ run[r].dest \in Dests /\ run[r].file \in Seconds
    BY <2>1 DEF Inv, Types, Run, NoRun, Queued, Pcs, Early
  <2>3. files' \subseteq files \union {run[r].file}
    BY <1>5 DEF Open, DumpEnds, DumpFails, Upload, Complete, QueryOld, PruneFiles, PruneRow,
       storeVars
  <2>4. objects' \subseteq Destinations \X Seconds
    <3>1. CASE Upload(r)
      <4>1. run[r].dest \in Destinations
        BY <2>2, <3>1 DEF Upload, Stores, Dests
      <4>2. objects' \subseteq objects \union {<<run[r].dest, run[r].file>>}
        BY <3>1 DEF Upload
      <4>3. QED
        BY <2>2, <4>1, <4>2 DEF Stores
    <3>2. CASE ~Upload(r)
      <4>1. objects' \subseteq objects
        BY <1>5, <3>2 DEF Open, DumpEnds, DumpFails, Complete, QueryOld, PruneFiles,
           PruneRow, storeVars
      <4>2. QED
        BY <4>1 DEF Stores
    <3>3. QED
      BY <3>1, <3>2
  <2>5. applied' \subseteq applied \union {run[r].keep}
    BY <1>5 DEF Open, DumpEnds, DumpFails, Upload, Complete, QueryOld, PruneFiles, PruneRow,
       histVars
  <2>6. /\ run'[r].pc = "upload" => run'[r].dest # None
        /\ \A q \in Runs : q # r => run'[q] = run[q]
    <3>1. CASE DumpEnds(r)
      <4>1. PICK pc \in {"complete", "upload"} :
               Goto(r, pc) /\ (pc = "upload" => run[r].dest # None)
        BY <3>1 DEF DumpEnds
      <4>2. run[r].key \in BOOLEAN /\ run[r].old \in SUBSET OldBackup /\ pc \in Pcs
        BY <2>1, RunFacts DEF Pcs, Early
      <4>3. QED
        BY <2>1, <4>1, <4>2, ContinueStep DEF Goto, Inv
    <3>2. CASE ~DumpEnds(r)
      <4>1. \/ End(r)
            \/ \E pc \in Pcs \ {"upload"} : \E key, old : Continue(r, pc, key, old)
        BY <1>5, <3>2 DEF Open, DumpFails, Upload, Complete, QueryOld, PruneFiles, PruneRow,
           Goto, Pcs, Early
      <4>2. run'[r].pc # "upload" /\ \A q \in Runs : q # r => run'[q] = run[q]
        BY <4>1 DEF End, Continue, Inv, Types, NoRun
      <4>3. QED
        BY <4>2
    <3>3. QED
      BY <3>1, <3>2
  <2>7. QED
    BY <1>1, <1>2, <1>3, <2>2, <2>3, <2>4, <2>5, <2>6, UploadsTyped DEF Stores
<1>6. QED
  BY <1>4, <1>5 DEF RunStep

(* What holds of every reachable state so far, step by step.               *)
Lasting == Inv /\ History /\ Lists /\ Stores

LEMMA LastingNext == ASSUME Lasting, [Next]_vars PROVE Lasting'
<1> USE DEF Lasting
<1>1. CASE UNCHANGED vars
  <2>1. Inv'
    BY InvIsInductive
  <2>2. QED
    BY <1>1, <2>1 DEF vars, settingVars, storeVars, histVars, History, Lists, Newer,
       Completed, Created, Stores
<1>2. CASE Next
  <2>1. Inv' /\ History' /\ Lists'
    BY <1>2, InvIsInductive, PruneStep DEF Pruned
  <2>2. Stores'
    BY <1>2, SettingsTyped, LossTyped, RunTyped DEF Next
  <2>3. QED
    BY <2>1, <2>2
<1>3. QED
  BY <1>1, <1>2

LEMMA LastingInit == Init => Lasting
<1> SUFFICES ASSUME Init PROVE Lasting
  OBVIOUS
<1>1. Inv
  BY InvInitially
<1>2. History /\ Lists
  BY DEF Init, History, Lists, Completed, Created, NoRun
<1>3. Stores
  BY DEF Init, Stores, NoRun
<1>4. QED
  BY <1>1, <1>2, <1>3 DEF Lasting

LEMMA LastingHolds == Spec => []Lasting
<1>1. QED
  BY LastingInit, LastingNext, PTL DEF Spec

(* Every variable keeps its type.                                          *)
THEOREM TypesHold == Spec => []TypeOK
<1>1. Lasting => TypeOK
  BY DEF Lasting, Inv, Types, History, Stores, TypeOK, Created
<1>2. QED
  BY <1>1, LastingHolds, PTL

-----------------------------------------------------------------------------
(* What leads to a file or an object.  A row whose deletion has begun is   *)
(* doomed and does not count; a file is then gone or was left behind.      *)
Doomed(b) == deleting = b \/ Dropping(b)
FileLeft(s) == <<"file", s>> \in lapses
ObjectLeft(o) == <<"object", o>> \in lapses
Busy(r) == run[r].pc \in {"dump", "upload", "complete"}
Uploaded(r) == run[r].pc = "complete" /\ run[r].key
Remote(r) == <<run[r].dest, run[r].file>>
Own(b) == <<backup[b].dest, backup[b].file>>

FileTraced(s) ==
    \/ FileLeft(s)
    \/ \E b \in Created : ~Doomed(b) /\ backup[b].file = s
    \/ \E r \in Runs : Busy(r) /\ run[r].file = s

ObjectTraced(o) ==
    \/ ObjectLeft(o)
    \/ \E b \in Completed : ~Doomed(b) /\ backup[b].key /\ Own(b) = o
    \/ \E r \in Runs : Uploaded(r) /\ Remote(r) = o

(* The lists of old backups repeat what their rows say, but for a          *)
(* destination that was deleted; no backup in them is still being made.    *)
ListedRight(o) ==
    /\ o.backup \in Created =>
          /\ backup[o.backup].status = "completed" /\ backup[o.backup].key = o.key
          /\ backup[o.backup].dest \in {o.dest, None}
    /\ \A q \in Runs : run[q].pc \in Early => run[q].backup # o.backup
ListedRows == \A r \in Runs : \A o \in run[r].old : ListedRight(o)

(* A run and its row agree on the destination unless it was deleted, and   *)
(* what a run still makes of a backup being deleted is known to be left.   *)
EarlyRow(r) ==
    /\ run[r].backup \in Created =>
          backup[run[r].backup].dest = run[r].dest \/ ObjectLeft(Remote(r))
    /\ deleting = run[r].backup => FileLeft(run[r].file) /\ ObjectLeft(Remote(r))
EarlyRows == \A r \in Runs : run[r].pc \in Early => EarlyRow(r)

DeletingKnown == deleting # None => deleting <= count

Known == ListedRows /\ EarlyRows /\ DeletingKnown
Traced ==
    /\ \A s \in files : FileTraced(s)
    /\ \A o \in objects : ObjectTraced(o)
    /\ PendingInProgress
Trace == Lasting /\ Known /\ Traced

(* Rows, runs and lists name one file for each backup.                     *)
LEMMA OneFile ==
    ASSUME Lasting, NEW r \in Runs
    PROVE  /\ run[r].pc \in Pcs /\ run[r].backup \in Created =>
                 backup[run[r].backup].file = run[r].file
           /\ run[r].pc \in Pcs => \A o \in run[r].old : o.backup \in Created =>
                 backup[o.backup].file = o.file
<1>1. ASSUME NEW b \in Created, NEW s \in Seconds, Name(b, s)
      PROVE  backup[b].file = s
  <2>1. b \in Backups /\ backup[b].file \in Seconds
    BY DEF Created, Lasting, Inv, Types, Record
  <2>2. Name(b, backup[b].file)
    BY DEF Name
  <2>3. QED
    BY <1>1, <2>1, <2>2 DEF Lasting, Inv, Named
<1>2. QED
  BY <1>1, RunFacts DEF Lasting

-----------------------------------------------------------------------------
(* Lists, runs and the request that deletes stay in agreement with rows.   *)
Agreeing ==
    /\ lapses \subseteq lapses' /\ UNCHANGED count
    /\ \A b \in Created' :
          /\ b \in Created
          /\ backup[b].status = "completed" =>
                backup'[b].status = "completed" /\ backup'[b].key = backup[b].key
          /\ backup'[b].dest \in {backup[b].dest, None}
    /\ \A q \in Runs :
          /\ run'[q].pc \in Early =>
                /\ run[q].pc \in Early /\ run'[q].backup = run[q].backup
                /\ run'[q].dest = run[q].dest /\ run'[q].file = run[q].file
                /\ run[q].backup \in Created' =>
                      \/ backup'[run[q].backup].dest = backup[run[q].backup].dest
                      \/ ObjectLeft(Remote(q))'
                /\ deleting' = run[q].backup =>
                      \/ deleting = run[q].backup
                      \/ FileLeft(run[q].file)' /\ ObjectLeft(Remote(q))'
          /\ \A o \in run'[q].old :
                \/ o \in run[q].old
                \/ o.backup \in Completed /\ o = Listed(o.backup)
    /\ deleting' # None => deleting' = deleting \/ deleting' <= count

LEMMA KnownStep ==
    ASSUME Lasting, Known, Agreeing
    PROVE  Known'
<1>1. ASSUME NEW q \in Runs, NEW o \in run'[q].old PROVE ListedRight(o)'
  <2>1. ListedRight(o)
    <3>1. CASE o \in run[q].old
      BY <3>1 DEF Known, ListedRows
    <3>2. CASE o.backup \in Completed /\ o = Listed(o.backup)
      <4>1. PICK b \in Completed : o = Listed(b) /\ b = o.backup
        BY <3>2
      <4>2. o.key = backup[b].key /\ o.dest = backup[b].dest
        BY <4>1 DEF Listed
      <4>3. \A p \in Runs : run[p].pc \in Early => run[p].backup # b
        BY <4>1 DEF Lasting, Inv, Begun, Completed
      <4>4. QED
        BY <4>1, <4>2, <4>3 DEF ListedRight, Completed
    <3>3. QED
      BY <1>1, <3>1, <3>2 DEF Agreeing
  <2>2. QED
    BY <2>1 DEF ListedRight, Agreeing
<1>2. ASSUME NEW q \in Runs, run'[q].pc \in Early PROVE EarlyRow(q)'
  <2>1. /\ run[q].pc \in Early /\ run'[q].backup = run[q].backup
        /\ run'[q].dest = run[q].dest /\ run'[q].file = run[q].file
        /\ Remote(q)' = Remote(q) /\ EarlyRow(q)
    BY <1>2 DEF Agreeing, Remote, Known, EarlyRows
  <2>2. run[q].backup \in Created' => backup'[run[q].backup].dest = run[q].dest
                                      \/ ObjectLeft(Remote(q))'
    BY <1>2, <2>1 DEF Agreeing, EarlyRow, ObjectLeft
  <2>3. deleting' = run[q].backup => FileLeft(run[q].file)' /\ ObjectLeft(Remote(q))'
    BY <1>2, <2>1 DEF Agreeing, EarlyRow, ObjectLeft, FileLeft
  <2>4. QED
    BY <2>1, <2>2, <2>3 DEF EarlyRow, FileLeft
<1>3. DeletingKnown'
  BY DEF Agreeing, Known, DeletingKnown
<1>4. QED
  BY <1>1, <1>2, <1>3 DEF Known, ListedRows, EarlyRows

(* What led to a file, an object or a pending row still does, or another   *)
(* does, or it is known to be left.                                        *)
FilesLed ==
    /\ \A s \in files' \ files : \E r \in Runs : Busy(r)' /\ run'[r].file = s
    /\ \A b \in Created : ~Doomed(b) =>
          \/ b \in Created' /\ ~Doomed(b)' /\ backup'[b].file = backup[b].file
          \/ backup[b].file \notin files'
          \/ <<"file", backup[b].file>> \in lapses'
    /\ \A r \in Runs : Busy(r) =>
          \/ Busy(r)' /\ run'[r].file = run[r].file
          \/ run[r].file \notin files'
          \/ <<"file", run[r].file>> \in lapses'
          \/ \E b \in Created' : ~Doomed(b)' /\ backup'[b].file = run[r].file

ObjectsLed ==
    /\ \A o \in objects' \ objects : \E r \in Runs : Uploaded(r)' /\ Remote(r)' = o
    /\ \A b \in Completed : ~Doomed(b) /\ backup[b].key =>
          \/ b \in Completed' /\ ~Doomed(b)' /\ backup'[b].key /\ Own(b)' = Own(b)
          \/ Own(b) \notin objects'
          \/ <<"object", Own(b)>> \in lapses'
    /\ \A r \in Runs : Uploaded(r) =>
          \/ Uploaded(r)' /\ Remote(r)' = Remote(r)
          \/ <<"object", Remote(r)>> \in lapses'
          \/ \E b \in Completed' : ~Doomed(b)' /\ backup'[b].key /\ Own(b)' = Remote(r)

PendingLed == \A b \in Created' : backup'[b].status = "pending" =>
    /\ b \in Created /\ backup[b].status = "pending"
    /\ \A r \in Runs : run[r].pc \in Early /\ run[r].backup = b =>
          \/ run'[r].pc \in Early /\ run'[r].backup = b
          \/ <<"pending", b>> \in lapses'

LEMMA FilesStayTraced ==
    ASSUME Traced, lapses \subseteq lapses', FilesLed
    PROVE  \A s \in files' : FileTraced(s)'
<1> SUFFICES ASSUME NEW s \in files' PROVE FileTraced(s)'
  OBVIOUS
<1>1. CASE s \notin files
  BY <1>1 DEF FilesLed, FileTraced
<1>2. CASE s \in files
  <2>1. FileTraced(s)
    BY <1>2 DEF Traced
  <2>2. CASE FileLeft(s)
    BY <2>2 DEF FileLeft, FileTraced
  <2>3. ASSUME NEW b \in Created, ~Doomed(b), backup[b].file = s PROVE FileTraced(s)'
    BY <2>3 DEF FilesLed, FileTraced, FileLeft
  <2>4. ASSUME NEW r \in Runs, Busy(r), run[r].file = s PROVE FileTraced(s)'
    BY <2>4 DEF FilesLed, FileTraced, FileLeft
  <2>5. QED
    BY <2>1, <2>2, <2>3, <2>4 DEF FileTraced
<1>3. QED
  BY <1>1, <1>2

LEMMA ObjectsStayTraced ==
    ASSUME Traced, lapses \subseteq lapses', ObjectsLed
    PROVE  \A o \in objects' : ObjectTraced(o)'
<1> SUFFICES ASSUME NEW o \in objects' PROVE ObjectTraced(o)'
  OBVIOUS
<1>1. CASE o \notin objects
  BY <1>1 DEF ObjectsLed, ObjectTraced
<1>2. CASE o \in objects
  <2>1. ObjectTraced(o)
    BY <1>2 DEF Traced
  <2>2. CASE ObjectLeft(o)
    BY <2>2 DEF ObjectLeft, ObjectTraced
  <2>3. ASSUME NEW b \in Completed, ~Doomed(b), backup[b].key, Own(b) = o
        PROVE  ObjectTraced(o)'
    BY <2>3 DEF ObjectsLed, ObjectTraced, ObjectLeft
  <2>4. ASSUME NEW r \in Runs, Uploaded(r), Remote(r) = o PROVE ObjectTraced(o)'
    BY <2>4 DEF ObjectsLed, ObjectTraced, ObjectLeft
  <2>5. QED
    BY <2>1, <2>2, <2>3, <2>4 DEF ObjectTraced
<1>3. QED
  BY <1>1, <1>2

LEMMA PendingStaysTraced ==
    ASSUME Traced, lapses \subseteq lapses', PendingLed
    PROVE  PendingInProgress'
<1> SUFFICES ASSUME NEW b \in Created', backup'[b].status = "pending"
             PROVE  \/ <<"pending", b>> \in lapses'
                    \/ \E r \in Runs : run'[r].pc \in Early /\ run'[r].backup = b
  BY DEF PendingInProgress
<1>1. b \in Created /\ backup[b].status = "pending"
  BY DEF PendingLed
<1>2. \/ <<"pending", b>> \in lapses
      \/ \E r \in Runs : run[r].pc \in Early /\ run[r].backup = b
  BY <1>1 DEF Traced, PendingInProgress
<1>3. QED
  BY <1>2 DEF PendingLed

LEMMA TraceStep ==
    ASSUME Trace, Agreeing, FilesLed, ObjectsLed, PendingLed
    PROVE  Known' /\ Traced'
BY KnownStep, FilesStayTraced, ObjectsStayTraced, PendingStaysTraced DEF Trace, Traced, Agreeing

-----------------------------------------------------------------------------
(* No row becomes doomed by steps that neither begin a deletion nor prune. *)
LEMMA DoomedStep ==
    ASSUME deleting' \in {deleting, None},
           \A q \in Runs : run'[q].pc = "drop" => run'[q] = run[q]
    PROVE  \A b \in Backups : Doomed(b)' => Doomed(b)
<1>1. \A b \in Backups : b # None
  BY BackupsAssumption DEF Backups
<1>2. QED
  BY <1>1 DEF Doomed, Dropping, NextOld

(* Steps that change no row, and runs that go on, begin a list or end      *)
(* after it.                                                               *)
LEMMA QuietTrace ==
    ASSUME Trace, UNCHANGED <<backup, count>>, deleting' \in {deleting, None},
           lapses \subseteq lapses',
           \A q \in Runs :
              /\ run'[q].pc \in Early <=> run[q].pc \in Early
              /\ run'[q].pc \in Early => /\ run'[q].backup = run[q].backup
                                         /\ run'[q].dest = run[q].dest
                                         /\ run'[q].file = run[q].file
              /\ Busy(q) => Busy(q)'
              /\ Uploaded(q) => Uploaded(q)'
              /\ run'[q].pc = "drop" => run'[q] = run[q]
              /\ \A o \in run'[q].old :
                    \/ o \in run[q].old
                    \/ o.backup \in Completed /\ o = Listed(o.backup),
           \A s \in files' \ files : \E r \in Runs : Busy(r)' /\ run'[r].file = s,
           \A o \in objects' \ objects : \E r \in Runs : Uploaded(r)' /\ Remote(r)' = o
    PROVE  Known' /\ Traced'
<1>1. Created' = Created /\ Completed' = Completed /\ \A b \in Created : b \in Backups
  BY DEF Created, Completed
<1>2. \A b \in Backups : Doomed(b)' => Doomed(b)
  BY DoomedStep
<1>3. \A q \in Runs : Busy(q) \/ Uploaded(q) => run[q].pc \in Early
  BY DEF Busy, Uploaded, Early
<1>4. Agreeing
  <2>1. \A q \in Runs : run[q].pc \in Early => run[q].backup # None
    BY RunFacts, BackupsAssumption DEF Trace, Lasting, Pcs, Backups
  <2>2. QED
    BY <1>1, <2>1 DEF Agreeing
<1>5. FilesLed
  BY <1>1, <1>2, <1>3 DEF FilesLed
<1>6. ObjectsLed
  BY <1>1, <1>2, <1>3 DEF ObjectsLed, Own, Remote, Completed
<1>7. PendingLed
  BY <1>1 DEF PendingLed
<1>8. QED
  BY <1>4, <1>5, <1>6, <1>7, TraceStep

LEMMA SettingsTrace ==
    ASSUME Trace,
           \/ \E dest \in Dests, keep \in Keeps, on \in BOOLEAN : UpdateBackupConfig(dest, keep, on)
           \/ \E t \in Destinations, isDefault \in BOOLEAN : StorageCreate(t, isDefault)
           \/ \E t \in Destinations : StorageInsert(t) \/ StorageSetDefault(t)
    PROVE  Known' /\ Traced'
<1>1. UNCHANGED <<backup, count, files, objects, run, deleting, lapses>>
  BY DEF UpdateBackupConfig, StorageCreate, StorageInsert, StorageSetDefault,
         NoChangeElsewhere, storeVars, histVars
<1>2. \A q \in Runs : (Busy(q) => Busy(q)') /\ (Uploaded(q) => Uploaded(q)')
  BY <1>1 DEF Busy, Uploaded
<1>3. QED
  BY <1>1, <1>2, QuietTrace

LEMMA QueueTrace ==
    ASSUME Trace, NEW r \in Runs, CheckAndRunBackups(r) \/ RunNotFound(r)
    PROVE  Known' /\ Traced'
<1>1. /\ UNCHANGED <<backup, count, files, objects, deleting, lapses>>
      /\ run[r].pc \in {"none", "queued"} /\ run'[r].pc \in {"none", "queued"}
      /\ run'[r].old = {}
      /\ \A q \in Runs : q # r => run'[q] = run[q]
  BY DEF CheckAndRunBackups, RunNotFound, storeVars, histVars, NoRun, Queued,
         Trace, Lasting, Inv, Types
<1>2. \A q \in Runs : (Busy(q) => Busy(q)') /\ (Uploaded(q) => Uploaded(q)')
  BY <1>1 DEF Busy, Uploaded
<1>3. QED
  BY <1>1, <1>2, QuietTrace DEF Early

(* A run goes on, with what that adds to the files and the objects.        *)
LEMMA GoesOn ==
    ASSUME Trace, NEW r \in Runs, run[r].pc \in Pcs, UNCHANGED <<backup, count, deleting, lapses>>,
           NEW pc \in Pcs, NEW key \in BOOLEAN, NEW old \in SUBSET OldBackup,
           Continue(r, pc, key, old), pc \in Early <=> run[r].pc \in Early, pc # "drop",
           run[r].pc \in {"dump", "upload"} => pc \in {"dump", "upload", "complete"},
           run[r].pc # "complete",
           \A o \in old : o \in run[r].old \/ (o.backup \in Completed /\ o = Listed(o.backup)),
           \A s \in files' : s \in files \/ (pc = "dump" /\ s = run[r].file),
           \A o \in objects' : o \in objects \/ (pc = "complete" /\ key = TRUE /\ o = Remote(r))
    PROVE  Known' /\ Traced'
<1>1. /\ run'[r].pc = pc /\ run'[r].backup = run[r].backup /\ run'[r].file = run[r].file
      /\ run'[r].old = old /\ run'[r].key = key /\ run'[r].dest = run[r].dest
      /\ \A q \in Runs : q # r => run'[q] = run[q]
  BY ContinueStep DEF Trace, Lasting, Inv
<1>2. \A q \in Runs : (Busy(q) => Busy(q)') /\ (Uploaded(q) => Uploaded(q)')
  BY <1>1 DEF Busy, Uploaded
<1>3. /\ Remote(r)' = Remote(r) /\ (pc = "dump" => Busy(r)')
      /\ (pc = "complete" /\ key = TRUE => Uploaded(r)')
  BY <1>1 DEF Remote, Busy, Uploaded
<1>4. /\ \A s \in files' \ files : \E q \in Runs : Busy(q)' /\ run'[q].file = s
      /\ \A o \in objects' \ objects : \E q \in Runs : Uploaded(q)' /\ Remote(q)' = o
  BY <1>1, <1>3
<1>5. QED
  BY <1>1, <1>2, <1>4, QuietTrace

(* A run that lists nothing ends.                                          *)
LEMMA EndsQuietly ==
    ASSUME Trace, NEW r \in Runs, run[r].pc \notin Early, End(r),
           UNCHANGED <<backup, count, deleting, lapses, files, objects>>
    PROVE  Known' /\ Traced'
<1>1. run'[r].pc = "none" /\ run'[r].old = {} /\ \A q \in Runs : q # r => run'[q] = run[q]
  BY EndStep DEF Trace, Lasting, Inv
<1>2. \A q \in Runs : (Busy(q) => Busy(q)') /\ (Uploaded(q) => Uploaded(q)')
  BY <1>1 DEF Busy, Uploaded, Early
<1>3. QED
  BY <1>1, <1>2, QuietTrace DEF Early

LEMMA ContinueTrace ==
    ASSUME Trace, NEW r \in Runs,
           \/ Open(r) /\ Goto(r, "dump")
           \/ DumpEnds(r) \/ Upload(r) \/ QueryOld(r)
    PROVE  Known' /\ Traced'
<1>11. /\ run[r].pc \in Pcs /\ UNCHANGED <<count, deleting>>
       /\ {"dump", "upload", "complete", "prune"} \subseteq Pcs
       /\ {"open", "dump", "upload", "complete"} \subseteq Early
       /\ "query" \notin Early /\ "prune" \notin Early
  BY DEF Open, DumpEnds, Upload, QueryOld, Pcs, Early, RunVars
<1>10. UNCHANGED <<backup, lapses>>
  <2>1. ~(Open(r) /\ Goto(r, "dump")) => UNCHANGED <<backup, lapses>>
    BY DEF DumpEnds, Upload, QueryOld, histVars
  <2>2. ASSUME Open(r), Goto(r, "dump"), End(r) PROVE FALSE
    <3>1. run'[r].pc = "dump"
      BY <1>11, <2>2, RunFacts, ContinueStep DEF Goto, Trace, Lasting, Inv
    <3>2. run'[r].pc = "none"
      BY <2>2, EndStep DEF Trace, Lasting, Inv
    <3>3. QED
      BY <3>1, <3>2
  <2>3. QED
    BY <2>1, <2>2 DEF Open
<1>1. /\ run[r].pc \in Pcs /\ UNCHANGED <<count, deleting, lapses>>
      /\ {"dump", "upload", "complete", "prune"} \subseteq Pcs
      /\ {"open", "dump", "upload", "complete"} \subseteq Early
      /\ "query" \notin Early /\ "prune" \notin Early
  BY <1>10, <1>11
<1>2. run[r].key \in BOOLEAN /\ run[r].old \in SUBSET OldBackup
  BY <1>1, RunFacts DEF Trace, Lasting
<1>3. Types
  BY DEF Trace, Lasting, Inv
<1>5. CASE Open(r) /\ Goto(r, "dump")
  <2>1. run[r].pc = "open" /\ UNCHANGED objects
    BY <1>5 DEF Open
  <2>2. files' \subseteq files \union {run[r].file}
    BY <1>5 DEF Open
  <2>3. Continue(r, "dump", run[r].key, run[r].old)
    BY <1>5 DEF Goto
  <2>4. QED
    BY <1>1, <1>2, <1>10, <2>1, <2>2, <2>3, GoesOn
<1>6. CASE DumpEnds(r)
  <2>1. run[r].pc = "dump" /\ UNCHANGED <<files, objects>>
    BY <1>6 DEF DumpEnds, storeVars
  <2>2. PICK pc \in {"upload", "complete"} : Goto(r, pc)
    BY <1>6 DEF DumpEnds
  <2>3. Continue(r, pc, run[r].key, run[r].old)
    BY <2>2 DEF Goto
  <2>4. QED
    BY <1>1, <1>2, <1>10, <2>1, <2>2, <2>3, GoesOn
<1>7. CASE Upload(r)
  <2>1. run[r].pc = "upload" /\ UNCHANGED files
    BY <1>7 DEF Upload
  <2>2. PICK key \in BOOLEAN :
           /\ Continue(r, "complete", key, run[r].old)
           /\ \A o \in objects' : o \in objects \/ (key = TRUE /\ o = Remote(r))
    <3>1. \/ Continue(r, "complete", TRUE, run[r].old)
             /\ objects' = objects \union {Remote(r)}
          \/ Continue(r, "complete", run[r].key, run[r].old) /\ objects' = objects
      BY <1>7 DEF Upload, Goto, Remote
    <3>2. QED
      BY <1>2, <3>1
  <2>3. QED
    BY <1>1, <1>2, <1>10, <2>1, <2>2, GoesOn
<1>8. CASE QueryOld(r)
  <2>1. run[r].pc = "query" /\ UNCHANGED <<files, objects>>
    BY <1>8 DEF QueryOld, storeVars
  <2>2. CASE End(r)
    BY <1>1, <1>10, <2>1, <2>2, EndsQuietly
  <2>3. CASE Continue(r, "prune", run[r].key, {Listed(b) : b \in Old(run[r].keep)})
    <3> DEFINE old == {Listed(b) : b \in Old(run[r].keep)}
    <3>1. \A o \in old : o \in OldBackup /\ o.backup \in Completed /\ o = Listed(o.backup)
      <4> SUFFICES ASSUME NEW b \in Old(run[r].keep)
                   PROVE  /\ Listed(b) \in OldBackup /\ Listed(b).backup = b /\ b \in Completed
        OBVIOUS
      <4>1. b \in Completed /\ b \in Backups /\ backup[b] \in Record
        BY <1>3 DEF Old, Completed, Created, Types
      <4>2. QED
        BY <4>1 DEF Listed, OldBackup, Record
    <3> HIDE DEF old
    <3>2. old \in SUBSET OldBackup
      BY <3>1
    <3>3. Continue(r, "prune", run[r].key, old)
      BY <2>3 DEF old
    <3>4. /\ "prune" \in Pcs /\ "prune" \notin Early /\ run[r].pc \in Pcs
          /\ run[r].pc \notin Early /\ run[r].pc \notin {"dump", "upload", "complete"}
      BY <1>1, <2>1
    <3>5. (\A s \in files' : s \in files) /\ (\A o \in objects' : o \in objects)
      BY <2>1
    <3>6. UNCHANGED <<backup, count, deleting, lapses>> /\ run[r].key \in BOOLEAN
      BY <1>1, <1>2, <1>10
    <3>7. QED
      BY <3>1, <3>2, <3>3, <3>4, <3>5, <3>6, GoesOn
  <2>4. QED
    BY <1>8, <2>2, <2>3 DEF QueryOld
<1>9. QED
  BY <1>5, <1>6, <1>7, <1>8

-----------------------------------------------------------------------------
(* An early run's row, if there is one, is its own and pending.            *)
LEMMA EarlyKnown ==
    ASSUME Trace, NEW r \in Runs, run[r].pc \in Early
    PROVE  /\ run[r].pc \in Pcs /\ run[r].backup \in Backups /\ run[r].backup # None
           /\ run[r].file \in Seconds /\ run[r].key \in BOOLEAN
           /\ run[r].backup \in Created => /\ backup[run[r].backup].status = "pending"
                                           /\ backup[run[r].backup].file = run[r].file
           /\ \A q \in Runs : run[q].pc \in Early /\ q # r => run[q].backup # run[r].backup
           /\ ~Dropping(run[r].backup)
<1>1. run[r].pc \in Pcs
  BY DEF Pcs
<1>2. ~Dropping(run[r].backup)
  BY DEF Dropping, Trace, Known, ListedRows, ListedRight
<1>3. QED
  BY <1>1, <1>2, RunFacts, OneFile, BackupsAssumption
     DEF Trace, Lasting, Inv, Begun, Backups

(* A run that fails before its backup is complete.                         *)
LEMMA FailTrace ==
    ASSUME Trace, NEW r \in Runs, DumpFails(r) \/ (Open(r) /\ End(r))
    PROVE  Known' /\ Traced'
<1>1. /\ run[r].pc \in {"open", "dump"} /\ run[r].pc \in Early /\ End(r)
      /\ FailStatus(run[r].backup) \/ FailUnsaid(run[r].backup)
      /\ UNCHANGED <<count, deleting, objects>>
  <2>1. ASSUME Open(r), End(r), Goto(r, "dump") PROVE FALSE
    <3>1. run[r].pc \in Early /\ "dump" \in Pcs
      BY <2>1 DEF Open, Early, Pcs
    <3>2. run'[r].pc = "dump"
      BY <2>1, <3>1, EarlyKnown, RunFacts, ContinueStep DEF Goto, Trace, Lasting, Inv
    <3>3. run'[r].pc = "none"
      BY <2>1, EndStep DEF Trace, Lasting, Inv
    <3>4. QED
      BY <3>2, <3>3
  <2>2. QED
    BY <2>1 DEF DumpFails, Open, Early, RunVars
<1>15. /\ \/ UpdateStatus(run[r].backup, "failed", FALSE)
          \/ UNCHANGED backup /\ <<"pending", run[r].backup>> \in lapses'
       /\ lapses \subseteq lapses'
  <2>1. FailStatus(run[r].backup) => /\ UpdateStatus(run[r].backup, "failed", FALSE)
                                     /\ lapses' = lapses
    BY DEF FailStatus
  <2>2. FailUnsaid(run[r].backup) => /\ UNCHANGED backup
                                     /\ lapses' = lapses \union {<<"pending", run[r].backup>>}
    BY DEF FailUnsaid, Left
  <2>3. QED
    BY <1>1, <2>1, <2>2
<1>2. files' \subseteq files /\ (run[r].pc = "dump" => run[r].file \notin files')
  <2>1. CASE DumpFails(r)
    BY <2>1 DEF DumpFails
  <2>2. CASE Open(r) /\ End(r)
    <3>1. run[r].pc = "open"
      BY <2>2 DEF Open
    <3>2. files' \subseteq files
      <4>1. ~Goto(r, "dump")
        <5>1. run[r].pc \in Early /\ "dump" \in Pcs
          BY <2>2 DEF Open, Early, Pcs
        <5>2. Goto(r, "dump") => run'[r].pc = "dump"
          BY <5>1, EarlyKnown, RunFacts, ContinueStep DEF Goto, Trace, Lasting, Inv
        <5>3. run'[r].pc = "none"
          BY <1>1, EndStep DEF Trace, Lasting, Inv
        <5>4. QED
          BY <5>2, <5>3
      <4>2. QED
        BY <2>2, <4>1 DEF Open
    <3>3. QED
      BY <3>1, <3>2
  <2>3. QED
    BY <2>1, <2>2
<1>3. /\ run'[r].pc = "none" /\ run'[r].old = {}
      /\ \A q \in Runs : q # r => run'[q] = run[q]
  BY <1>1, EndStep DEF Trace, Lasting, Inv
<1>4. PICK b \in Backups : b = run[r].backup
  BY <1>1, EarlyKnown
<1>5. /\ Created' = Created
      /\ \A c \in Created : backup'[c].file = backup[c].file
      /\ \A c \in Backups : c # b => backup'[c] = backup[c]
      /\ b \in Created => /\ backup'[b].status = "failed" \/ <<"pending", b>> \in lapses'
                          /\ backup'[b].dest = backup[b].dest
                          /\ backup[b].status = "pending"
  <2>1. b \in Created => backup[b].status = "pending"
    BY <1>1, <1>4, EarlyKnown
  <2>2. CASE UpdateStatus(b, "failed", FALSE)
    BY <1>4, <2>1, <2>2, UpdateStep DEF Trace, Lasting, Inv
  <2>3. CASE UNCHANGED backup /\ <<"pending", b>> \in lapses'
    BY <2>1, <2>3 DEF Created
  <2>4. QED
    BY <1>4, <1>15, <2>2, <2>3
<1>6. /\ \A c \in Created : c \in Backups
      /\ \A c \in Completed : c # b /\ c \in Completed' /\ backup'[c] = backup[c]
  BY <1>5 DEF Created, Completed
<1>7. \A c \in Backups : Doomed(c)' => Doomed(c)
  BY <1>1, <1>3, DoomedStep
<1>8. \A q \in Runs : q # r => /\ (Busy(q) => Busy(q)') /\ (Uploaded(q) => Uploaded(q)')
                               /\ Remote(q)' = Remote(q)
  BY <1>3 DEF Busy, Uploaded, Remote
<1>9. \A q \in Runs : run'[q].pc \in Early => q # r /\ run'[q] = run[q] /\ run[q].backup # b
  BY <1>1, <1>3, <1>4, EarlyKnown DEF Early
<1>10. Agreeing
  <2>1. \A q \in Runs : \A o \in run'[q].old : o \in run[q].old
    BY <1>3
  <2>2. \A c \in Created' :
          /\ c \in Created
          /\ backup[c].status = "completed" =>
                backup'[c].status = "completed" /\ backup'[c].key = backup[c].key
          /\ backup'[c].dest = backup[c].dest
    BY <1>5, <1>6
  <2>3. \A q \in Runs : run'[q].pc \in Early =>
           /\ run[q].pc \in Early /\ run'[q].backup = run[q].backup
           /\ run'[q].dest = run[q].dest /\ run'[q].file = run[q].file
           /\ run[q].backup \in Created' =>
                 backup'[run[q].backup].dest = backup[run[q].backup].dest
           /\ deleting' = run[q].backup => deleting = run[q].backup
    <3> SUFFICES ASSUME NEW q \in Runs, run'[q].pc \in Early
                 PROVE  /\ run[q].pc \in Early /\ run'[q].backup = run[q].backup
                        /\ run'[q].dest = run[q].dest /\ run'[q].file = run[q].file
                        /\ run[q].backup \in Created' =>
                              backup'[run[q].backup].dest = backup[run[q].backup].dest
                        /\ deleting' = run[q].backup => deleting = run[q].backup
      OBVIOUS
    <3>1. run'[q] = run[q]
      BY <1>9
    <3>2. deleting' = deleting
      BY <1>1
    <3>3. run[q].backup \in Created' =>
           backup'[run[q].backup].dest = backup[run[q].backup].dest
      BY <2>2
    <3>4. QED
      BY <3>1, <3>2, <3>3
  <2>4. QED
    BY <1>1, <1>15, <2>1, <2>2, <2>3 DEF Agreeing
<1>11. FilesLed
  BY <1>1, <1>15, <1>2, <1>3, <1>5, <1>6, <1>7, <1>8 DEF FilesLed, Busy
<1>12. ObjectsLed
  BY <1>1, <1>6, <1>7, <1>8, <1>15 DEF ObjectsLed, Own, Uploaded, Completed
<1>13. PendingLed
  <2> SUFFICES ASSUME NEW c \in Created', backup'[c].status = "pending"
               PROVE  /\ c \in Created /\ backup[c].status = "pending"
                      /\ c # b \/ <<"pending", b>> \in lapses'
    BY <1>3, <1>4 DEF PendingLed
  <2>1. QED
    BY <1>5, <1>6
<1>14. QED
  BY <1>10, <1>11, <1>12, <1>13, <1>15, TraceStep

(* A backup is completed: its row takes over from its run, or is missing.  *)
LEMMA CompleteTrace ==
    ASSUME Trace, NEW r \in Runs, Complete(r)
    PROVE  Known' /\ Traced'
<1>1. /\ run[r].pc = "complete" /\ run[r].pc \in Early /\ "query" \in Pcs /\ "query" \notin Early
      /\ Goto(r, "query") /\ lapses \subseteq lapses'
      /\ UNCHANGED <<count, deleting, files, objects>>
  BY DEF Complete, Early, Pcs, RunVars, storeVars, Left
<1>2. PICK b \in Backups : b = run[r].backup
  BY <1>1, EarlyKnown
<1>3. run[r].pc \in Pcs /\ run[r].key \in BOOLEAN /\ run[r].old \in SUBSET OldBackup
  BY <1>1, EarlyKnown, RunFacts DEF Trace, Lasting
<1>4. /\ run'[r].pc = "query" /\ run'[r].old = run[r].old
      /\ \A q \in Runs : q # r => run'[q] = run[q]
  BY <1>1, <1>3, ContinueStep DEF Goto, Trace, Lasting, Inv
<1>5. \/ /\ UpdateStatus(b, "completed", run[r].key)
         /\ b \notin Created => /\ <<"file", run[r].file>> \in lapses'
                                /\ run[r].key => <<"object", Remote(r)>> \in lapses'
      \/ /\ UNCHANGED backup /\ <<"pending", b>> \in lapses'
         /\ <<"file", run[r].file>> \in lapses'
         /\ run[r].key => <<"object", Remote(r)>> \in lapses'
  BY <1>2 DEF Complete, Left, ObjectsOf, Remote
<1>6. \A c \in Backups : Doomed(c)' => Doomed(c)
  BY <1>1, <1>4, DoomedStep
<1>7. \A q \in Runs : q # r => /\ (Busy(q) => Busy(q)') /\ (Uploaded(q) => Uploaded(q)')
                               /\ Remote(q)' = Remote(q)
  BY <1>4 DEF Busy, Uploaded, Remote
<1>8. /\ \A q \in Runs : run'[q].pc \in Early => q # r /\ run'[q] = run[q] /\ run[q].backup # b
      /\ b \in Created => backup[b].status = "pending" /\ backup[b].file = run[r].file
      /\ ~Dropping(b)
  BY <1>1, <1>2, <1>4, EarlyKnown
<1>9. \A q \in Runs : \A o \in run'[q].old : o \in run[q].old
  BY <1>4
<1>10. /\ EarlyRow(r) /\ \A c \in Created : c \in Backups
  BY <1>1 DEF Trace, Known, EarlyRows, Created
<1>11. CASE UNCHANGED backup /\ <<"pending", b>> \in lapses'
            /\ <<"file", run[r].file>> \in lapses'
            /\ (run[r].key => <<"object", Remote(r)>> \in lapses')
  <2>1. Created' = Created /\ Completed' = Completed
    BY <1>11 DEF Created, Completed
  <2>2. Agreeing
    BY <1>1, <1>8, <1>9, <1>11, <2>1 DEF Agreeing
  <2>3. FilesLed
    BY <1>1, <1>4, <1>6, <1>7, <1>10, <1>11, <2>1 DEF FilesLed
  <2>4. ObjectsLed
    BY <1>1, <1>6, <1>7, <1>10, <1>11, <2>1 DEF ObjectsLed, Own, Uploaded, Completed
  <2>5. PendingLed
    BY <1>2, <1>4, <1>11, <2>1 DEF PendingLed
  <2>6. QED
    BY <2>2, <2>3, <2>4, <2>5, TraceStep
<1>12. CASE /\ UpdateStatus(b, "completed", run[r].key)
            /\ b \notin Created => /\ <<"file", run[r].file>> \in lapses'
                                   /\ run[r].key => <<"object", Remote(r)>> \in lapses'
  <2>1. /\ Created' = Created
        /\ \A c \in Created : backup'[c].file = backup[c].file
        /\ \A c \in Backups : c # b => backup'[c] = backup[c]
        /\ b \in Created => /\ backup'[b].status = "completed"
                            /\ backup'[b].key = run[r].key
                            /\ backup'[b].dest = backup[b].dest
    BY <1>3, <1>12, UpdateStep DEF Trace, Lasting, Inv
  <2>2. \A c \in Completed : c # b /\ c \in Completed' /\ backup'[c] = backup[c]
    BY <1>8, <1>10, <2>1 DEF Completed
  <2>3. Agreeing
    <3>1. \A c \in Created' :
            /\ c \in Created
            /\ backup[c].status = "completed" =>
                  backup'[c].status = "completed" /\ backup'[c].key = backup[c].key
            /\ backup'[c].dest = backup[c].dest
      BY <1>8, <1>10, <2>1
    <3>2. \A q \in Runs : run'[q].pc \in Early =>
             /\ run[q].pc \in Early /\ run'[q].backup = run[q].backup
             /\ run'[q].dest = run[q].dest /\ run'[q].file = run[q].file
             /\ run[q].backup \in Created' =>
                   backup'[run[q].backup].dest = backup[run[q].backup].dest
             /\ deleting' = run[q].backup => deleting = run[q].backup
      <4> SUFFICES ASSUME NEW q \in Runs, run'[q].pc \in Early
                   PROVE  /\ run[q].pc \in Early /\ run'[q].backup = run[q].backup
                          /\ run'[q].dest = run[q].dest /\ run'[q].file = run[q].file
                          /\ run[q].backup \in Created' =>
                                backup'[run[q].backup].dest = backup[run[q].backup].dest
                          /\ deleting' = run[q].backup => deleting = run[q].backup
        OBVIOUS
      <4>1. run'[q] = run[q]
        BY <1>8
      <4>2. deleting' = deleting
        BY <1>1
      <4>3. run[q].backup \in Created' =>
             backup'[run[q].backup].dest = backup[run[q].backup].dest
        BY <3>1
      <4>4. QED
        BY <4>1, <4>2, <4>3
    <3>3. QED
      BY <1>1, <1>9, <3>1, <3>2 DEF Agreeing
  <2>4. b \in Created => \/ deleting = b /\ FileLeft(run[r].file) /\ ObjectLeft(Remote(r))
                         \/ ~Doomed(b)'
    <3>1. CASE deleting = b
      BY <1>2, <1>10, <3>1 DEF EarlyRow
    <3>2. CASE deleting # b
      BY <1>6, <1>8, <3>2 DEF Doomed
    <3>3. QED
      BY <3>1, <3>2
  <2>5. FilesLed
    <3>1. \/ <<"file", run[r].file>> \in lapses'
          \/ \E c \in Created' : ~Doomed(c)' /\ backup'[c].file = run[r].file
      BY <1>1, <1>8, <1>12, <2>1, <2>4 DEF FileLeft
    <3>2. QED
      BY <1>1, <1>4, <1>6, <1>7, <1>10, <2>1, <3>1 DEF FilesLed
  <2>6. ObjectsLed
    <3>1. run[r].key => \/ <<"object", Remote(r)>> \in lapses'
                        \/ \E c \in Completed' : ~Doomed(c)' /\ backup'[c].key /\ Own(c)' = Remote(r)
      <4> SUFFICES ASSUME run[r].key, <<"object", Remote(r)>> \notin lapses'
                   PROVE  b \in Completed' /\ ~Doomed(b)' /\ backup'[b].key /\ Own(b)' = Remote(r)
        OBVIOUS
      <4>1. b \in Created /\ ~Doomed(b)'
        BY <1>1, <1>12, <2>4 DEF ObjectLeft
      <4>2. backup[b].dest = run[r].dest
        BY <1>1, <1>2, <1>10, <4>1 DEF EarlyRow, ObjectLeft
      <4>3. QED
        BY <1>8, <2>1, <4>1, <4>2 DEF Completed, Own, Remote
    <3>2. QED
      BY <1>1, <1>6, <1>7, <1>10, <2>2, <3>1 DEF ObjectsLed, Own, Uploaded, Completed
  <2>7. PendingLed
    BY <1>2, <1>4, <1>10, <2>1 DEF PendingLed
  <2>8. QED
    BY <2>3, <2>5, <2>6, <2>7, TraceStep
<1>13. QED
  BY <1>5, <1>11, <1>12

-----------------------------------------------------------------------------
(* Rows may go: those of doomed backups, and those whose files and objects *)
(* are then known to be left.                                              *)
LEMMA RowsGo ==
    ASSUME Trace, UNCHANGED <<count, files, objects>>, deleting' \in {deleting, None},
           lapses \subseteq lapses',
           \A c \in Backups : backup'[c] \in {backup[c], None},
           \A q \in Runs : \/ run'[q] = run[q]
                           \/ /\ run[q].pc \notin Early /\ run'[q].pc \notin Early
                              /\ run'[q].pc # "drop" /\ run'[q].old \subseteq run[q].old,
           \A c \in Created : backup'[c] = None =>
              \/ Doomed(c)
              \/ <<"file", backup[c].file>> \in lapses' /\ <<"object", Own(c)>> \in lapses'
    PROVE  Known' /\ Traced'
<1>1. \A c \in Created : c \in Backups
  BY DEF Created
<1>2. \A c \in Created' : c \in Created /\ backup'[c] = backup[c]
  BY DEF Created
<1>3. \A c \in Created : c \in Created' \/ backup'[c] = None
  BY DEF Created
<1>4. \A c \in Backups : Doomed(c)' => Doomed(c)
  BY DoomedStep
<1>5. \A q \in Runs : /\ run'[q].pc \in Early => run'[q] = run[q]
                      /\ run[q].pc \in Early => run'[q] = run[q]
                      /\ run'[q].old \subseteq run[q].old
  OBVIOUS
<1>6. \A q \in Runs : /\ Busy(q) => Busy(q)' /\ run'[q].file = run[q].file
                      /\ Uploaded(q) => Uploaded(q)' /\ Remote(q)' = Remote(q)
  BY <1>5 DEF Busy, Uploaded, Remote, Early
<1>7. Agreeing
  <2>1. \A q \in Runs : run[q].pc \in Early => run[q].backup # None
    BY RunFacts, BackupsAssumption DEF Trace, Lasting, Pcs, Backups
  <2>2. QED
    BY <1>2, <1>5, <2>1 DEF Agreeing
<1>8. FilesLed
  BY <1>1, <1>2, <1>3, <1>4, <1>6 DEF FilesLed
<1>9. ObjectsLed
  <2> SUFFICES ASSUME NEW c \in Completed, ~Doomed(c), backup[c].key
               PROVE  \/ c \in Completed' /\ ~Doomed(c)' /\ backup'[c].key /\ Own(c)' = Own(c)
                      \/ <<"object", Own(c)>> \in lapses'
    BY <1>6 DEF ObjectsLed
  <2>1. c \in Created
    BY DEF Completed
  <2>2. CASE backup'[c] = None
    BY <2>1, <2>2
  <2>3. CASE c \in Created'
    <3>1. backup'[c] = backup[c] /\ ~Doomed(c)'
      BY <1>1, <1>2, <1>4, <2>1, <2>3
    <3>2. QED
      BY <2>3, <3>1 DEF Completed, Own
  <2>4. QED
    BY <1>3, <2>1, <2>2, <2>3
<1>10. PendingLed
  BY <1>2, <1>5 DEF PendingLed
<1>11. QED
  BY <1>7, <1>8, <1>9, <1>10, TraceStep

LEMMA PruneRowTrace ==
    ASSUME Trace, NEW r \in Runs, NEW o \in run[r].old, PruneRow(r, o)
    PROVE  Known' /\ Traced'
<1>1. /\ run[r].pc = "drop" /\ run[r].pc \in Pcs /\ run[r].pc \notin Early
      /\ "prune" \in Pcs /\ "prune" \notin Early /\ "none" \notin Early
      /\ NextOld(r, o) /\ UNCHANGED <<count, files, objects, deleting>>
      /\ lapses \subseteq lapses'
  BY DEF PruneRow, Pcs, Early, RunVars, storeVars, Left
<1>2. /\ run[r].key \in BOOLEAN /\ run[r].old \in SUBSET OldBackup
      /\ run[r].old \ {o} \in SUBSET OldBackup /\ o.backup \in Backups
  BY <1>1, RunFacts DEF Trace, Lasting
<1>3. /\ run'[r].pc \in {"none", "prune"} /\ run'[r].old \subseteq run[r].old
      /\ \A q \in Runs : q # r => run'[q] = run[q]
  <2>1. CASE End(r)
    BY <2>1, EndStep DEF Trace, Lasting, Inv
  <2>2. CASE Continue(r, "prune", run[r].key, run[r].old \ {o})
    BY <1>1, <1>2, <2>2, ContinueStep DEF Trace, Lasting, Inv
  <2>3. QED
    BY <2>1, <2>2 DEF PruneRow
<1>4. \A c \in Backups : /\ backup'[c] \in {backup[c], None}
                         /\ c # o.backup => backup'[c] = backup[c]
  BY <1>2 DEF PruneRow, Trace, Lasting, Inv, Types
<1>5. Doomed(o.backup)
  BY <1>1 DEF Doomed, Dropping
<1>6. \A c \in Created : backup'[c] = None => Doomed(c)
  BY <1>4, <1>5 DEF Created
<1>7. QED
  BY <1>1, <1>3, <1>4, <1>6, RowsGo

LEMMA DeleteRowTrace ==
    ASSUME Trace, DeleteRow
    PROVE  Known' /\ Traced'
<1>1. /\ UNCHANGED <<count, files, objects, run>> /\ deleting' = None
      /\ lapses \subseteq lapses' /\ Doomed(deleting)
  BY DEF DeleteRow, storeVars, Left, Doomed
<1>2. \A c \in Backups : /\ backup'[c] \in {backup[c], None}
                         /\ c # deleting => backup'[c] = backup[c]
  BY DEF DeleteRow, Trace, Lasting, Inv, Types
<1>3. \A c \in Created : backup'[c] = None => Doomed(c)
  BY <1>1, <1>2 DEF Created
<1>4. QED
  BY <1>1, <1>2, <1>3, RowsGo

LEMMA DeleteDatabaseTrace ==
    ASSUME Trace, DeleteDatabase
    PROVE  Known' /\ Traced'
<1>1. UNCHANGED <<count, files, objects, run, deleting>> /\ lapses \subseteq lapses'
  BY DEF DeleteDatabase, storeVars, Left
<1>2. CASE /\ backup' = [c \in Backups |-> None]
           /\ Left({<<"file", backup[b].file>> : b \in Created} \union
                   {<<"object", <<backup[b].dest, backup[b].file>>>> : b \in Created})
  <2>1. \A c \in Created : /\ <<"file", backup[c].file>> \in lapses'
                           /\ <<"object", Own(c)>> \in lapses'
    BY <1>2 DEF Left, Own
  <2>2. QED
    BY <1>1, <1>2, <2>1, RowsGo
<1>3. CASE UNCHANGED backup
  <2>1. \A c \in Created : backup'[c] # None
    BY <1>3 DEF Created
  <2>2. QED
    BY <1>1, <1>3, <2>1, RowsGo
<1>4. QED
  BY <1>2, <1>3 DEF DeleteDatabase

(* A backup is doomed from the moment its files go.                        *)
LEMMA DeleteFilesTrace ==
    ASSUME Trace, NEW b \in Backups, DeleteFiles(b)
    PROVE  Known' /\ Traced'
<1>1. /\ deleting = None /\ deleting' = b /\ b \in Created
      /\ UNCHANGED <<backup, count, run>> /\ lapses \union InProgress(b) \subseteq lapses'
      /\ files' \subseteq files /\ objects' \subseteq objects
  BY DEF DeleteFiles, Left
<1>2. Created' = Created /\ Completed' = Completed /\ \A c \in Created : c \in Backups
  BY <1>1 DEF Created, Completed
<1>3. \A c \in Backups : Doomed(c)' => Doomed(c) \/ c = b
  BY <1>1 DEF Doomed, Dropping, NextOld
<1>4. \A q \in Runs : /\ Busy(q)' = Busy(q) /\ Uploaded(q)' = Uploaded(q)
                      /\ Remote(q)' = Remote(q)
  BY <1>1 DEF Busy, Uploaded, Remote
<1>5. /\ backup[b].file \notin files' \/ <<"file", backup[b].file>> \in lapses'
      /\ backup[b].key => Own(b) \notin objects' \/ <<"object", Own(b)>> \in lapses'
  BY DEF DeleteFiles, Left, Own
<1>6. b <= count
  <2>1. Name(b, backup[b].file) /\ backup[b].file \in Seconds
    BY <1>1 DEF Name, Created, Trace, Lasting, Inv, Types, Record
  <2>2. QED
    BY <2>1 DEF Trace, Lasting, Inv, Named
<1>7. Agreeing
  <2>1. ASSUME NEW q \in Runs, run[q].pc \in Early, run[q].backup = b
        PROVE  FileLeft(run[q].file)' /\ ObjectLeft(Remote(q))'
    <3>1. {<<"file", run[q].file>>, <<"object", Remote(q)>>} \subseteq InProgress(b)
      BY <2>1 DEF InProgress, Remote
    <3>2. QED
      BY <1>1, <3>1 DEF FileLeft, ObjectLeft, Remote
  <2>2. QED
    BY <1>1, <1>2, <1>6, <2>1 DEF Agreeing
<1>8. FilesLed
  BY <1>1, <1>2, <1>3, <1>4, <1>5 DEF FilesLed
<1>9. ObjectsLed
  <2>1. \A c \in Completed : c \in Backups /\ Own(c)' = Own(c)
    BY <1>1, <1>2 DEF Completed, Own
  <2>2. QED
    BY <1>1, <1>2, <1>3, <1>4, <1>5, <2>1 DEF ObjectsLed
<1>10. PendingLed
  BY <1>1, <1>2 DEF PendingLed
<1>11. QED
  BY <1>1, <1>7, <1>8, <1>9, <1>10, TraceStep

(* A run that prunes removes the object at its own destination, and leaves *)
(* the one at the backup's.                                                *)
LEMMA PruneFilesTrace ==
    ASSUME Trace, NEW r \in Runs, NEW o \in run[r].old, PruneFiles(r, o)
    PROVE  Known' /\ Traced'
<1>1. /\ run[r].pc = "prune" /\ run[r].pc \in Pcs /\ run[r].pc \notin Early
      /\ "drop" \in Pcs /\ "drop" \notin Early /\ NextOld(r, o) /\ Goto(r, "drop")
      /\ UNCHANGED <<backup, count, deleting>> /\ lapses \subseteq lapses'
      /\ files' \subseteq files /\ objects' \subseteq objects
  BY DEF PruneFiles, Pcs, Early, RunVars, Left
<1>2. /\ run[r].key \in BOOLEAN /\ run[r].old \in SUBSET OldBackup
      /\ \A p \in run[r].old : p.backup \in Backups
      /\ o.backup \in Created => backup[o.backup].file = o.file
      /\ ListedRight(o)
  BY <1>1, RunFacts, OneFile DEF Trace, Lasting, Known, ListedRows
<1>3. /\ run'[r].pc = "drop" /\ run'[r].old = run[r].old
      /\ \A q \in Runs : q # r => run'[q] = run[q]
  BY <1>1, <1>2, ContinueStep DEF Trace, Lasting, Inv, Goto
<1>4. \A c \in Backups : Doomed(c)' => Doomed(c) \/ c = o.backup
  <2> SUFFICES ASSUME NEW c \in Backups, Dropping(c)', ~Dropping(c) PROVE c = o.backup
    BY <1>1 DEF Doomed
  <2>1. PICK p \in run[r].old : p.backup = c /\ \A q \in run[r].old : q.backup <= p.backup
    BY <1>3 DEF Dropping, NextOld
  <2>2. p.backup <= o.backup /\ o.backup <= p.backup
    BY <1>1, <2>1 DEF NextOld
  <2>3. QED
    BY <1>2, <2>1, <2>2 DEF Backups
<1>5. Created' = Created /\ Completed' = Completed /\ \A c \in Created : c \in Backups
  BY <1>1 DEF Created, Completed
<1>6. \A q \in Runs : /\ Busy(q) => Busy(q)' /\ run'[q].file = run[q].file
                      /\ Uploaded(q) => Uploaded(q)' /\ Remote(q)' = Remote(q)
  BY <1>1, <1>3 DEF Busy, Uploaded, Remote
<1>7. /\ o.file \notin files' \/ <<"file", o.file>> \in lapses'
      /\ o.key => \/ <<o.dest, o.file>> \notin objects'
                  \/ <<"object", <<o.dest, o.file>>>> \in lapses'
      /\ <<None, o.file>> \notin objects'
  <2>1. <<None, o.file>> \notin objects
    BY BackupsAssumption DEF Trace, Lasting, Stores
  <2>2. QED
    BY <1>1, <2>1 DEF PruneFiles, Left
<1>8. Agreeing
  <2>1. \A q \in Runs : /\ run'[q].old = run[q].old
                        /\ run'[q].pc \in Early => run'[q] = run[q]
    BY <1>1, <1>3
  <2>2. \A q \in Runs : run[q].pc \in Early => run[q].backup # None
    BY RunFacts, BackupsAssumption DEF Trace, Lasting, Pcs, Backups
  <2>3. QED
    BY <1>1, <1>5, <2>1, <2>2 DEF Agreeing
<1>9. FilesLed
  BY <1>1, <1>2, <1>4, <1>5, <1>6, <1>7 DEF FilesLed
<1>10. ObjectsLed
  <2> SUFFICES ASSUME NEW c \in Completed, c = o.backup, backup[c].key
               PROVE  Own(c) \notin objects' \/ <<"object", Own(c)>> \in lapses'
    <3>1. \A c \in Completed : c \in Backups /\ Own(c)' = Own(c)
      BY <1>1, <1>5 DEF Completed, Own
    <3>2. QED
      BY <1>1, <1>4, <1>5, <1>6, <3>1 DEF ObjectsLed
  <2>1. c \in Created /\ o.key /\ backup[c].dest \in {o.dest, None} /\ backup[c].file = o.file
    BY <1>2 DEF ListedRight, Completed
  <2>2. QED
    BY <1>7, <2>1 DEF Own
<1>11. PendingLed
  BY <1>1, <1>3, <1>5 DEF PendingLed
<1>12. QED
  BY <1>1, <1>8, <1>9, <1>10, <1>11, TraceStep

-----------------------------------------------------------------------------
(* A destination that is deleted leaves its objects behind.                *)
LEMMA StorageDeleteTrace ==
    ASSUME Trace, NEW t \in Destinations, StorageDelete(t)
    PROVE  Known' /\ Traced'
<1>1. /\ UNCHANGED <<count, files, objects, run, deleting>> /\ lapses \subseteq lapses'
  BY DEF StorageDelete, storeVars, Left
<1>2. /\ \A o \in objects : o[1] = t => <<"object", o>> \in lapses'
      /\ \A q \in Runs : run[q].pc \in Early /\ run[q].dest = t => ObjectLeft(Remote(q))'
  <2>1. \A o \in objects : o[1] = t => <<"object", o>> \in lapses'
    BY DEF StorageDelete, Left
  <2>2. \A q \in Runs : run[q].pc \in Early /\ run[q].dest = t =>
           <<"object", <<t, run[q].file>>>> \in lapses'
    BY DEF StorageDelete, Left, Uploading, Early
  <2>3. QED
    BY <1>1, <2>1, <2>2 DEF ObjectLeft, Remote
<1>3. \A c \in Created : /\ c \in Created' /\ c \in Backups /\ backup[c] \in Record
                         /\ backup'[c].file = backup[c].file
                         /\ backup'[c].status = backup[c].status
                         /\ backup'[c].key = backup[c].key
                         /\ \/ backup'[c].dest = backup[c].dest
                            \/ backup'[c].dest = None /\ backup[c].dest = t
  <2> SUFFICES ASSUME NEW c \in Created
               PROVE  /\ c \in Created' /\ c \in Backups /\ backup[c] \in Record
                      /\ backup'[c].file = backup[c].file
                      /\ backup'[c].status = backup[c].status
                      /\ backup'[c].key = backup[c].key
                      /\ \/ backup'[c].dest = backup[c].dest
                         \/ backup'[c].dest = None /\ backup[c].dest = t
    OBVIOUS
  <2>1. c \in Backups /\ backup[c] \in Record
    BY DEF Created, Trace, Lasting, Inv, Types
  <2>2. backup'[c] = IF backup[c].dest = t THEN [backup[c] EXCEPT !.dest = None] ELSE backup[c]
    BY <2>1 DEF StorageDelete
  <2>3. backup'[c] \in Record
    BY <2>1, <2>2 DEF Record, Dests
  <2>4. backup'[c] # None
    BY <2>3, BackupsAssumption
  <2>5. QED
    BY <2>1, <2>2, <2>4 DEF Created, Record
<1>4. \A c \in Backups : c \notin Created => c \notin Created'
  BY DEF StorageDelete, Created
<1>5. Created' = Created
  BY <1>3, <1>4 DEF Created
<1>6. \A c \in Backups : Doomed(c)' => Doomed(c)
  BY <1>1 DEF Doomed, Dropping, NextOld
<1>7. \A q \in Runs : /\ Busy(q)' = Busy(q) /\ Uploaded(q)' = Uploaded(q)
                      /\ Remote(q)' = Remote(q)
  BY <1>1 DEF Busy, Uploaded, Remote
<1>8. Agreeing
  <2>1. ASSUME NEW q \in Runs, run[q].pc \in Early, run[q].backup \in Created
        PROVE  \/ backup'[run[q].backup].dest = backup[run[q].backup].dest
               \/ ObjectLeft(Remote(q))'
    <3>1. EarlyRow(q)
      BY <2>1 DEF Trace, Known, EarlyRows
    <3>2. CASE ObjectLeft(Remote(q))
      BY <1>1, <1>7, <3>2 DEF ObjectLeft
    <3>3. CASE backup[run[q].backup].dest = run[q].dest
      BY <1>2, <1>3, <2>1, <3>3
    <3>4. QED
      BY <2>1, <3>1, <3>2, <3>3 DEF EarlyRow
  <2>2. \A c \in Created : backup'[c].dest \in {backup[c].dest, None}
    BY <1>3
  <2>3. \A q \in Runs : run[q].pc \in Early => run[q].backup # None
    BY RunFacts, BackupsAssumption DEF Trace, Lasting, Pcs, Backups
  <2>4. QED
    BY <1>1, <1>3, <1>5, <2>1, <2>2, <2>3 DEF Agreeing
<1>9. FilesLed
  BY <1>1, <1>3, <1>5, <1>6, <1>7 DEF FilesLed
<1>10. ObjectsLed
  <2> SUFFICES ASSUME NEW c \in Completed, ~Doomed(c), backup[c].key
               PROVE  \/ c \in Completed' /\ ~Doomed(c)' /\ backup'[c].key /\ Own(c)' = Own(c)
                      \/ Own(c) \notin objects'
                      \/ <<"object", Own(c)>> \in lapses'
    BY <1>1, <1>7 DEF ObjectsLed
  <2>1. c \in Created /\ c \in Completed' /\ ~Doomed(c)' /\ backup'[c].key
    BY <1>3, <1>6 DEF Completed
  <2>2. CASE backup'[c].dest = backup[c].dest
    BY <1>3, <2>1, <2>2 DEF Own
  <2>3. CASE backup[c].dest = t
    <3>1. Own(c)[1] = t
      BY <2>3 DEF Own
    <3>2. QED
      BY <1>1, <1>2, <3>1
  <2>4. QED
    BY <1>3, <2>1, <2>2, <2>3
<1>11. PendingLed
  BY <1>1, <1>3, <1>5 DEF PendingLed
<1>12. QED
  BY <1>1, <1>8, <1>9, <1>10, <1>11, TraceStep

(* When the process dies, what its runs were making is left behind.        *)
LEMMA CrashTrace ==
    ASSUME Trace, Crash
    PROVE  Known' /\ Traced'
<1>1. /\ UNCHANGED <<backup, count, files, objects>> /\ run' = [q \in Runs |-> NoRun]
      /\ deleting' = None /\ lapses \union LeftByRuns \subseteq lapses'
  BY DEF Crash, storeVars, Left
<1>2. \A q \in Runs : run[q].pc \in Early => /\ <<"pending", run[q].backup>> \in lapses'
                                             /\ <<"file", run[q].file>> \in lapses'
  BY <1>1 DEF LeftByRuns, EarlyRuns
<1>3. \A q \in Runs : Uploaded(q) => <<"object", Remote(q)>> \in lapses'
  <2> SUFFICES ASSUME NEW q \in Runs, Uploaded(q) PROVE <<"object", Remote(q)>> \in lapses'
    OBVIOUS
  <2>1. <<"object", Remote(q)>> \in ObjectsOf(q) /\ run[q].pc = "complete"
    BY DEF ObjectsOf, Uploaded, Remote
  <2>2. <<"object", Remote(q)>> \in LeftByRuns
    BY <2>1 DEF LeftByRuns
  <2>3. QED
    BY <1>1, <2>2
<1>4. Created' = Created /\ Completed' = Completed /\ \A c \in Created : c \in Backups
  BY <1>1 DEF Created, Completed
<1>5. \A q \in Runs : run'[q].pc = "none" /\ run'[q].old = {}
  BY <1>1 DEF NoRun
<1>6. \A c \in Backups : ~Doomed(c)'
  <2>1. \A c \in Backups : c # None
    BY BackupsAssumption DEF Backups
  <2>2. QED
    BY <1>1, <1>5, <2>1 DEF Doomed, Dropping
<1>7. Agreeing
  BY <1>1, <1>4, <1>5 DEF Agreeing, Early
<1>8. FilesLed
  BY <1>1, <1>2, <1>4, <1>6 DEF FilesLed, Busy, Early
<1>9. ObjectsLed
  <2>1. \A c \in Completed : c \in Backups /\ Own(c)' = Own(c)
    BY <1>1, <1>4 DEF Completed, Own
  <2>2. QED
    BY <1>1, <1>3, <1>4, <1>6, <2>1 DEF ObjectsLed
<1>10. PendingLed
  BY <1>1, <1>2, <1>4 DEF PendingLed
<1>11. QED
  BY <1>1, <1>7, <1>8, <1>9, <1>10, TraceStep

(* A new run's backup is a number nothing refers to yet.                   *)
LEMMA RunBackupTrace ==
    ASSUME Trace, NEW r \in Runs, NEW dest \in Dests, NEW s \in Seconds, RunBackup(r, dest, s)
    PROVE  Known' /\ Traced'
<1> DEFINE row == [status |-> "pending", dest |-> dest, key |-> FALSE, file |-> s]
           v == [pc |-> "open", backup |-> count + 1, dest |-> dest, key |-> FALSE,
                 keep |-> KeepCount, file |-> s, old |-> {}]
<1>1. /\ UNCHANGED <<files, objects, deleting>> /\ count' = count + 1
      /\ count < MaxBackups /\ lapses \subseteq lapses'
      /\ backup' = [backup EXCEPT ![count + 1] = row] /\ run' = [run EXCEPT ![r] = v]
      /\ run[r] \in {NoRun, Queued}
  BY DEF RunBackup, storeVars, Left
<1>2. PICK b \in Backups : b = count + 1
  BY <1>1, BackupsAssumption DEF Trace, Lasting, Inv, Types, Backups
<1>3. /\ row.status = "pending" /\ row.dest = dest /\ row # None
      /\ v.pc = "open" /\ v.backup = b /\ v.dest = dest /\ v.old = {}
  <2>1. row \in Record
    BY DEF Record
  <2>2. QED
    BY <1>2, <2>1, BackupsAssumption
<1> HIDE DEF row, v
<1>4. /\ backup'[b] = row /\ run'[r] = v
      /\ \A c \in Backups : c # b => backup'[c] = backup[c]
      /\ \A q \in Runs : q # r => run'[q] = run[q]
  BY <1>1, <1>2 DEF Trace, Lasting, Inv, Types
<1>5. \A c \in Backups, u \in Seconds : Name(c, u) => c # b
  <2> SUFFICES ASSUME NEW c \in Backups, NEW u \in Seconds, Name(c, u) PROVE c # b
    OBVIOUS
  <2>1. c <= count
    BY DEF Trace, Lasting, Inv, Named
  <2>2. c \in Nat /\ count \in Nat
    BY DEF Trace, Lasting, Inv, Types, Backups
  <2>3. QED
    BY <1>2, <2>1, <2>2
<1>6. \A c \in Created : c \in Backups /\ c # b
  <2> SUFFICES ASSUME NEW c \in Created PROVE c \in Backups /\ c # b
    OBVIOUS
  <2>1. c \in Backups /\ backup[c].file \in Seconds /\ Name(c, backup[c].file)
    BY DEF Created, Name, Trace, Lasting, Inv, Types, Record
  <2>2. QED
    BY <1>5, <2>1
<1>7. Created' = Created \union {b} /\ Completed' = Completed
  BY <1>2, <1>3, <1>4, <1>6 DEF Created, Completed
<1>8. \A q \in Runs : run[q].pc \in Pcs =>
         /\ run[q].backup # b
         /\ \A o \in run[q].old : o.backup \in Backups /\ o.backup # b
  BY <1>5, RunFacts DEF Trace, Lasting
<1>9. deleting # b /\ DeletingKnown'
  <2>1. deleting \in Backups \union {None} /\ (deleting # None => deleting <= count)
    BY DEF Trace, Lasting, Stores, Known, DeletingKnown
  <2>2. count \in Nat /\ b # None
    BY BackupsAssumption DEF Trace, Lasting, Inv, Types, Backups
  <2>3. QED
    BY <1>1, <1>2, <2>1, <2>2 DEF DeletingKnown, Backups
<1>10. run[r].pc \notin Pcs /\ run[r].old = {} /\ Early \subseteq Pcs /\ "drop" \in Pcs
  BY <1>1 DEF NoRun, Queued, Pcs, Early
<1>11. ListedRows'
  <2> SUFFICES ASSUME NEW q \in Runs, NEW o \in run'[q].old PROVE ListedRight(o)'
    BY DEF ListedRows
  <2>1. q # r /\ run'[q] = run[q] /\ o \in run[q].old
    BY <1>3, <1>4
  <2>2. run[q].pc \in Pcs
    BY <2>1 DEF Trace, Lasting, Inv, Types, Run, NoRun, Queued
  <2>3. o.backup \in Backups /\ o.backup # b /\ ListedRight(o)
    BY <1>8, <2>1, <2>2 DEF Trace, Known, ListedRows
  <2>4. QED
    BY <1>3, <1>4, <1>7, <2>3 DEF ListedRight
<1>12. EarlyRows'
  <2> SUFFICES ASSUME NEW q \in Runs, run'[q].pc \in Early PROVE EarlyRow(q)'
    BY DEF EarlyRows
  <2>1. CASE q = r
    BY <1>1, <1>3, <1>4, <1>9, <2>1 DEF EarlyRow
  <2>2. CASE q # r
    <3>1. /\ run'[q] = run[q] /\ run[q].pc \in Early /\ EarlyRow(q)
          /\ run[q].backup # b /\ run[q].backup \in Backups
      BY <1>4, <1>8, <1>10, <2>2, RunFacts DEF Trace, Known, EarlyRows, Lasting
    <3>2. QED
      BY <1>1, <1>4, <1>7, <3>1 DEF EarlyRow, FileLeft, ObjectLeft, Remote
  <2>3. QED
    BY <2>1, <2>2
<1>13. \A c \in Backups : Doomed(c)' => Doomed(c)
  <2>1. \A q \in Runs : run'[q].pc = "drop" => run'[q] = run[q]
    BY <1>3, <1>4
  <2>2. QED
    BY <1>1, <2>1, DoomedStep
<1>14. \A q \in Runs : /\ Busy(q) => Busy(q)' /\ run'[q].file = run[q].file
                       /\ Uploaded(q) => Uploaded(q)' /\ Remote(q)' = Remote(q)
  BY <1>4, <1>10 DEF Busy, Uploaded, Remote, Early
<1>15. FilesLed
  BY <1>1, <1>4, <1>6, <1>7, <1>13, <1>14 DEF FilesLed
<1>16. ObjectsLed
  <2>1. \A c \in Completed : /\ c \in Backups /\ Own(c)' = Own(c)
                             /\ backup'[c] = backup[c]
    BY <1>4, <1>6 DEF Completed, Own
  <2>2. QED
    BY <1>1, <1>7, <1>13, <1>14, <2>1 DEF ObjectsLed
<1>17. PendingInProgress'
  <2> SUFFICES ASSUME NEW c \in Created', backup'[c].status = "pending"
               PROVE  \/ <<"pending", c>> \in lapses'
                      \/ \E q \in Runs : run'[q].pc \in Early /\ run'[q].backup = c
    BY DEF PendingInProgress
  <2>1. CASE c = b
    BY <1>3, <1>4, <2>1 DEF Early
  <2>2. CASE c # b
    <3>1. c \in Created /\ backup[c].status = "pending"
      BY <1>4, <1>6, <1>7, <2>2
    <3>2. \/ <<"pending", c>> \in lapses
          \/ \E q \in Runs : run[q].pc \in Early /\ run[q].backup = c
      BY <3>1 DEF Trace, Traced, PendingInProgress
    <3>3. QED
      BY <1>1, <1>4, <1>10, <3>2
  <2>3. QED
    BY <2>1, <2>2
<1>18. QED
  BY <1>1, <1>9, <1>11, <1>12, <1>15, <1>16, <1>17, FilesStayTraced, ObjectsStayTraced
     DEF Trace, Known, Traced

LEMMA TraceNext == ASSUME Trace, [Next]_vars PROVE Trace'
<1>1. Lasting'
  BY LastingNext DEF Trace
<1>2. CASE UNCHANGED vars
  <2>1. UNCHANGED <<backup, count, run, deleting, lapses, files, objects>>
    BY <1>2 DEF vars, settingVars, storeVars, histVars
  <2>2. \A q \in Runs : (Busy(q) => Busy(q)') /\ (Uploaded(q) => Uploaded(q)')
    BY <2>1 DEF Busy, Uploaded
  <2>3. Known' /\ Traced'
    BY <2>1, <2>2, QuietTrace
  <2>4. QED
    BY <1>1, <2>3 DEF Trace
<1>3. CASE Next
  <2>1. ASSUME NEW r \in Runs, RunStep(r) PROVE Known' /\ Traced'
    <3>1. CASE Open(r)
      <4>1. Goto(r, "dump") \/ End(r)
        BY <3>1 DEF Open
      <4>2. QED
        BY <3>1, <4>1, ContinueTrace, FailTrace
    <3>2. QED
      BY <2>1, <3>1, QueueTrace, ContinueTrace, FailTrace, CompleteTrace, PruneFilesTrace,
         PruneRowTrace DEF RunStep
  <2>2. Known' /\ Traced'
    BY <1>3, <2>1, SettingsTrace, StorageDeleteTrace, RunBackupTrace, QueueTrace,
       DeleteFilesTrace, DeleteRowTrace, DeleteDatabaseTrace, CrashTrace DEF Next
  <2>3. QED
    BY <1>1, <2>2 DEF Trace
<1>4. QED
  BY <1>2, <1>3

LEMMA TraceInit == Init => Trace
<1> SUFFICES ASSUME Init PROVE Trace
  OBVIOUS
<1>1. Known
  BY DEF Init, Known, ListedRows, EarlyRows, DeletingKnown, NoRun, Early
<1>2. Traced
  BY DEF Init, Traced, PendingInProgress, Created
<1>3. QED
  BY <1>1, <1>2, LastingInit DEF Trace

(* Every file, object and pending row is accounted for.                    *)
THEOREM AccountedHolds == Spec => []Accounted
<1>1. Trace => Accounted
  BY DEF Trace, Traced, FileTraced, ObjectTraced, FileLeft, ObjectLeft, Busy, Uploaded, Remote,
         Own, Accounted, FilesAccounted, ObjectsAccounted
<1>2. QED
  BY <1>1, TraceInit, TraceNext, PTL DEF Spec
=============================================================================
