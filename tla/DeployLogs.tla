----------------------------- MODULE DeployLogs ----------------------------
(***************************************************************************)
(* The log of one deployment: the pipeline writes it through a rotating    *)
(* writer, and a page follows it with StreamDeploymentLogs, which polls    *)
(* the file by its offset and the row for its status.  Lines are numbered  *)
(* as they reach the file; a size is a number of lines.                    *)
(***************************************************************************)
EXTENDS Naturals, Sequences, FiniteSets, SequencesExt

CONSTANTS
    MaxSize,       \* maxSize: 10 MiB
    MaxFiles,      \* maxFiles: 5
    MaxMessage,    \* lines of one message; a build's output is one message
    Long,          \* lines too long for the stream's scanner (64 KiB)
    MaxLines,      \* bound: lines in all
    MaxMishaps,    \* bound: failing calls and crashes
    None           \* no file

LogsAssumption ==
    /\ MaxSize \in Nat \ {0} /\ MaxFiles \in Nat \ {0} /\ MaxMessage \in Nat \ {0}
    /\ Long \subseteq Nat /\ MaxLines \in Nat /\ MaxMishaps \in Nat
    /\ None \notin Seq(Nat)

VARIABLES
    job,           \* the pipeline: queued, working, tail (after its last status), over
    final,         \* the row has a final status
    directory,     \* the row's log_path names the directory (a deployment of the API)
    file,          \* the lines at the log's path, or None
    rotated,       \* the lines of the rotated files, by the second in their names
    writer,        \* the writer's handle: open, broken (not nil but closed), closed
    second,        \* the second of the last rotation
    lines,         \* lines that have reached the file
    stream,        \* a page's request: [pc, offset, size, sent]
    held,          \* the file the stream has open, if it was rotated away
    mishaps,
    due,           \* history: lines of the current file at the final status
    turned,        \* history: rotations while the stream runs
    overwritten,   \* history: lines of files that another one was renamed to
    stuck          \* history: an old file could not be removed

jobVars == <<job, final, directory, due>>
fileVars == <<file, rotated, writer, second, lines, overwritten, stuck>>
streamVars == <<stream, held, turned>>
vars == <<jobVars, fileVars, streamVars, mishaps>>

Ids == 1..MaxLines
NoStream == [pc |-> "none", offset |-> 0, size |-> 0, sent |-> {}]
StreamPcs == {"none", "poll", "read", "status", "drain", "rest", "done"}

Init ==
    /\ job = "queued" /\ final = FALSE /\ directory \in BOOLEAN
    /\ file = None /\ rotated = [t \in {} |-> <<>>]
    /\ writer = "closed" /\ second = 0 /\ lines = 0
    /\ stream = NoStream /\ held = None
    /\ mishaps = 0 /\ due = {} /\ turned = FALSE /\ overwritten = {} /\ stuck = FALSE

Fails == mishaps < MaxMishaps /\ mishaps' = mishaps + 1
Works == UNCHANGED mishaps
SizeOf(f) == IF f = None THEN 0 ELSE Len(f)
LinesOf(f) == IF f = None THEN {} ELSE ToSet(f)

----------------------------------------------------------------------------
(* NewRotatingWriter; without it Execute returns before any status.        *)
Open ==
    /\ job = "queued"
    /\ \/ Works /\ job' = "working" /\ file' = <<>> /\ writer' = "open"
       \/ Fails /\ job' = "over" /\ UNCHANGED <<file, writer>>
    /\ UNCHANGED <<final, directory, due, rotated, second, lines, overwritten, stuck, streamVars>>

Message(k) == [i \in 1..k |-> lines + i]
Writing(k) == job \in {"working", "tail"} /\ writer = "open" /\ lines + k <= MaxLines

(* A message that fits; writeLog drops the error of one that does not get  *)
(* into the file.                                                          *)
WriteMessage(k) ==
    /\ Writing(k) /\ Len(file) + k <= MaxSize
    /\ \/ Works /\ file' = file \o Message(k) /\ lines' = lines + k
       \/ Fails /\ UNCHANGED <<file, lines>>
    /\ UNCHANGED <<jobVars, rotated, writer, second, overwritten, stuck, streamVars>>

(* Mutant: the newest ones go.                                             *)
KeptOldest(files) ==
    [t \in {u \in DOMAIN files : Cardinality({v \in DOMAIN files : v < u}) < MaxFiles}
        |-> files[t]]

(* cleanupOldFiles: those in excess of MaxFiles go, oldest first.          *)
Kept(files) ==
    [t \in {u \in DOMAIN files : Cardinality({v \in DOMAIN files : v > u}) < MaxFiles}
        |-> files[t]]

(* The name of a rotated file has the second in it, so that one of the same*)
(* second takes its place.                                                 *)
Renamed(s) == [t \in DOMAIN rotated \union {s} |-> IF t = s THEN file ELSE rotated[t]]
Replaced(s) == IF s \in DOMAIN rotated THEN ToSet(rotated[s]) ELSE {}

Opened == stream.pc \in {"read", "rest"} /\ ~directory
Turn ==
    /\ turned' = (turned \/ stream.pc \notin {"none", "done"})
    /\ held' = IF Opened /\ held = None THEN file ELSE held
    /\ UNCHANGED stream

(* rotate; then the message goes to the new file, its size unchecked.      *)
Rotate(k, s) ==
    /\ Writing(k) /\ Len(file) + k > MaxSize
    /\ s \in {second, second + 1} /\ second' = s /\ Turn
    /\ overwritten' = overwritten \union Replaced(s)
    /\ \/ /\ Works /\ rotated' = Kept(Renamed(s)) /\ UNCHANGED stuck
          /\ file' = Message(k) /\ lines' = lines + k
       \/ /\ Fails /\ rotated' = Renamed(s) /\ UNCHANGED <<lines, stuck>>
          /\ file' = <<>>
       \/ /\ Fails /\ rotated' = Renamed(s) /\ stuck' = TRUE
          /\ file' = Message(k) /\ lines' = lines + k
    /\ UNCHANGED <<jobVars, writer>>

(* The rename fails, or the new file cannot be opened: the handle stays,   *)
(* closed, and every later message is lost.                                *)
RotateFails(k, s) ==
    /\ Writing(k) /\ Len(file) + k > MaxSize /\ Fails
    /\ writer' = "broken" /\ s \in {second, second + 1}
    /\ \/ /\ second' = s /\ file' = None /\ rotated' = Renamed(s) /\ Turn
          /\ overwritten' = overwritten \union Replaced(s)
       \/ UNCHANGED <<second, file, rotated, overwritten, streamVars>>
    /\ UNCHANGED <<jobVars, lines, stuck>>

(* updateStep with a final status comes after the messages that explain it *)
(* and before those of the pruning; its error is dropped.                  *)
Finish ==
    /\ job = "working" /\ job' = "tail"
    /\ \/ Works /\ final' = TRUE /\ due' = LinesOf(file)
       \/ Fails /\ UNCHANGED <<final, due>>
    /\ UNCHANGED <<directory, fileVars, streamVars>>

Close ==
    /\ job = "tail" /\ job' = "over" /\ writer' = "closed"
    /\ UNCHANGED <<final, directory, due, file, rotated, second, lines, overwritten, stuck,
                   streamVars, mishaps>>

----------------------------------------------------------------------------
StreamStep == UNCHANGED <<jobVars, fileVars, turned>>
Goto(pc) == stream' = [stream EXCEPT !.pc = pc]

StreamDeploymentLogs ==
    /\ stream.pc = "none"
    /\ stream' = [NoStream EXCEPT !.pc = "poll"] /\ turned' = FALSE
    /\ UNCHANGED <<jobVars, fileVars, held, mishaps>>

(* Every 250 ms the log is opened and its size taken; there may be nothing *)
(* new.  A directory opens and has a size as well.                         *)
Look(pc, to, otherwise) ==
    /\ stream.pc = pc /\ StreamStep
    /\ IF SizeOf(file) > stream.offset
       THEN stream' = [stream EXCEPT !.pc = to, !.size = Len(file)]
       ELSE Goto(otherwise)
    /\ UNCHANGED <<held, mishaps>>

Poll == Look("poll", "read", "status")

(* Then it is read to the end or to a line that the scanner cannot take,   *)
(* while the next reading begins at the size.                              *)
Content == IF held = None THEN file ELSE held
Scanned ==
    IF directory THEN {}
    ELSE {Content[i] : i \in {j \in (stream.offset + 1)..Len(Content) :
                        \A h \in (stream.offset + 1)..j : Content[h] \notin Long}}

Scan(pc, to) ==
    /\ stream.pc = pc /\ StreamStep
    /\ stream' = [stream EXCEPT !.pc = to, !.offset = stream.size, !.sent = @ \union Scanned]
    /\ held' = None /\ UNCHANGED mishaps

Read == Scan("read", "status")

(* Mutant: a final status ends the stream at once.                         *)
ReadStatusEnds ==
    /\ stream.pc = "status" /\ StreamStep
    /\ Goto(IF final THEN "done" ELSE "poll") /\ Works
    /\ UNCHANGED held

(* The row is read after the log.                                          *)
ReadStatus ==
    /\ stream.pc = "status" /\ StreamStep
    /\ \/ Works /\ Goto(IF final THEN "drain" ELSE "poll")
       \/ Fails /\ Goto("poll")
    /\ UNCHANGED held

(* The final drain, and the event "done".                                  *)
Drain == Look("drain", "rest", "done")
Rest == Scan("rest", "done")

(* The browser leaves; it may come back.                                   *)
Leave ==
    /\ stream.pc # "none"
    /\ stream' = NoStream /\ held' = None
    /\ UNCHANGED <<jobVars, fileVars, turned, mishaps>>

(* The handler Start, on whatever row: its status is cloning again.        *)
Start ==
    /\ final /\ final' = FALSE
    /\ UNCHANGED <<job, directory, due, fileVars, streamVars, mishaps>>

(* The process dies, and nobody takes the deployment up.                   *)
Crash ==
    /\ Fails /\ job # "over"
    /\ job' = "over" /\ writer' = "closed" /\ stream' = NoStream /\ held' = None
    /\ UNCHANGED <<final, directory, due, file, rotated, second, lines, overwritten, stuck,
                   turned>>

Next ==
    \/ Open \/ Finish \/ Close \/ Start \/ Crash
    \/ \E k \in 1..MaxMessage : WriteMessage(k)
    \/ \E k \in 1..MaxMessage, s \in 0..MaxLines : Rotate(k, s) \/ RotateFails(k, s)
    \/ StreamDeploymentLogs \/ Poll \/ Read \/ ReadStatus \/ Drain \/ Rest \/ Leave

Spec == Init /\ [][Next]_vars
----------------------------------------------------------------------------
(* The type of the state.                                                  *)
TypeOK ==
    /\ job \in {"queued", "working", "tail", "over"}
    /\ final \in BOOLEAN /\ directory \in BOOLEAN
    /\ file \in Seq(Ids) \union {None}
    /\ DOMAIN rotated \subseteq 0..second /\ rotated \in [DOMAIN rotated -> Seq(Ids)]
    /\ writer \in {"open", "broken", "closed"} /\ (writer = "open" => file # None)
    /\ second \in Nat /\ lines \in 0..MaxLines
    /\ stream \in [pc : StreamPcs, offset : Nat, size : Nat, sent : SUBSET Ids]
    /\ held \in Seq(Ids) \union {None}
    /\ mishaps \in Nat /\ due \subseteq Ids /\ overwritten \subseteq Ids
    /\ turned \in BOOLEAN /\ stuck \in BOOLEAN

(* A page that was told the deployment is over has every line that was in  *)
(* the file when its final status was written, however polls and writes    *)
(* interleave - unless the file was rotated under the stream, a line       *)
(* before it is too long to be read, or the row names a directory.         *)
DoneDelivers ==
    stream.pc = "done" /\ ~turned /\ ~directory /\ file # None =>
        \A i \in DOMAIN file : file[i] \in due =>
            file[i] \in stream.sent \/ \E j \in 1..i : file[j] \in Long

(* Rotation loses the oldest lines and no others, and none before MaxFiles *)
(* files are kept - unless two rotations met in one second or an old file  *)
(* could not be removed.                                                   *)
OnDisk == LinesOf(file) \union UNION {ToSet(rotated[t]) : t \in DOMAIN rotated}
RotationKeeps ==
    LET lost == (1..lines) \ (OnDisk \union overwritten)
    IN  ~stuck /\ lost # {} =>
            /\ Cardinality(DOMAIN rotated) >= MaxFiles
            /\ \A l \in lost, k \in OnDisk : l < k
=============================================================================
