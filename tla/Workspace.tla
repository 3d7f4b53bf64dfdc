----------------------------- MODULE Workspace -----------------------------
(***************************************************************************)
(* The rows of the console and what hangs on what: projects, environments, *)
(* applications with their variables, deployments and cron jobs, compose   *)
(* applications, teams and servers.  Deploy keys have no rows: but for the *)
(* DELETE, every statement about them names a column that their table does *)
(* not have, and fails.  The requests that write several rows - the        *)
(* dropzone, a template, a clone - do so statement by statement, without a *)
(* transaction, while others delete.  An upload also leaves a directory,   *)
(* named after its application, that nothing removes.                      *)
(*                                                                         *)
(* Connect turns foreign keys on with a PRAGMA on one connection of its    *)
(* pool; a statement that runs on another one is not held to them, so      *)
(* every statement may find them on or off.                                *)
(***************************************************************************)
EXTENDS Naturals, FiniteSets

CONSTANTS
    MaxRows,       \* bound: rows inserted in all
    Requests,      \* requests served at the same time
    MaxChanges,    \* bound: requests in all
    None           \* no row, no reference

VARIABLES
    rows,       \* [kind, parent, server] of each row, or None
    default,    \* the last project whose slug is default-project
    used,       \* rows inserted so far; their identifiers are fresh
    sources,    \* the directories of uploads, by application
    req,        \* the requests in the middle of their statements
    changes,    \* requests so far
    escaped     \* history: a statement has run without foreign keys

vars == <<rows, default, used, sources, req, changes, escaped>>

Ids == 1..MaxRows
Used == 1..used
Roots == {"project", "team", "server"}
ParentKind == [environment |-> "project", application |-> "environment",
               compose |-> "environment", variable |-> "application",
               deployment |-> "application", cron |-> "application", member |-> "team"]
Kinds == Roots \union DOMAIN ParentKind
Row == [kind : Kinds, parent : Ids \union {None}, server : Ids \union {None}]

WorkspaceAssumption ==
    MaxRows \in Nat /\ MaxChanges \in Nat /\ None \notin Nat \union Row

DefaultProjects == {i \in Ids : i = default /\ rows[i] # None}
Idle == [op |-> "none"]
Pcs == {"project", "environment", "application", "unpack", "variables", "deployment"}
Sources == {"none", "partial", "whole"}
Request == {Idle} \union
    [op : {"dropzone", "template", "clone"}, pc : Pcs, at : Ids \union {None},
     left : SUBSET Ids]

Init ==
    /\ rows = [i \in Ids |-> None] /\ default = None /\ used = 0
    /\ sources = [i \in Ids |-> "none"]
    /\ req = [r \in Requests |-> Idle]
    /\ changes = 0 /\ escaped = FALSE

Of(kind) == {i \in Ids : rows[i] # None /\ rows[i].kind = kind}
Children(S) == {i \in Ids : rows[i] # None /\ rows[i].parent \in S}
Referring(s) == {i \in Ids : rows[i] # None /\ rows[i].server = s}

(* Mutant: what hangs on the children stays.                               *)
DownShallow(i) == {i} \union Children({i})

(* ON DELETE CASCADE: a row and all that hangs on it.                      *)
Down(i) ==
    LET c == {i} \union Children({i})
        d == c \union Children(c)
    IN  d \union Children(d)

----------------------------------------------------------------------------
(* The INSERTs of the repositories.                                        *)
Holds(row) == \A p \in {row.parent, row.server} \ {None} : rows[p] # None

(* A statement with foreign keys on succeeds only if they are satisfied.   *)
Enforced(satisfied) ==
    \/ satisfied /\ UNCHANGED escaped
    \/ escaped' = TRUE

New == used + 1
Insert(row) ==
    /\ used < MaxRows /\ used' = New
    /\ rows' = [rows EXCEPT ![New] = row]
    /\ Enforced(Holds(row))

Child(kind, p) == [kind |-> kind, parent |-> p, server |-> None]
Gone == {i \in Used : rows[i] = None}
GoneOr(kind, p) == p \in Gone \union Of(kind)
Asks == changes < MaxChanges /\ changes' = changes + 1

CreateRoot(kind) ==
    /\ Asks
    /\ Insert(Child(kind, None))
    /\ UNCHANGED <<default, sources, req>>

ProjectsCreate == CreateRoot("project")
TeamsCreate == CreateRoot("team")
ServersCreate == CreateRoot("server")

(* Create of an application on a server, if the form names one.            *)
CreateApplication(e, server) ==
    /\ Asks /\ GoneOr("environment", e) /\ server \in {None} \union Of("server")
    /\ Insert([kind |-> "application", parent |-> e, server |-> server])
    /\ UNCHANGED <<default, sources, req>>

(* The handlers below take the parent from the address of their page,      *)
(* which may be older than the deletion of the parent.                     *)
CreateChild(kind, p) ==
    /\ Asks /\ GoneOr(ParentKind[kind], p)
    /\ Insert(Child(kind, p))
    /\ UNCHANGED <<default, sources, req>>

CreateCompose(e) == CreateChild("compose", e)
CreateEnvVar(i) == CreateChild("variable", i)
CreateCronJob(i) == CreateChild("cron", i)
Deploy(i) == CreateChild("deployment", i)
TeamsAddMember(t) == CreateChild("member", t)

(* Move writes any environment it is given.                                *)
Move(i, e) ==
    /\ Asks /\ i \in Of("application") /\ GoneOr("environment", e)
    /\ Enforced(rows[e] # None)
    /\ rows' = [rows EXCEPT ![i] =
                    [kind |-> "application", parent |-> e, server |-> rows[i].server]]
    /\ UNCHANGED <<default, used, sources, req>>

(* A DELETE takes what hangs on the row along only if foreign keys are on. *)
(* Containers and routes stay as they are.                                 *)
Delete(kind, i) ==
    /\ Asks /\ i \in Of(kind)
    /\ \/ /\ UNCHANGED escaped
          /\ rows' = [j \in Ids |-> IF j \in Down(i) THEN None ELSE rows[j]]
       \/ /\ escaped' = TRUE
          /\ rows' = [rows EXCEPT ![i] = None]
    /\ UNCHANGED <<default, used, sources, req>>

ProjectsDelete(i) == Delete("project", i)
DeleteEnvVar(i) == Delete("variable", i)
DeleteCronJob(i) == Delete("cron", i)
TeamsRemoveMember(i) == Delete("member", i)

(* A server that applications name is kept by the foreign key alone.       *)
DeleteServer(i) ==
    /\ Asks /\ i \in Of("server")
    /\ Enforced(Referring(i) = {})
    /\ rows' = [rows EXCEPT ![i] = None]
    /\ UNCHANGED <<default, used, sources, req>>

----------------------------------------------------------------------------
Begin(r, op, pc, at, left) ==
    /\ Asks /\ req[r] = Idle
    /\ req' = [req EXCEPT ![r] = [op |-> op, pc |-> pc, at |-> at, left |-> left]]
    /\ UNCHANGED <<rows, default, used, sources, escaped>>

At(r, op, pc) == req[r] # Idle /\ req[r].op = op /\ req[r].pc = pc
Step(r, pc, at, left) ==
    req' = [req EXCEPT ![r] = [op |-> req[r].op, pc |-> pc, at |-> at, left |-> left]]
Goto(r, pc, at) == Step(r, pc, at, req[r].left)
Return(r) == req' = [req EXCEPT ![r] = Idle]

(* getOrCreateDefaultEnvironment takes the first project of all there are, *)
(* or makes one, and its first environment, or makes that.  Slugs are      *)
(* unique, so of two uploads that both want to make it one gives up.       *)
BeginDropzone(r) ==
    IF Of("project") = {} THEN Begin(r, "dropzone", "project", None, {})
    ELSE \E p \in Of("project") : Begin(r, "dropzone", "environment", p, {})

DefaultProject(r) ==
    /\ At(r, "dropzone", "project")
    /\ \/ /\ DefaultProjects = {} /\ default' = New
          /\ Insert(Child("project", None)) /\ Goto(r, "environment", New)
       \/ /\ DefaultProjects # {} /\ Return(r)
          /\ UNCHANGED <<rows, default, used, sources, escaped>>
    /\ UNCHANGED <<sources, changes>>

DefaultEnvironment(r) ==
    /\ At(r, "dropzone", "environment")
    /\ LET there == {e \in Of("environment") : rows[e].parent = req[r].at}
       IN  \/ /\ there # {} /\ UNCHANGED <<rows, used, escaped>>
              /\ \E e \in there : Goto(r, "application", e)
           \/ /\ there = {} /\ Insert(Child("environment", req[r].at))
              /\ Goto(r, "application", New)
    /\ UNCHANGED <<default, sources, changes>>

(* A template is deployed to an environment its form names.                *)
BeginTemplate(r, e) == e \in Of("environment") /\ Begin(r, "template", "application", e, {})

(* Clone reads the application, and its variables after the new row.       *)
BeginClone(r, e, i) ==
    /\ e \in Of("environment") /\ i \in Of("application")
    /\ Begin(r, "clone", "application", e, {i})

InsertApplication(r) ==
    /\ req[r] # Idle /\ req[r].pc = "application"
    /\ Insert(Child("application", req[r].at))
    /\ Step(r, IF req[r].op = "dropzone" THEN "unpack" ELSE "variables", New,
               Children(req[r].left) \intersect Of("variable"))
    /\ UNCHANGED <<default, sources, changes>>

(* extractZipArchive writes the files of the archive one by one and gives  *)
(* up at the first error, what it has written in place.                    *)
ExtractZipArchive(r) ==
    /\ At(r, "dropzone", "unpack")
    /\ \/ sources' = [sources EXCEPT ![req[r].at] = "whole"] /\ Goto(r, "deployment", req[r].at)
       \/ sources' = [sources EXCEPT ![req[r].at] = "partial"] /\ Return(r)
    /\ UNCHANGED <<rows, default, used, changes, escaped>>

(* Variables are copied one by one; a clone gives up at the first error,   *)
(* with the application and the variables so far in place.                 *)
CopyVariable(r) ==
    /\ At(r, "clone", "variables")
    /\ \E v \in req[r].left :
        /\ Insert(Child("variable", req[r].at))
        /\ Step(r, "variables", req[r].at, req[r].left \ {v})
    /\ UNCHANGED <<default, sources, changes>>

TemplateVariable(r) ==
    /\ At(r, "template", "variables")
    /\ Insert(Child("variable", req[r].at))
    /\ Goto(r, "deployment", req[r].at)
    /\ UNCHANGED <<default, sources, changes>>

(* Template and dropzone end with the row of a deployment.                 *)
InsertDeployment(r) ==
    /\ req[r] # Idle /\ req[r].op # "clone" /\ req[r].pc = "deployment"
    /\ Insert(Child("deployment", req[r].at)) /\ Return(r)
    /\ UNCHANGED <<default, sources, changes>>

(* The clone is complete, or a statement fails, the browser leaves, the    *)
(* process crashes; an error with a template's variables is dropped.       *)
Leave(r) ==
    /\ req[r] # Idle
    /\ IF At(r, "template", "variables") THEN Goto(r, "deployment", req[r].at) ELSE Return(r)
    /\ UNCHANGED <<rows, default, used, sources, changes, escaped>>

Next ==
    \/ ProjectsCreate \/ TeamsCreate \/ ServersCreate
    \/ \E e \in Used, server \in Used \union {None} : CreateApplication(e, server)
    \/ \E i \in Used :
        \/ CreateCompose(i) \/ CreateEnvVar(i)
        \/ CreateCronJob(i) \/ Deploy(i) \/ TeamsAddMember(i)
        \/ ProjectsDelete(i) \/ DeleteEnvVar(i)
        \/ DeleteCronJob(i) \/ TeamsRemoveMember(i) \/ DeleteServer(i)
    \/ \E i, e \in Used : Move(i, e)
    \/ \E r \in Requests :
        \/ BeginDropzone(r) \/ Leave(r)
        \/ \E e \in Used : BeginTemplate(r, e)
        \/ \E e, i \in Used : BeginClone(r, e, i)
        \/ DefaultProject(r) \/ DefaultEnvironment(r)
        \/ InsertApplication(r) \/ ExtractZipArchive(r) \/ CopyVariable(r)
        \/ TemplateVariable(r) \/ InsertDeployment(r)

Spec == Init /\ [][Next]_vars
----------------------------------------------------------------------------
(* The type of the state.                                                  *)
TypeOK ==
    /\ rows \in [Ids -> Row \union {None}]
    /\ default \in Ids \union {None} /\ used \in 0..MaxRows
    /\ sources \in [Ids -> Sources]
    /\ req \in [Requests -> Request]
    /\ changes \in Nat
    /\ escaped \in BOOLEAN

(* However deletions meet the requests that write row after row, the       *)
(* parent and the server of every row are there - as long as every         *)
(* statement ran on the connection that has foreign keys on.               *)
RowsHang == escaped \/ \A i \in Ids : rows[i] # None => Holds(rows[i])
=============================================================================
