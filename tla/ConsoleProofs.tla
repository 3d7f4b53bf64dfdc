---------------------------- MODULE ConsoleProofs --------------------------
(***************************************************************************)
(* Proofs about the components of Console, for any number of rows, users,  *)
(* requests, jobs, goroutines, processes and restores.  The rows: as long  *)
(* as every statement is held to the foreign keys, no row outlives what it *)
(* hangs on.  The accounts: lock-out, session cap and first registration,  *)
(* and which sessions a login throws out.  The runner: an outcome the hub  *)
(* has heard stands.  The file: its migrations, its catalogue, and the copy*)
(* that a restore leaves.                                                  *)
(***************************************************************************)
EXTENDS Console, Sequences, FiniteSetTheorems, NaturalsInduction, WellFoundedInduction, TLAPS

Leaves == DOMAIN ParentKind

(* A row hangs on one of the kind its own belongs under; with three levels *)
(* under a project a DELETE that cascades twice more reaches all of them.  *)
LinkedRow(i) ==
    /\ rows[i].kind \in Roots => rows[i].parent = None
    /\ rows[i].kind \in Leaves =>
          /\ rows[i].parent \in Ids /\ rows[rows[i].parent] # None
          /\ rows[rows[i].parent].kind = ParentKind[rows[i].kind]
    /\ rows[i].server # None =>
          /\ rows[i].server \in Ids /\ rows[rows[i].server] # None
          /\ rows[rows[i].server].kind = "server"

Linked == escaped \/ \A i \in Ids : rows[i] # None => LinkedRow(i)

(* What a request in its middle is about to hang the next row on is of the *)
(* right kind, if it is still there.                                       *)
Aim == [environment |-> "project", application |-> "environment", unpack |-> "application",
        variables |-> "application", deployment |-> "application"]

AimOK(r) ==
    /\ req[r].pc \in DOMAIN Aim /\ req[r].at \in Used
    /\ rows[req[r].at] # None => rows[req[r].at].kind = Aim[req[r].pc]

Aims == \A r \in Requests : req[r] # Idle /\ req[r].pc # "project" => AimOK(r)

LinkTypes ==
    /\ rows \in [Ids -> Row \union {None}]
    /\ used \in 0..MaxRows
    /\ req \in [Requests -> Request]
    /\ \A i \in Ids : rows[i] # None => i <= used

LinkInv == LinkTypes /\ Linked /\ Aims

-----------------------------------------------------------------------------
(* What an INSERT may hang a row on.                                       *)
Fits(kind, p, s) ==
    /\ kind \in Roots => p = None
    /\ kind \in Leaves => p \in Ids /\ (rows[p] # None => rows[p].kind = ParentKind[kind])
    /\ s # None => s \in Ids /\ (rows[s] # None => rows[s].kind = "server")

LEMMA InsertStep ==
    ASSUME WorkspaceAssumption, LinkInv, NEW n, n = New,
           NEW kind \in Kinds, NEW p \in Ids \union {None}, NEW s \in Ids \union {None},
           Fits(kind, p, s), Insert([kind |-> kind, parent |-> p, server |-> s])
    PROVE  /\ rows' \in [Ids -> Row \union {None}] /\ used' \in 0..MaxRows
           /\ \A i \in Ids : rows'[i] # None => i <= used'
           /\ n \in Ids /\ used' = n /\ used < n
           /\ \A i \in Ids : i # n => rows'[i] = rows[i]
           /\ rows'[n] # None => rows'[n].kind = kind
           /\ Linked'
<1> USE DEF LinkInv, LinkTypes
<1> DEFINE row == [kind |-> kind, parent |-> p, server |-> s]
<1>1. /\ used < MaxRows /\ used' = n /\ rows' = [rows EXCEPT ![n] = row]
      /\ Enforced(Holds(row))
  BY DEF Insert
<1>2. n \in Ids /\ used < n /\ used' \in 0..MaxRows
  BY <1>1 DEF New, Ids, WorkspaceAssumption
<1>3. row \in Row
  BY DEF Row
<1>4. rows' \in [Ids -> Row \union {None}]
  BY <1>1, <1>2, <1>3
<1>5. rows'[n] = row /\ \A i \in Ids : i # n => rows'[i] = rows[i]
  BY <1>1, <1>2
<1>8. \A i \in Ids : rows'[i] # None => i <= used'
  BY <1>1, <1>2, <1>5 DEF Ids
<1>6. ASSUME ~ escaped'
      PROVE  \A i \in Ids : rows'[i] # None => LinkedRow(i)'
  <2>1. /\ ~ escaped /\ \A q \in {p, s} \ {None} : rows[q] # None
    BY <1>1, <1>6 DEF Enforced, Holds
  <2>2. \A i \in Ids : rows[i] # None => LinkedRow(i)
    BY <2>1 DEF Linked
  <2>3. \A i \in Ids : rows[i] # None => i # n
    BY <1>2 DEF Ids
  <2>4. \A i \in Ids : i # n /\ rows'[i] # None => LinkedRow(i)'
    BY <1>1, <1>2, <1>5, <2>2, <2>3 DEF LinkedRow, Ids
  <2>5. LinkedRow(n)'
    <3>1. p # None => p \in Ids /\ rows[p] # None /\ p # n
      BY <2>1, <2>3
    <3>2. s # None => s \in Ids /\ rows[s] # None /\ s # n
      BY <2>1, <2>3
    <3>3. None \notin Ids
      BY DEF WorkspaceAssumption, Ids
    <3>4. rows'[n].kind = kind /\ rows'[n].parent = p /\ rows'[n].server = s
      BY <1>5
    <3>5. /\ kind \in Leaves => rows'[p] = rows[p]
          /\ s # None => rows'[s] = rows[s]
      BY <1>5, <3>1, <3>2, <3>3 DEF Fits
    <3>6. used' = n /\ n <= n
      BY <1>1, <1>2 DEF Ids
    <3>7. QED
      BY <3>1, <3>2, <3>3, <3>4, <3>5, <3>6 DEF LinkedRow, Fits
  <2>6. QED
    BY <2>4, <2>5
<1>7. QED
  BY <1>1, <1>2, <1>4, <1>5, <1>6, <1>8 DEF Linked

-----------------------------------------------------------------------------
(* The tree of kinds, kind by kind.                                        *)
LEMMA KindsByName ==
    /\ Leaves = {"environment", "application", "compose", "variable", "deployment",
                 "cron", "member"}
    /\ Kinds = Roots \union Leaves
    /\ \A k \in Leaves :
        /\ ParentKind[k] = "project" => k \in {"environment"}
        /\ ParentKind[k] = "environment" => k \in {"application", "compose"}
        /\ ParentKind[k] = "application" => k \in {"variable", "deployment", "cron"}
        /\ ParentKind[k] = "team" => k = "member"
        /\ ParentKind[k] \in {"project", "environment", "application", "team"}
BY DEF Leaves, Kinds, Roots, ParentKind

-----------------------------------------------------------------------------
(* A row of a project, or of what hangs on one, that is deleted takes      *)
(* along all that hangs on it: nothing is more than three levels down.     *)
LEMMA DownIsClosed ==
    ASSUME WorkspaceAssumption, LinkTypes, \A i \in Ids : rows[i] # None => LinkedRow(i),
           NEW i \in Ids, rows[i] # None,
           NEW j \in Ids, rows[j] # None, rows[j].parent \in Down(i)
    PROVE  j \in Down(i)
<1> USE DEF LinkTypes
<1> DEFINE c == {i} \union Children({i})
           d == c \union Children(c)
<1>1. Down(i) = d \union Children(d)
  BY DEF Down
<1>2. CASE rows[j].parent \in d
  BY <1>1, <1>2 DEF Children
<1>3. CASE rows[j].parent \notin d
  <2>1. PICK k \in Ids : rows[k] # None /\ k = rows[j].parent /\ rows[k].parent \in d
    BY <1>1, <1>3 DEF Children
  <2>2. CASE rows[k].parent \in c
    BY <1>3, <2>1, <2>2 DEF Children
  <2>3. CASE rows[k].parent \notin c
    <3>1. PICK l \in Ids : rows[l] # None /\ l = rows[k].parent /\ rows[l].parent \in c
      BY <2>1, <2>3 DEF Children
    <3>2. rows[l].parent # i
      BY <2>3, <3>1 DEF Children
    <3>3. PICK h \in Ids : rows[h] # None /\ h = rows[l].parent /\ rows[h].parent = i
      BY <3>1, <3>2 DEF Children
    <3>4. None \notin Ids
      BY DEF WorkspaceAssumption, Ids
    <3>5. /\ LinkedRow(j) /\ LinkedRow(k) /\ LinkedRow(l) /\ LinkedRow(h)
          /\ rows[j] \in Row /\ rows[k] \in Row /\ rows[l] \in Row /\ rows[h] \in Row
      BY <2>1, <3>1, <3>3
    <3>6. ASSUME NEW x \in Ids, rows[x] # None, LinkedRow(x), rows[x].parent \in Ids
          PROVE  rows[x].kind \in Leaves
      BY <3>4, <3>6, KindsByName DEF LinkedRow, Row
    <3>7. /\ rows[j].kind \in Leaves /\ ParentKind[rows[j].kind] = rows[k].kind
          /\ rows[k].kind \in Leaves /\ ParentKind[rows[k].kind] = rows[l].kind
          /\ rows[l].kind \in Leaves /\ ParentKind[rows[l].kind] = rows[h].kind
          /\ rows[h].kind \in Leaves
      BY <2>1, <3>1, <3>3, <3>5, <3>6 DEF LinkedRow
    <3>8. rows[k].kind \in {"environment", "application"}
      BY <3>7, KindsByName
    <3>9. rows[l].kind = "environment"
      BY <3>7, <3>8, KindsByName
    <3>10. rows[h].kind = "project"
      BY <3>7, <3>9, KindsByName
    <3>11. QED
      BY <3>7, <3>10, KindsByName
  <2>4. QED
    BY <2>2, <2>3
<1>4. QED
  BY <1>2, <1>3

-----------------------------------------------------------------------------
(* What requests aim at stays what it is: rows go or change their parent,  *)
(* but never their kind.                                                   *)
LEMMA AimsStep ==
    ASSUME LinkInv, used' \in Nat, used <= used',
           \A i \in Used : rows'[i] # None => rows[i] # None /\ rows'[i].kind = rows[i].kind,
           \A q \in Requests :
              \/ req'[q] = req[q]
              \/ req'[q] # Idle /\ req'[q].pc # "project" => AimOK(q)'
    PROVE  Aims'
<1> SUFFICES ASSUME NEW q \in Requests, req'[q] # Idle, req'[q].pc # "project",
                    req'[q] = req[q]
             PROVE  AimOK(q)'
  BY DEF Aims
<1>1. AimOK(q)
  BY DEF LinkInv, Aims
<1>2. req[q].at \in Used' /\ req[q].at \in Used
  BY <1>1 DEF AimOK, Used, LinkInv, LinkTypes
<1>3. QED
  BY <1>1, <1>2 DEF AimOK

(* A row inserted by a request that is then done, or by none.              *)
LEMMA InsertAlone ==
    ASSUME WorkspaceAssumption, LinkInv,
           NEW kind \in Kinds, NEW p \in Ids \union {None}, NEW s \in Ids \union {None},
           Fits(kind, p, s), Insert([kind |-> kind, parent |-> p, server |-> s]),
           \/ UNCHANGED req
           \/ \E r \in Requests : Return(r)
    PROVE  LinkInv'
<1>1. PICK n : n = New
  OBVIOUS
<1>2. /\ rows' \in [Ids -> Row \union {None}] /\ used' \in 0..MaxRows
      /\ \A i \in Ids : rows'[i] # None => i <= used'
      /\ n \in Ids /\ used' = n /\ used < n
      /\ \A i \in Ids : i # n => rows'[i] = rows[i]
      /\ Linked'
  BY <1>1, InsertStep
<1>3. req' \in [Requests -> Request]
  BY DEF Return, LinkInv, LinkTypes, Request
<1>4. \A q \in Requests : req'[q] = req[q] \/ req'[q] = Idle
  BY DEF Return, LinkInv, LinkTypes
<1>5. \A i \in Used : i \in Ids /\ i # n
  BY <1>2 DEF Used, Ids, LinkInv, LinkTypes, WorkspaceAssumption
<1>6. used' \in Nat /\ used <= used'
  BY <1>2 DEF LinkInv, LinkTypes, WorkspaceAssumption, Ids
<1>7. Aims'
  BY <1>2, <1>4, <1>5, <1>6, AimsStep
<1>8. QED
  BY <1>2, <1>3, <1>7 DEF LinkInv, LinkTypes

(* A row inserted by a request that goes on.                               *)
LEMMA InsertAndGo ==
    ASSUME WorkspaceAssumption, LinkInv, NEW n, n = New,
           NEW kind \in Kinds, NEW p \in Ids \union {None},
           Fits(kind, p, None), Insert(Child(kind, p)),
           NEW r \in Requests, NEW pc \in Pcs, NEW at, NEW left \in SUBSET Ids,
           req[r] # Idle, Step(r, pc, at, left),
           pc \in DOMAIN Aim,
           \/ at = n /\ Aim[pc] = kind
           \/ at \in Used /\ (rows[at] # None => rows[at].kind = Aim[pc])
    PROVE  LinkInv'
<1>1. Insert([kind |-> kind, parent |-> p, server |-> None])
  BY DEF Child
<1>2. /\ rows' \in [Ids -> Row \union {None}] /\ used' \in 0..MaxRows
      /\ \A i \in Ids : rows'[i] # None => i <= used'
      /\ n \in Ids /\ used' = n /\ used < n
      /\ \A i \in Ids : i # n => rows'[i] = rows[i]
      /\ rows'[n] # None => rows'[n].kind = kind
      /\ Linked'
  BY <1>1, InsertStep
<1>3. used \in Nat /\ used' \in Nat /\ used <= used' /\ n \in Used'
  BY <1>2 DEF LinkInv, LinkTypes, WorkspaceAssumption, Ids, Used
<1>4. \A i \in Used : i \in Ids /\ i # n /\ i \in Used'
  BY <1>2, <1>3 DEF Used, Ids, LinkInv, LinkTypes, WorkspaceAssumption
<1>5. at \in Ids /\ at \in Used' /\ (rows'[at] # None => rows'[at].kind = Aim[pc])
  BY <1>2, <1>3, <1>4
<1>6. req[r].op \in {"dropzone", "template", "clone"}
  BY DEF LinkInv, LinkTypes, Request
<1>7. /\ req' \in [Requests -> Request]
      /\ req'[r].pc = pc /\ req'[r].at = at
      /\ \A q \in Requests \ {r} : req'[q] = req[q]
  BY <1>5, <1>6 DEF Step, LinkInv, LinkTypes, Request
<1>8. AimOK(r)'
  BY <1>5, <1>7 DEF AimOK
<1>9. Aims'
  BY <1>2, <1>3, <1>4, <1>7, <1>8, AimsStep
<1>10. QED
  BY <1>2, <1>7, <1>9 DEF LinkInv, LinkTypes

(* A request goes on, or comes to its end, without a statement.            *)
LEMMA GoStep ==
    ASSUME WorkspaceAssumption, LinkInv, UNCHANGED <<rows, used, escaped>>,
           NEW r \in Requests, NEW v \in Request, req' = [req EXCEPT ![r] = v],
           v # Idle /\ v.pc # "project" =>
              /\ v.pc \in DOMAIN Aim /\ v.at \in Used
              /\ rows[v.at] # None => rows[v.at].kind = Aim[v.pc]
    PROVE  LinkInv'
<1>1. /\ req' \in [Requests -> Request] /\ req'[r] = v
      /\ \A q \in Requests \ {r} : req'[q] = req[q]
  BY DEF LinkInv, LinkTypes
<1>2. used \in Nat /\ used <= used
  BY DEF LinkInv, LinkTypes, WorkspaceAssumption
<1>3. v # Idle /\ v.pc # "project" => AimOK(r)'
  BY <1>1 DEF AimOK, Used
<1>4. Aims'
  BY <1>1, <1>2, <1>3, AimsStep
<1>5. QED
  BY <1>1, <1>4 DEF LinkInv, LinkTypes, Linked, LinkedRow

-----------------------------------------------------------------------------
(* A statement that changes or deletes rows and serves no request's middle.*)
LEMMA ChangeStep ==
    ASSUME WorkspaceAssumption, LinkInv, UNCHANGED <<used, req>>,
           rows' \in [Ids -> Row \union {None}],
           \A i \in Ids : rows'[i] # None => rows[i] # None /\ rows'[i].kind = rows[i].kind,
           ~ escaped' => \A i \in Ids : rows'[i] # None => LinkedRow(i)'
    PROVE  LinkInv'
<1>1. used \in Nat /\ used <= used /\ Used \subseteq Ids
  BY DEF LinkInv, LinkTypes, WorkspaceAssumption, Used, Ids
<1>2. Aims'
  BY <1>1, AimsStep
<1>3. QED
  BY <1>2 DEF LinkInv, LinkTypes, Linked

(* A server hangs on nothing, so no cascade reaches one.                   *)
LEMMA ServersStay ==
    ASSUME WorkspaceAssumption, LinkTypes, \A i \in Ids : rows[i] # None => LinkedRow(i),
           NEW i \in Ids, rows[i] # None, rows[i].kind # "server",
           NEW s \in Ids, rows[s] # None, rows[s].kind = "server"
    PROVE  s \notin Down(i)
<1>1. rows[s].parent = None /\ None \notin Ids
  BY DEF LinkedRow, Roots, WorkspaceAssumption, Ids
<1>2. \A S \in SUBSET Ids : s \notin Children(S)
  BY <1>1 DEF Children
<1>3. \A S \in SUBSET Ids : Children(S) \in SUBSET Ids
  BY DEF Children
<1>4. i # s
  OBVIOUS
<1>5. QED
  BY <1>2, <1>3, <1>4 DEF Down

LEMMA DeleteKeeps ==
    ASSUME WorkspaceAssumption, LinkInv, NEW kind \in Kinds \ {"server"}, NEW i \in Ids,
           Delete(kind, i)
    PROVE  LinkInv'
<1>1. rows[i] # None /\ rows[i].kind = kind /\ UNCHANGED <<used, req>>
  BY DEF Delete, Of
<1>2. CASE /\ UNCHANGED escaped
           /\ rows' = [j \in Ids |-> IF j \in Down(i) THEN None ELSE rows[j]]
  <2>1. /\ rows' \in [Ids -> Row \union {None}]
        /\ \A j \in Ids : rows'[j] # None => rows'[j] = rows[j] /\ j \notin Down(i)
        /\ \A j \in Ids : j \notin Down(i) => rows'[j] = rows[j]
    BY <1>2 DEF LinkInv, LinkTypes
  <2>2. ASSUME ~ escaped', NEW j \in Ids, rows'[j] # None
        PROVE  LinkedRow(j)'
    <3>1. \A k \in Ids : rows[k] # None => LinkedRow(k)
      BY <1>2, <2>2 DEF LinkInv, Linked
    <3>2. rows'[j] = rows[j] /\ rows[j] # None /\ LinkedRow(j)
      BY <2>1, <2>2, <3>1
    <3>3. rows[j].kind \in Leaves => rows'[rows[j].parent] = rows[rows[j].parent]
      BY <1>1, <2>1, <2>2, <3>1, <3>2, DownIsClosed DEF LinkedRow, LinkInv
    <3>4. rows[j].server # None => rows'[rows[j].server] = rows[rows[j].server]
      BY <1>1, <2>1, <3>1, <3>2, ServersStay DEF LinkedRow, LinkInv
    <3>5. QED
      BY <3>2, <3>3, <3>4 DEF LinkedRow
  <2>3. QED
    BY <1>1, <2>1, <2>2, ChangeStep
<1>3. CASE escaped' = TRUE /\ rows' = [rows EXCEPT ![i] = None]
  <2>1. /\ rows' \in [Ids -> Row \union {None}]
        /\ \A j \in Ids : rows'[j] # None => rows'[j] = rows[j]
    BY <1>3 DEF LinkInv, LinkTypes
  <2>2. QED
    BY <1>1, <1>3, <2>1, ChangeStep
<1>4. QED
  BY <1>2, <1>3 DEF Delete

LEMMA DeleteServerKeeps ==
    ASSUME WorkspaceAssumption, LinkInv, NEW i \in Ids, DeleteServer(i)
    PROVE  LinkInv'
<1>1. /\ rows[i] # None /\ rows[i].kind = "server" /\ UNCHANGED <<used, req>>
      /\ rows' = [rows EXCEPT ![i] = None] /\ Enforced(Referring(i) = {})
  BY DEF DeleteServer, Of
<1>2. /\ rows' \in [Ids -> Row \union {None}]
      /\ \A j \in Ids : rows'[j] # None => rows'[j] = rows[j] /\ j # i
      /\ \A j \in Ids : j # i => rows'[j] = rows[j]
  BY <1>1 DEF LinkInv, LinkTypes
<1>3. ASSUME ~ escaped', NEW j \in Ids, rows'[j] # None
      PROVE  LinkedRow(j)'
  <2>1. /\ \A k \in Ids : rows[k] # None => LinkedRow(k) /\ rows[k].server # i
    BY <1>1, <1>3 DEF LinkInv, Linked, Enforced, Referring
  <2>2. rows'[j] = rows[j] /\ LinkedRow(j) /\ rows[j].server # i
    BY <1>2, <1>3, <2>1
  <2>3. rows[j].kind \in Leaves => rows[j].parent # i
    BY <1>1, <2>2, KindsByName DEF LinkedRow
  <2>4. QED
    BY <1>2, <2>2, <2>3 DEF LinkedRow
<1>4. QED
  BY <1>1, <1>2, <1>3, ChangeStep

LEMMA RowMoveKeeps ==
    ASSUME WorkspaceAssumption, LinkInv, NEW i \in Ids, NEW e \in Used, Move(i, e)
    PROVE  LinkInv'
<1> DEFINE row == [kind |-> "application", parent |-> e, server |-> rows[i].server]
<1>1. /\ rows[i] # None /\ rows[i].kind = "application" /\ UNCHANGED <<used, req>>
      /\ rows' = [rows EXCEPT ![i] = row] /\ Enforced(rows[e] # None)
      /\ rows[e] # None => rows[e].kind = "environment"
  BY DEF Move, Of, GoneOr, Gone
<1>2. e \in Ids /\ "application" \in Kinds /\ rows[i] \in Row
  BY <1>1, KindsByName DEF LinkInv, LinkTypes, WorkspaceAssumption, Used, Ids
<1>3. row \in Row
  BY <1>2 DEF Row
<1>4. /\ rows' \in [Ids -> Row \union {None}] /\ rows'[i] = row
      /\ \A j \in Ids : j # i => rows'[j] = rows[j]
      /\ row.kind = "application" /\ row.parent = e /\ row.server = rows[i].server
  BY <1>1, <1>3 DEF LinkInv, LinkTypes
<1> HIDE DEF row
<1>5. \A j \in Ids : rows'[j] # None => rows[j] # None /\ rows'[j].kind = rows[j].kind
  BY <1>1, <1>4
<1>6. \A j \in Ids : rows[j] # None => rows'[j] # None /\ rows'[j].kind = rows[j].kind
  BY <1>1, <1>3, <1>4 DEF Row, WorkspaceAssumption
<1>7. ASSUME ~ escaped', NEW j \in Ids, rows'[j] # None
      PROVE  LinkedRow(j)'
  <2>1. rows[e] # None /\ \A k \in Ids : rows[k] # None => LinkedRow(k)
    BY <1>1, <1>7 DEF LinkInv, Linked, Enforced
  <2>2. CASE j # i
    BY <1>4, <1>5, <1>6, <1>7, <2>1, <2>2 DEF LinkedRow
  <2>3. CASE j = i
    <3>1. LinkedRow(i)
      BY <1>1, <2>1
    <3>2. rows'[e] # None /\ rows'[e].kind = ParentKind["application"]
      BY <1>1, <1>2, <1>6, <2>1 DEF ParentKind
    <3>3. QED
      BY <1>2, <1>4, <1>6, <2>3, <3>1, <3>2 DEF LinkedRow, Roots
  <2>4. QED
    BY <2>2, <2>3
<1>8. QED
  BY <1>1, <1>4, <1>5, <1>7, ChangeStep

-----------------------------------------------------------------------------
(* What a form names is gone or of the kind the page is about.             *)
LEMMA FormFits ==
    ASSUME WorkspaceAssumption, LinkInv, NEW kind \in Leaves, NEW p \in Used,
           GoneOr(ParentKind[kind], p)
    PROVE  kind \in Kinds /\ p \in Ids /\ Fits(kind, p, None)
BY KindsByName DEF GoneOr, Gone, Of, Fits, LinkInv, LinkTypes, Used, Ids, WorkspaceAssumption, Roots

LEMMA RowCreateKeeps ==
    ASSUME WorkspaceAssumption, LinkInv,
           \/ ProjectsCreate \/ TeamsCreate \/ ServersCreate
           \/ \E e \in Used, server \in Used \union {None} : CreateApplication(e, server)
           \/ \E i \in Used :
               \/ CreateCompose(i) \/ CreateEnvVar(i)
               \/ CreateCronJob(i) \/ Deploy(i) \/ TeamsAddMember(i)
    PROVE  LinkInv'
<1>1. ASSUME NEW kind \in Roots, CreateRoot(kind)
      PROVE  LinkInv'
  <2>1. kind \in Kinds /\ Fits(kind, None, None)
    BY KindsByName DEF Fits, Roots
  <2>2. Insert([kind |-> kind, parent |-> None, server |-> None]) /\ UNCHANGED req
    BY <1>1 DEF CreateRoot, Child
  <2>3. QED
    BY <2>1, <2>2, InsertAlone
<1>2. ASSUME NEW kind \in Leaves, NEW i \in Used, CreateChild(kind, i)
      PROVE  LinkInv'
  <2>1. kind \in Kinds /\ i \in Ids /\ Fits(kind, i, None)
    BY <1>2, FormFits DEF CreateChild
  <2>2. Insert([kind |-> kind, parent |-> i, server |-> None]) /\ UNCHANGED req
    BY <1>2 DEF CreateChild, Child
  <2>3. QED
    BY <2>1, <2>2, InsertAlone
<1>3. ASSUME NEW e \in Used, NEW server \in Used \union {None}, CreateApplication(e, server)
      PROVE  LinkInv'
  <2>1. /\ GoneOr("environment", e) /\ server \in {None} \union Of("server") /\ UNCHANGED req
        /\ Insert([kind |-> "application", parent |-> e, server |-> server])
    BY <1>3 DEF CreateApplication
  <2>2. "application" \in Leaves /\ ParentKind["application"] = "environment"
    BY KindsByName DEF ParentKind
  <2>3. "application" \in Kinds /\ e \in Ids /\ Fits("application", e, None)
    BY <2>1, <2>2, FormFits
  <2>4. server \in Ids \union {None} /\ Fits("application", e, server)
    BY <2>1, <2>3 DEF Fits, Of
  <2>5. QED
    BY <2>1, <2>3, <2>4, InsertAlone
<1>4. QED
  BY <1>1, <1>2, <1>3, KindsByName
  DEF ProjectsCreate, TeamsCreate, ServersCreate, CreateCompose,
      CreateEnvVar, CreateCronJob, Deploy, TeamsAddMember, Roots

LEMMA DeletionKeeps ==
    ASSUME WorkspaceAssumption, LinkInv, NEW i \in Used,
           \/ ProjectsDelete(i) \/ DeleteEnvVar(i)
           \/ DeleteCronJob(i) \/ TeamsRemoveMember(i) \/ DeleteServer(i)
    PROVE  LinkInv'
<1>1. i \in Ids
  BY DEF LinkInv, LinkTypes, Used, Ids, WorkspaceAssumption
<1>2. {"project", "variable", "cron", "member"} \subseteq Kinds \ {"server"}
  BY KindsByName DEF Roots
<1>3. CASE DeleteServer(i)
  BY <1>1, <1>3, DeleteServerKeeps
<1>4. CASE \E kind \in {"project", "variable", "cron", "member"} : Delete(kind, i)
  BY <1>1, <1>2, <1>4, DeleteKeeps
<1>5. QED
  BY <1>3, <1>4
  DEF ProjectsDelete, DeleteEnvVar, DeleteCronJob, TeamsRemoveMember

-----------------------------------------------------------------------------
LEMMA BeginKeeps ==
    ASSUME WorkspaceAssumption, LinkInv, NEW r \in Requests,
           \/ BeginDropzone(r)
           \/ \E e \in Used : BeginTemplate(r, e)
           \/ \E e, i \in Used : BeginClone(r, e, i)
    PROVE  LinkInv'
<1>1. ASSUME NEW op \in {"dropzone", "template", "clone"}, NEW pc \in Pcs,
             NEW at \in Ids \union {None}, NEW left \in SUBSET Ids, Begin(r, op, pc, at, left),
             \/ pc = "project"
             \/ pc \in DOMAIN Aim /\ at \in Of(Aim[pc])
      PROVE  LinkInv'
  <2> DEFINE v == [op |-> op, pc |-> pc, at |-> at, left |-> left]
  <2>1. /\ UNCHANGED <<rows, used, escaped>> /\ req' = [req EXCEPT ![r] = v]
    BY <1>1 DEF Begin
  <2>2. v \in Request /\ v.pc = pc /\ v.at = at
    BY DEF Request
  <2>3. at \in Of(Aim[pc]) => at \in Used /\ rows[at].kind = Aim[pc]
    BY DEF Of, LinkInv, LinkTypes, Used, Ids, WorkspaceAssumption
  <2> HIDE DEF v
  <2>4. QED
    BY <1>1, <2>1, <2>2, <2>3, GoStep
<1>2. /\ {"project", "environment", "application"} \subseteq Pcs /\ {} \in SUBSET Ids
      /\ {"environment", "application"} \subseteq DOMAIN Aim
      /\ Aim["environment"] = "project" /\ Aim["application"] = "environment"
  BY DEF Pcs, Aim
<1>3. \A kind : Of(kind) \subseteq Ids
  BY DEF Of
<1>4. CASE BeginDropzone(r)
  BY <1>1, <1>2, <1>3, <1>4 DEF BeginDropzone
<1>5. ASSUME NEW e \in Used, BeginTemplate(r, e)
      PROVE  LinkInv'
  BY <1>1, <1>2, <1>3, <1>5 DEF BeginTemplate
<1>6. ASSUME NEW e \in Used, NEW i \in Used, BeginClone(r, e, i)
      PROVE  LinkInv'
  <2>1. e \in Ids /\ {i} \in SUBSET Ids
    BY <1>3, <1>6 DEF BeginClone
  <2>2. QED
    BY <1>1, <1>2, <1>6, <2>1 DEF BeginClone
<1>7. QED
  BY <1>4, <1>5, <1>6

LEMMA LeaveKeeps ==
    ASSUME WorkspaceAssumption, LinkInv, NEW r \in Requests, Leave(r)
    PROVE  LinkInv'
<1>1. CASE Return(r)
  <2>1. Idle \in Request
    BY DEF Request
  <2>2. QED
    BY <1>1, <2>1, GoStep DEF Leave, Return
<1>2. CASE At(r, "template", "variables") /\ Goto(r, "deployment", req[r].at)
  <2> DEFINE v == [op |-> req[r].op, pc |-> "deployment", at |-> req[r].at, left |-> req[r].left]
  <2>1. AimOK(r) /\ req[r] # Idle /\ req[r].pc = "variables"
    BY <1>2 DEF At, LinkInv, Aims
  <2>2. v \in Request /\ v.pc = "deployment" /\ v.at = req[r].at
    BY <2>1 DEF Request, LinkInv, LinkTypes, Pcs
  <2>3. v.pc \in DOMAIN Aim /\ Aim[v.pc] = Aim["variables"]
    BY <2>2 DEF Aim
  <2>4. req' = [req EXCEPT ![r] = v] /\ UNCHANGED <<rows, used, escaped>>
    BY <1>2 DEF Goto, Step, Leave
  <2> HIDE DEF v
  <2>5. QED
    BY <2>1, <2>2, <2>3, <2>4, GoStep DEF AimOK
<1>3. QED
  BY <1>1, <1>2 DEF Leave

-----------------------------------------------------------------------------
(* A request in its middle aims at a row that was inserted, or was there   *)
(* when it began.                                                          *)
LEMMA AimFits ==
    ASSUME WorkspaceAssumption, LinkInv, NEW r \in Requests, req[r] # Idle, req[r].pc # "project",
           NEW kind \in Leaves, ParentKind[kind] = Aim[req[r].pc]
    PROVE  /\ AimOK(r) /\ req[r].at \in Used /\ req[r].at \in Ids
           /\ kind \in Kinds /\ Fits(kind, req[r].at, None)
<1>1. AimOK(r)
  BY DEF LinkInv, Aims
<1>2. kind \in Kinds /\ kind \notin Roots
  BY KindsByName DEF Roots
<1>3. req[r].at \in Ids
  BY <1>1 DEF AimOK, LinkInv, LinkTypes, Used, Ids, WorkspaceAssumption
<1>4. QED
  BY <1>1, <1>2, <1>3 DEF AimOK, Fits

LEMMA AimsByName ==
    /\ DOMAIN Aim = {"environment", "application", "unpack", "variables", "deployment"}
    /\ DOMAIN Aim \subseteq Pcs
    /\ Aim["environment"] = ParentKind["environment"]
    /\ Aim["application"] = ParentKind["application"] /\ Aim["application"] = "environment"
    /\ Aim["unpack"] = "application" /\ Aim["variables"] = "application"
    /\ Aim["deployment"] = "application"
    /\ ParentKind["variable"] = "application" /\ ParentKind["deployment"] = "application"
BY DEF Aim, ParentKind, Pcs

LEMMA DefaultProjectKeeps ==
    ASSUME WorkspaceAssumption, LinkInv, NEW r \in Requests, DefaultProject(r)
    PROVE  LinkInv'
<1>1. PICK n : n = New
  OBVIOUS
<1>2. req[r] # Idle /\ {} \in SUBSET Ids /\ req[r] \in Request
  BY DEF DefaultProject, At, LinkInv, LinkTypes
<1>3. CASE Insert(Child("project", None)) /\ Goto(r, "environment", New)
  <2>1. "project" \in Kinds /\ Fits("project", None, None) /\ Aim["environment"] = "project"
    BY KindsByName DEF Fits, Roots, Aim
  <2>2. req[r].left \in SUBSET Ids
    BY <1>2 DEF Request
  <2>3. Step(r, "environment", n, req[r].left)
    BY <1>1, <1>3 DEF Goto
  <2>4. QED
    BY <1>1, <1>2, <1>3, <2>1, <2>2, <2>3, AimsByName, InsertAndGo
<1>4. CASE Return(r) /\ UNCHANGED <<rows, default, used, sources, escaped>>
  <2>1. Idle \in Request
    BY DEF Request
  <2>2. QED
    BY <1>4, <2>1, GoStep DEF Return
<1>5. QED
  BY <1>3, <1>4 DEF DefaultProject

LEMMA DefaultEnvironmentKeeps ==
    ASSUME WorkspaceAssumption, LinkInv, NEW r \in Requests, DefaultEnvironment(r)
    PROVE  LinkInv'
<1>1. PICK n : n = New
  OBVIOUS
<1>2. /\ req[r] # Idle /\ req[r].pc = "environment" /\ req[r] \in Request
      /\ req[r].op = "dropzone" /\ req[r].left \in SUBSET Ids
  BY DEF DefaultEnvironment, At, LinkInv, LinkTypes, Request
<1>3. /\ req[r].at \in Ids /\ "environment" \in Kinds
      /\ Fits("environment", req[r].at, None)
  BY <1>2, AimFits, AimsByName, KindsByName
<1>4. ASSUME NEW e \in Of("environment"), UNCHANGED <<rows, used, escaped>>,
             Goto(r, "application", e)
      PROVE  LinkInv'
  <2> DEFINE v == [op |-> "dropzone", pc |-> "application", at |-> e, left |-> req[r].left]
  <2>1. req' = [req EXCEPT ![r] = v] /\ v.pc = "application" /\ v.at = e
    BY <1>2, <1>4 DEF Goto, Step
  <2>2. e \in Used /\ e \in Ids /\ rows[e].kind = "environment"
    BY DEF Of, LinkInv, LinkTypes, Used, Ids, WorkspaceAssumption
  <2>3. v \in Request
    BY <1>2, <2>2 DEF Request, Pcs
  <2> HIDE DEF v
  <2>4. QED
    BY <1>4, <2>1, <2>2, <2>3, AimsByName, GoStep
<1>5. CASE Insert(Child("environment", req[r].at)) /\ Goto(r, "application", New)
  <2>1. Step(r, "application", n, req[r].left)
    BY <1>1, <1>5 DEF Goto
  <2>2. QED
    BY <1>1, <1>2, <1>3, <1>5, <2>1, AimsByName, InsertAndGo
<1>6. QED
  BY <1>4, <1>5 DEF DefaultEnvironment

LEMMA InsertApplicationKeeps ==
    ASSUME WorkspaceAssumption, LinkInv, NEW r \in Requests, InsertApplication(r)
    PROVE  LinkInv'
<1>1. PICK n : n = New
  OBVIOUS
<1>2. PICK pc, left :
         /\ pc = IF req[r].op = "dropzone" THEN "unpack" ELSE "variables"
         /\ left = Children(req[r].left) \intersect Of("variable")
  OBVIOUS
<1>3. /\ req[r] # Idle /\ req[r].pc = "application"
      /\ Insert(Child("application", req[r].at)) /\ Step(r, pc, n, left)
  BY <1>1, <1>2 DEF InsertApplication
<1>4. pc \in {"unpack", "variables"} /\ left \in SUBSET Ids
  BY <1>2 DEF Of
<1>5. pc \in Pcs /\ pc \in DOMAIN Aim /\ Aim[pc] = "application"
  BY <1>4, AimsByName
<1>6. /\ req[r].at \in Ids /\ "application" \in Kinds
      /\ Fits("application", req[r].at, None)
  BY <1>3, AimFits, AimsByName, KindsByName
<1>7. QED
  BY <1>1, <1>3, <1>4, <1>5, <1>6, InsertAndGo

LEMMA VariableKeeps ==
    ASSUME WorkspaceAssumption, LinkInv, NEW r \in Requests,
           CopyVariable(r) \/ TemplateVariable(r)
    PROVE  LinkInv'
<1>1. PICK n : n = New
  OBVIOUS
<1>2. /\ req[r] # Idle /\ req[r].pc = "variables" /\ req[r].left \in SUBSET Ids
  BY DEF CopyVariable, TemplateVariable, At, LinkInv, LinkTypes, Request
<1>3. /\ req[r].at \in Ids /\ req[r].at \in Used /\ "variable" \in Kinds
      /\ Fits("variable", req[r].at, None)
      /\ rows[req[r].at] # None => rows[req[r].at].kind = "application"
  BY <1>2, AimFits, AimsByName, KindsByName DEF AimOK
<1>4. PICK pc \in {"variables", "deployment"}, left \in SUBSET Ids :
         Step(r, pc, req[r].at, left) /\ Insert(Child("variable", req[r].at))
  <2>1. CASE CopyVariable(r)
    <3>1. PICK v \in req[r].left :
             /\ Insert(Child("variable", req[r].at))
             /\ Step(r, "variables", req[r].at, req[r].left \ {v})
      BY <2>1 DEF CopyVariable
    <3>2. req[r].left \ {v} \in SUBSET Ids
      BY <1>2
    <3>3. QED
      BY <3>1, <3>2
  <2>2. CASE TemplateVariable(r)
    BY <1>2, <2>2 DEF TemplateVariable, Goto
  <2>3. QED
    BY <2>1, <2>2
<1>5. pc \in Pcs /\ pc \in DOMAIN Aim /\ Aim[pc] = "application"
  BY AimsByName
<1>6. QED
  BY <1>1, <1>2, <1>3, <1>4, <1>5, InsertAndGo

LEMMA EndKeeps ==
    ASSUME WorkspaceAssumption, LinkInv, NEW r \in Requests,
           ExtractZipArchive(r) \/ InsertDeployment(r)
    PROVE  LinkInv'
<1>1. req[r] # Idle /\ req[r].pc \in {"unpack", "deployment"} /\ req[r] \in Request
  BY DEF ExtractZipArchive, InsertDeployment, At, LinkInv, LinkTypes
<1>2. /\ req[r].at \in Ids /\ req[r].at \in Used /\ "deployment" \in Kinds
      /\ Fits("deployment", req[r].at, None)
      /\ rows[req[r].at] # None => rows[req[r].at].kind = "application"
  BY <1>1, AimFits, AimsByName, KindsByName DEF AimOK
<1>3. CASE InsertDeployment(r)
  <2>1. /\ Insert([kind |-> "deployment", parent |-> req[r].at, server |-> None])
        /\ Return(r)
    BY <1>3 DEF InsertDeployment, Child
  <2>2. QED
    BY <1>2, <2>1, InsertAlone
<1>4. CASE ExtractZipArchive(r)
  <2>1. UNCHANGED <<rows, used, escaped>>
    BY <1>4 DEF ExtractZipArchive
  <2>2. CASE Return(r)
    <3>1. Idle \in Request
      BY DEF Request
    <3>2. QED
      BY <2>1, <2>2, <3>1, GoStep DEF Return
  <2>3. CASE Goto(r, "deployment", req[r].at)
    <3> DEFINE v == [op |-> req[r].op, pc |-> "deployment", at |-> req[r].at,
                     left |-> req[r].left]
    <3>1. v \in Request /\ v.pc = "deployment" /\ v.at = req[r].at
      BY <1>1 DEF Request, Pcs
    <3>2. req' = [req EXCEPT ![r] = v]
      BY <2>3 DEF Goto, Step
    <3> HIDE DEF v
    <3>3. QED
      BY <1>2, <2>1, <3>1, <3>2, AimsByName, GoStep
  <2>4. QED
    BY <1>4, <2>2, <2>3 DEF ExtractZipArchive
<1>5. QED
  BY <1>3, <1>4

-----------------------------------------------------------------------------
LEMMA InvIsInductive ==
    ASSUME WorkspaceAssumption, LinkInv, [Next]_vars
    PROVE  LinkInv'
<1>1. CASE UNCHANGED vars
  BY <1>1 DEF vars, LinkInv, LinkTypes, Linked, LinkedRow, Aims, AimOK, Used
<1>2. ASSUME NEW i \in Used, NEW e \in Used, Move(i, e)
      PROVE  LinkInv'
  <2>1. i \in Ids
    BY DEF LinkInv, LinkTypes, Used, Ids, WorkspaceAssumption
  <2>2. QED
    BY <1>2, <2>1, RowMoveKeeps
<1>3. ASSUME NEW r \in Requests,
             \/ BeginDropzone(r) \/ Leave(r)
             \/ \E e \in Used : BeginTemplate(r, e)
             \/ \E e, i \in Used : BeginClone(r, e, i)
             \/ DefaultProject(r) \/ DefaultEnvironment(r)
             \/ InsertApplication(r) \/ ExtractZipArchive(r) \/ CopyVariable(r)
             \/ TemplateVariable(r) \/ InsertDeployment(r)
      PROVE  LinkInv'
  BY <1>3, BeginKeeps, LeaveKeeps, DefaultProjectKeeps, DefaultEnvironmentKeeps,
     InsertApplicationKeeps, VariableKeeps, EndKeeps
<1>4. QED
  BY <1>1, <1>2, <1>3, RowCreateKeeps, DeletionKeeps DEF Next

LEMMA LinkTells == LinkInv => RowsHang
<1> SUFFICES ASSUME LinkInv, ~ escaped, NEW i \in Ids, rows[i] # None
             PROVE  Holds(rows[i])
  BY DEF RowsHang
<1>1. LinkedRow(i) /\ rows[i] \in Row
  BY DEF LinkInv, LinkTypes, Linked
<1>2. rows[i].kind \in Roots \union Leaves
  BY <1>1, KindsByName DEF Row
<1>3. QED
  BY <1>1, <1>2 DEF LinkedRow, Holds

(* However deletions meet the requests that write row after row, and       *)
(* however many there are of either: as long as every statement ran with   *)
(* foreign keys on, the parent and the server of every row are there.      *)
THEOREM RowsHangHolds == ASSUME WorkspaceAssumption PROVE Spec => []RowsHang
<1>1. Init => LinkInv
  <2> SUFFICES ASSUME Init PROVE LinkInv
    OBVIOUS
  <2>1. Idle \in Request
    BY DEF Request
  <2>2. QED
    BY <2>1 DEF Init, LinkInv, LinkTypes, Linked, Aims, WorkspaceAssumption
<1>2. LinkInv /\ [Next]_vars => LinkInv'
  BY InvIsInductive
<1>3. LinkInv => RowsHang
  BY LinkTells
<1>4. QED
  BY <1>1, <1>2, <1>3, PTL DEF Spec

-----------------------------------------------------------------------------
(* Access has the operators on finite sets by names of its own.            *)
LEMMA FiniteAlike == \A S : A!IsFiniteSet(S) <=> IsFiniteSet(S)
  BY DEF A!IsFiniteSet, IsFiniteSet

LEMMA CardinalityAlike == \A S : A!Cardinality(S) = Cardinality(S)
  BY DEF A!Cardinality, Cardinality

USE FiniteAlike, CardinalityAlike


(* Sessions of one user have their ids to themselves.                      *)
Distinct == \A s, t \in sessions : s.id = t.id => s = t

(* What follows a read of a user's row finds the row there: users are not  *)
(* deleted.  A user without a row has no sessions.                         *)
Known ==
    /\ \A r \in Logins : login[r].pc \notin {"none", "insert"} => user[login[r].user] # None
    /\ \A s \in sessions : user[s.user] # None

Finite == IsFiniteSet(sessions) /\ IsFiniteSet(A!Registered)

AccessInv == A!TypeOK /\ Distinct /\ Known /\ Finite /\ A!AccessBounded

-----------------------------------------------------------------------------
(* A set of numbers has a least one.                                       *)
LEMMA LeastOf ==
    ASSUME NEW S, S \subseteq Nat, S # {}
    PROVE  \E i \in S : \A j \in S : i <= j
<1>1. PICK m \in S : \A k \in S : ~ (<<k, m>> \in OpToRel(<, Nat))
  BY WFMin, NatLessThanWellFounded
<1>2. ASSUME NEW k \in S PROVE m <= k
  <2>1. <<k, m>> \in Nat \X Nat /\ ~ (<<k, m>> \in OpToRel(<, Nat))
    BY <1>1
  <2>2. ~ (k < m)
    BY <2>1 DEF OpToRel
  <2>3. QED
    BY <2>2
<1>3. QED
  BY <1>2

(* So a set of sessions has an oldest one, and since the ids issued are    *)
(* bounded a newest one.                                                   *)
LEMMA OldestOf ==
    ASSUME NEW S, S \subseteq A!Session, S # {}
    PROVE  \E s \in S : \A t \in S : s.id <= t.id
<1> DEFINE Numbers == {s.id : s \in S}
<1>1. Numbers \subseteq Nat /\ Numbers # {}
  BY DEF A!Session
<1>2. PICK i \in Numbers : \A j \in Numbers : i <= j
  BY <1>1, LeastOf
<1>3. QED
  BY <1>2

LEMMA NewestOf ==
    ASSUME NEW S, S \subseteq A!Session, S # {}, NEW n \in Nat, \A s \in S : s.id <= n
    PROVE  \E s \in S : \A t \in S : t.id <= s.id
<1> DEFINE Ages == {n - s.id : s \in S}
<1>1. Ages \subseteq Nat /\ Ages # {}
  BY DEF A!Session
<1>2. PICK i \in Ages : \A j \in Ages : i <= j
  BY <1>1, LeastOf
<1>3. PICK s \in S : i = n - s.id
  BY <1>2
<1>4. ASSUME NEW t \in S PROVE t.id <= s.id
  <2>1. n - s.id <= n - t.id /\ s.id \in Nat /\ t.id \in Nat
    BY <1>2, <1>3 DEF A!Session
  <2>2. QED
    BY <2>1
<1>5. QED
  BY <1>4

-----------------------------------------------------------------------------
(* The sessions of a user that are newer than one of them.                 *)
Newer(u, s) == {t \in A!SessionsOf(u) : t.id > s.id}

LEMMA NewerFinite ==
    ASSUME IsFiniteSet(sessions), NEW u, NEW s
    PROVE  /\ IsFiniteSet(A!SessionsOf(u)) /\ IsFiniteSet(Newer(u, s))
           /\ Cardinality(A!SessionsOf(u)) \in Nat /\ Cardinality(Newer(u, s)) \in Nat
<1>1. A!SessionsOf(u) \in SUBSET sessions /\ Newer(u, s) \in SUBSET sessions
  BY DEF A!SessionsOf, Newer
<1>2. IsFiniteSet(A!SessionsOf(u)) /\ IsFiniteSet(Newer(u, s))
  BY <1>1, FS_Subset
<1>3. QED
  BY <1>2, FS_CardinalityType

(* EvictOldestSessions: at most as many as it is to keep are the newest,   *)
LEMMA NewestFew ==
    ASSUME A!TypeOK, Distinct, IsFiniteSet(sessions), NEW u, NEW keep \in Nat
    PROVE  /\ IsFiniteSet(A!Newest(u, keep)) /\ A!Newest(u, keep) \subseteq A!SessionsOf(u)
           /\ Cardinality(A!Newest(u, keep)) <= keep
<1> DEFINE N == A!Newest(u, keep)
<1>1. N \subseteq A!SessionsOf(u) /\ N \subseteq A!Session /\ IsFiniteSet(N)
  <2>1. N \subseteq A!SessionsOf(u) /\ N \subseteq A!Session
    BY DEF A!Newest, A!SessionsOf, A!Session, A!TypeOK
  <2>2. IsFiniteSet(A!SessionsOf(u))
    BY NewerFinite
  <2>3. QED
    BY <2>1, <2>2, FS_Subset
<1>2. CASE N = {}
  <2>1. Cardinality(N) = 0
    BY <1>2, FS_EmptySet
  <2>2. QED
    BY <1>1, <2>1
<1>3. CASE N # {}
  <2>1. PICK s \in N : \A t \in N : s.id <= t.id
    BY <1>1, <1>3, OldestOf
  <2>2. N \ {s} \subseteq Newer(u, s)
    <3>1. ASSUME NEW t \in N, t # s PROVE t \in Newer(u, s)
      <4>1. t \in sessions /\ s \in sessions /\ t.id # s.id
        BY <3>1, <1>1 DEF Distinct, A!SessionsOf
      <4>2. t.id \in Nat /\ s.id \in Nat /\ s.id <= t.id
        BY <1>1, <2>1, <3>1 DEF A!Session
      <4>3. QED
        BY <1>1, <4>1, <4>2 DEF Newer
    <3>2. QED
      BY <3>1
  <2>3. Cardinality(Newer(u, s)) < keep /\ IsFiniteSet(Newer(u, s))
    BY NewerFinite DEF A!Newest, Newer
  <2>4. Cardinality(N \ {s}) <= Cardinality(Newer(u, s))
    BY <2>2, <2>3, FS_Subset
  <2>5. Cardinality(N \ {s}) = Cardinality(N) - 1
    BY <1>1, FS_RemoveElement
  <2>6. Cardinality(N) \in Nat /\ Cardinality(Newer(u, s)) \in Nat
    BY <1>1, <2>3, FS_CardinalityType
  <2>7. QED
    BY <1>1, <2>3, <2>4, <2>5, <2>6
<1>4. QED
  BY <1>2, <1>3

(* and one that is not has as many newer ones among them.                  *)
LEMMA NewestStay ==
    ASSUME A!TypeOK, Distinct, IsFiniteSet(sessions), NEW u, NEW keep \in Nat,
           NEW s \in A!SessionsOf(u) \ A!Newest(u, keep)
    PROVE  Cardinality({t \in A!Newest(u, keep) : t.id > s.id}) >= keep
<1> DEFINE N == A!Newest(u, keep)
           NewestKept == {t \in N : t.id > s.id}
           Between == Newer(u, s) \ N
<1>1. /\ A!SessionsOf(u) \subseteq A!Session /\ A!SessionsOf(u) \subseteq sessions
      /\ \A t \in A!SessionsOf(u) : t.id \in Nat /\ t.id <= issued
      /\ issued \in Nat
  BY DEF A!SessionsOf, A!Session, A!TypeOK
<1>2. IsFiniteSet(N) /\ N \subseteq A!SessionsOf(u)
  BY NewestFew
<1>3. IsFiniteSet(NewestKept) /\ Cardinality(NewestKept) \in Nat
  <2>1. NewestKept \in SUBSET N
    OBVIOUS
  <2>2. IsFiniteSet(NewestKept)
    BY <1>2, <2>1, FS_Subset
  <2>3. QED
    BY <2>2, FS_CardinalityType
<1>4. \A t \in A!SessionsOf(u) \ N : Cardinality(Newer(u, t)) >= keep
  <2>1. ASSUME NEW t \in A!SessionsOf(u) \ N PROVE Cardinality(Newer(u, t)) >= keep
    <3>1. Cardinality(Newer(u, t)) \in Nat
      BY NewerFinite
    <3>2. ~ (Cardinality(Newer(u, t)) < keep)
      BY DEF A!Newest, Newer
    <3>3. QED
      BY <3>1, <3>2
  <2>2. QED
    BY <2>1
<1>5. \E t \in A!SessionsOf(u) \ N : Newer(u, t) \subseteq NewestKept
  <2>1. CASE Between = {}
    <3>1. Newer(u, s) \subseteq NewestKept
      BY <2>1 DEF Newer
    <3>2. QED
      BY <3>1
  <2>2. CASE Between # {}
    <3>1. Between \subseteq A!SessionsOf(u) /\ Between \subseteq A!Session
      BY <1>1 DEF Newer
    <3>2. PICK m \in Between : \A t \in Between : t.id <= m.id
      BY <1>1, <2>2, <3>1, NewestOf
    <3>3. ASSUME NEW t \in Newer(u, m) PROVE t \in NewestKept
      <4>1. t.id \in Nat /\ m.id \in Nat /\ s.id \in Nat /\ t.id > m.id /\ m.id > s.id
        BY <1>1, <3>1, <3>2, <3>3 DEF Newer
      <4>2. t \in Newer(u, s)
        BY <3>3, <4>1 DEF Newer
      <4>3. t \notin Between
        BY <3>2, <4>1
      <4>4. QED
        BY <4>1, <4>2, <4>3
    <3>4. QED
      BY <3>1, <3>2, <3>3
  <2>3. QED
    BY <2>1, <2>2
<1>6. PICK t \in A!SessionsOf(u) \ N : Newer(u, t) \subseteq NewestKept
  BY <1>5
<1>7. Cardinality(Newer(u, t)) <= Cardinality(NewestKept) /\ Cardinality(Newer(u, t)) \in Nat
  BY <1>3, <1>6, FS_Subset, NewerFinite
<1>8. QED
  BY <1>3, <1>4, <1>7

-----------------------------------------------------------------------------
(* One element more or less.                                               *)
LEMMA OneMoreOrLess ==
    ASSUME NEW S, IsFiniteSet(S), NEW x
    PROVE  /\ IsFiniteSet(S \ {x}) /\ IsFiniteSet(S \union {x})
           /\ Cardinality(S) \in Nat /\ Cardinality(S \union {x}) \in Nat
           /\ Cardinality(S \ {x}) <= Cardinality(S)
           /\ x \in S => Cardinality(S \ {x}) = Cardinality(S) - 1
           /\ Cardinality(S \union {x}) <= Cardinality(S) + 1
<1>1. IsFiniteSet(S \ {x}) /\ IsFiniteSet(S \union {x})
  BY FS_AddElement, FS_RemoveElement
<1>2. Cardinality(S) \in Nat /\ Cardinality(S \union {x}) \in Nat
  BY <1>1, FS_CardinalityType
<1>3. Cardinality(S \ {x}) = IF x \in S THEN Cardinality(S) - 1 ELSE Cardinality(S)
  BY FS_RemoveElement
<1>4. Cardinality(S \union {x}) = IF x \in S THEN Cardinality(S) ELSE Cardinality(S) + 1
  BY FS_AddElement
<1>5. QED
  BY <1>1, <1>2, <1>3, <1>4

(* The ways on for a request, and what they do to those at some statement. *)
Going(r, new) == login' = [login EXCEPT ![r] = new]

LEMMA Requesting ==
    ASSUME A!TypeOK, NEW r \in Logins
    PROVE  /\ A!Idle \in A!Request
           /\ \A pc \in A!Pcs, u \in Users, seen \in Nat :
                 [pc |-> pc, user |-> u, seen |-> seen] \in A!Request
           /\ login[r].pc # "none" => /\ login[r].user \in Users /\ login[r].seen \in Nat
                                    /\ login[r].pc \in A!Pcs
           /\ login[r].pc # "none" => \A pc \in A!Pcs :
                 [login[r] EXCEPT !.pc = pc] \in A!Request
           /\ \A new : Going(r, new) => /\ login'[r] = new
                                        /\ \A q \in Logins : q # r => login'[q] = login[q]
           /\ \A new \in A!Request : Going(r, new) => login' \in [Logins -> A!Request]
<1> USE DEF A!TypeOK, A!Request, A!Idle, A!Pcs
<1>1. login[r] \in A!Request
  OBVIOUS
<1>2. login[r].pc # "none" => /\ login[r].user \in Users /\ login[r].seen \in Nat
                            /\ login[r].pc \in A!Pcs
  BY <1>1
<1>3. login[r].pc # "none" => \A pc \in A!Pcs : [login[r] EXCEPT !.pc = pc] \in A!Request
  BY <1>1
<1>4. \A new : Going(r, new) => login'[r] = new /\ \A q \in Logins : q # r => login'[q] = login[q]
  BY DEF Going
<1>5. \A new \in A!Request : Going(r, new) => login' \in [Logins -> A!Request]
  BY DEF Going
<1>6. QED
  BY <1>2, <1>3, <1>4, <1>5

LEMMA InHandMoves ==
    ASSUME A!TypeOK, A!AccessAssumption, NEW r \in Logins, NEW new, Going(r, new),
           NEW pc \in A!Pcs, NEW u
    PROVE  /\ Cardinality(A!InHand(pc, u)) \in Nat /\ Cardinality(A!InHand(pc, u)') \in Nat
           /\ Cardinality(A!InHand(pc, u)') <= Cardinality(Logins)
           /\ Cardinality(A!InHand(pc, u)') <= Cardinality(A!InHand(pc, u)) + 1
           /\ new.pc # pc \/ new.user # u =>
                 Cardinality(A!InHand(pc, u)') <= Cardinality(A!InHand(pc, u))
           /\ (new.pc # pc \/ new.user # u) /\ A!At(r, pc, u) =>
                 Cardinality(A!InHand(pc, u)') = Cardinality(A!InHand(pc, u)) - 1
<1> DEFINE Before == A!InHand(pc, u)
           After == A!InHand(pc, u)'
<1>1. login'[r] = new /\ \A q \in Logins : q # r => login'[q] = login[q]
  BY Requesting
<1>2. Before \in SUBSET Logins /\ After \in SUBSET Logins
  BY DEF A!InHand
<1>3. IsFiniteSet(Logins)
  BY DEF A!AccessAssumption
<1>4. IsFiniteSet(Before) /\ IsFiniteSet(After) /\ Cardinality(After) <= Cardinality(Logins)
  BY <1>2, <1>3, FS_Subset
<1>5. Cardinality(Before) \in Nat /\ Cardinality(After) \in Nat
  BY <1>4, FS_CardinalityType
<1>6. new.pc # pc \/ new.user # u => After = Before \ {r}
  BY <1>1 DEF A!InHand, A!At
<1>7. After \subseteq Before \union {r}
  BY <1>1 DEF A!InHand, A!At
<1>8. /\ IsFiniteSet(Before \ {r}) /\ IsFiniteSet(Before \union {r})
      /\ Cardinality(Before \ {r}) <= Cardinality(Before)
      /\ r \in Before => Cardinality(Before \ {r}) = Cardinality(Before) - 1
      /\ Cardinality(Before \union {r}) <= Cardinality(Before) + 1
  BY <1>4, OneMoreOrLess
<1>9. A!At(r, pc, u) => r \in Before
  BY DEF A!InHand
<1>10. Cardinality(After) <= Cardinality(Before) + 1
  <2>1. Cardinality(After) <= Cardinality(Before \union {r})
    BY <1>7, <1>8, FS_Subset
  <2>2. Cardinality(Before \union {r}) \in Nat
    BY <1>4, OneMoreOrLess
  <2> HIDE DEF Before, After
  <2>3. QED
    BY <2>1, <2>2, <1>5, <1>8
<1> HIDE DEF Before, After
<1>11. QED
  <2>1. new.pc # pc \/ new.user # u => Cardinality(After) <= Cardinality(Before)
    BY <1>6, <1>8
  <2>2. (new.pc # pc \/ new.user # u) /\ A!At(r, pc, u)
           => Cardinality(After) = Cardinality(Before) - 1
    BY <1>6, <1>8, <1>9
  <2>3. QED
    BY <1>4, <1>5, <1>10, <2>1, <2>2 DEF Before, After

-----------------------------------------------------------------------------
(* Access: types and rows.                                                 *)
AccountsOK == A!TypeOK /\ Distinct /\ Known /\ Finite

(* What an action of request r on behalf of u may do: it goes on to new,   *)
(* and the row of u or the sessions change.                                *)
UserRow == [fails : Nat, lock : A!Locks]
Serves(r, u, new) ==
    /\ Going(r, new) /\ new \in A!Request
    /\ new.pc # "none" => new.user = u
    /\ new.pc \notin {"none", "insert"} => user'[u] # None
    /\ \/ user' = user
       \/ \E row \in UserRow : user' = [user EXCEPT ![u] = row]
    /\ served' \in Nat /\ mishaps' \in Nat /\ uncounted' \in Nat
    /\ unlocked' \subseteq Users /\ unevicted' \in [Users -> Nat]

LEMMA ServesKeeps ==
    ASSUME AccountsOK, A!AccessAssumption, NEW r \in Logins, NEW u \in Users, NEW new,
           Serves(r, u, new),
           \/ UNCHANGED <<sessions, issued>>
           \/ sessions' \subseteq sessions /\ UNCHANGED issued
           \/ /\ user[u] # None /\ issued' = issued + 1
              /\ sessions' = sessions \union {[id |-> issued + 1, user |-> u]}
    PROVE  AccountsOK'
<1> USE DEF AccountsOK
<1>1. login' \in [Logins -> A!Request] /\ login'[r] = new
      /\ \A q \in Logins : q # r => login'[q] = login[q]
  BY Requesting DEF Serves
<1>2. /\ user' \in [Users -> UserRow \union {None}]
      /\ \A v \in Users : v # u => user'[v] = user[v]
      /\ (user[u] # None => user'[u] # None)
  BY DEF Serves, A!TypeOK, UserRow, A!AccessAssumption
<1>3. \A v \in Users : user[v] # None => user'[v] # None
  BY <1>2
<1>4. /\ sessions' \subseteq [id : Nat, user : Users]
      /\ issued' \in Nat /\ \A s \in sessions' : s.id <= issued'
  BY DEF A!TypeOK
<1>5. A!TypeOK'
  BY <1>1, <1>2, <1>4 DEF A!TypeOK, Serves, UserRow
<1>6. Distinct'
  <2>1. CASE sessions' \subseteq sessions
    BY <2>1 DEF Distinct
  <2>2. CASE sessions' = sessions \union {[id |-> issued + 1, user |-> u]}
    <3>1. \A s \in sessions : s.id # issued + 1
      BY DEF A!TypeOK
    <3>2. QED
      BY <2>2, <3>1 DEF Distinct
  <2>3. QED
    BY <2>1, <2>2
<1>7. Known'
  <2>1. \A q \in Logins : login'[q].pc \notin {"none", "insert"} => user'[login'[q].user] # None
    <3>1. ASSUME NEW q \in Logins, login'[q].pc \notin {"none", "insert"}
          PROVE  user'[login'[q].user] # None
      <4>1. CASE q = r
        BY <1>1, <3>1, <4>1 DEF Serves
      <4>2. CASE q # r
        <5>1. login'[q] = login[q] /\ login[q].user \in Users /\ user[login[q].user] # None
          BY <1>1, <3>1, <4>2, Requesting DEF Known
        <5>2. QED
          BY <1>3, <5>1
      <4>3. QED
        BY <4>1, <4>2
    <3>2. QED
      BY <3>1
  <2>2. \A s \in sessions' : user'[s.user] # None
    <3>1. \A s \in sessions : s.user \in Users /\ user'[s.user] # None
      BY <1>3 DEF Known, A!TypeOK
    <3>2. user[u] # None => user'[u] # None
      BY <1>3
    <3>3. QED
      BY <3>1, <3>2
  <2>3. QED
    BY <2>1, <2>2 DEF Known
<1>8. Finite'
  <2>1. IsFiniteSet(sessions')
    BY FS_Subset, OneMoreOrLess DEF Finite
  <2>2. A!Registered' \in SUBSET (A!Registered \union {u})
    BY <1>2 DEF A!Registered
  <2>3. IsFiniteSet(A!Registered \union {u})
    BY FS_AddElement DEF Finite
  <2>4. IsFiniteSet(A!Registered')
    BY <2>2, <2>3, FS_Subset
  <2>5. QED
    BY <2>1, <2>4 DEF Finite
<1>9. QED
  BY <1>5, <1>6, <1>7, <1>8

-----------------------------------------------------------------------------
(* The session cap, from what a step does to the sessions of its user.     *)
LEMMA SessionsFinite ==
    ASSUME IsFiniteSet(sessions), IsFiniteSet(sessions'), NEW u
    PROVE  /\ IsFiniteSet(A!SessionsOf(u)) /\ Cardinality(A!SessionsOf(u)) \in Nat
           /\ Cardinality(A!SessionsOf(u)') \in Nat
<1>1. A!SessionsOf(u) \in SUBSET sessions /\ A!SessionsOf(u)' \in SUBSET sessions'
  BY DEF A!SessionsOf
<1>2. IsFiniteSet(A!SessionsOf(u)) /\ IsFiniteSet(A!SessionsOf(u)')
  BY <1>1, FS_Subset
<1>3. QED
  BY <1>2, FS_CardinalityType

LEMMA RequestsCounted ==
    ASSUME A!AccessAssumption
    PROVE  Cardinality(Logins) \in Nat \ {0}
<1>1. Cardinality(Logins) \in Nat
  BY FS_CardinalityType DEF A!AccessAssumption
<1>2. QED
  BY <1>1, FS_EmptySet DEF A!AccessAssumption

Room(u) ==
    Cardinality(A!SessionsOf(u)) + Cardinality(A!InHand("session", u))
        <= MaxSessions - 1 + Cardinality(Logins) + unevicted[u]

LEMMA CapKeeps ==
    ASSUME AccountsOK, AccountsOK', A!AccessAssumption, A!SessionCap,
           NEW r \in Logins, NEW u \in Users, NEW new, Serves(r, u, new),
           \A v \in Users \ {u} :
              A!SessionsOf(v)' = A!SessionsOf(v) /\ unevicted'[v] = unevicted[v],
           \/ /\ new.pc # "session" /\ A!SessionsOf(u)' = A!SessionsOf(u)
              /\ unevicted'[u] = unevicted[u]
           \/ /\ new.pc # "session" /\ A!At(r, "session", u) /\ unevicted'[u] = unevicted[u]
              /\ \E s : A!SessionsOf(u)' = A!SessionsOf(u) \union {s}
           \/ Cardinality(A!SessionsOf(u)') <= MaxSessions - 1 /\ unevicted'[u] = unevicted[u]
           \/ unevicted'[u] = unevicted[u] + 1 /\ A!SessionsOf(u)' = A!SessionsOf(u)
    PROVE  A!SessionCap'
<1> USE DEF AccountsOK
<1>1. /\ Cardinality(Logins) \in Nat /\ MaxSessions \in Nat \ {0}
      /\ unevicted \in [Users -> Nat] /\ "session" \in A!Pcs
  BY RequestsCounted DEF A!AccessAssumption, A!TypeOK, A!Pcs
<1>2. ASSUME NEW v \in Users
      PROVE  /\ Cardinality(A!SessionsOf(v)) \in Nat /\ IsFiniteSet(A!SessionsOf(v))
             /\ Cardinality(A!SessionsOf(v)') \in Nat
             /\ Room(v)
  BY SessionsFinite DEF Finite, A!SessionCap, Room
<1>3. Going(r, new)
  BY DEF Serves
<1>4. ASSUME NEW v \in Users
      PROVE  /\ Cardinality(A!InHand("session", v)) \in Nat
             /\ Cardinality(A!InHand("session", v)') \in Nat
             /\ Cardinality(A!InHand("session", v)') <= Cardinality(Logins)
             /\ Cardinality(A!InHand("session", v)') <= Cardinality(A!InHand("session", v)) + 1
             /\ new.pc # "session" \/ new.user # v =>
                   Cardinality(A!InHand("session", v)') <= Cardinality(A!InHand("session", v))
             /\ (new.pc # "session" \/ new.user # v) /\ A!At(r, "session", v) =>
                   Cardinality(A!InHand("session", v)') = Cardinality(A!InHand("session", v)) - 1
  BY <1>1, <1>3, InHandMoves
<1>5. ASSUME NEW v \in Users, v # u PROVE Room(v)'
  <2>1. new.pc # "session" \/ new.user # v
    BY <1>5 DEF Serves
  <2>2. Cardinality(A!InHand("session", v)') <= Cardinality(A!InHand("session", v))
    BY <1>4, <2>1
  <2>3. A!SessionsOf(v)' = A!SessionsOf(v) /\ unevicted'[v] = unevicted[v] /\ unevicted[v] \in Nat
    BY <1>1, <1>5
  <2>4. QED
    BY <1>1, <1>2, <1>4, <2>2, <2>3 DEF Room
<1>6. Room(u)'
  <2>1. unevicted[u] \in Nat
    BY <1>1
  <2>2. CASE /\ new.pc # "session" /\ A!SessionsOf(u)' = A!SessionsOf(u)
             /\ unevicted'[u] = unevicted[u]
    <3>1. Cardinality(A!InHand("session", u)') <= Cardinality(A!InHand("session", u))
      BY <1>4, <2>2
    <3>2. QED
      BY <1>1, <1>2, <1>4, <2>1, <2>2, <3>1 DEF Room
  <2>3. CASE /\ new.pc # "session" /\ A!At(r, "session", u) /\ unevicted'[u] = unevicted[u]
             /\ \E s : A!SessionsOf(u)' = A!SessionsOf(u) \union {s}
    <3>1. Cardinality(A!InHand("session", u)') = Cardinality(A!InHand("session", u)) - 1
      BY <1>4, <2>3
    <3>2. PICK s : A!SessionsOf(u)' = A!SessionsOf(u) \union {s}
      BY <2>3
    <3>3. Cardinality(A!SessionsOf(u) \union {s}) <= Cardinality(A!SessionsOf(u)) + 1
      BY <1>2, OneMoreOrLess
    <3>4. Cardinality(A!SessionsOf(u)') <= Cardinality(A!SessionsOf(u)) + 1
      BY <3>2, <3>3
    <3>5. /\ Cardinality(A!SessionsOf(u)) \in Nat /\ Cardinality(A!SessionsOf(u)') \in Nat
          /\ Cardinality(A!InHand("session", u)) \in Nat
          /\ Cardinality(A!SessionsOf(u)) + Cardinality(A!InHand("session", u))
                <= MaxSessions - 1 + Cardinality(Logins) + unevicted[u]
          /\ unevicted'[u] = unevicted[u]
      BY <1>2, <1>4, <2>3 DEF Room
    <3>6. QED
      BY <1>1, <2>1, <3>1, <3>4, <3>5 DEF Room
  <2>4. CASE Cardinality(A!SessionsOf(u)') <= MaxSessions - 1 /\ unevicted'[u] = unevicted[u]
    BY <1>1, <1>2, <1>4, <2>1, <2>4 DEF Room
  <2>5. CASE unevicted'[u] = unevicted[u] + 1 /\ A!SessionsOf(u)' = A!SessionsOf(u)
    <3>1. Cardinality(A!InHand("session", u)') <= Cardinality(A!InHand("session", u)) + 1
      BY <1>4
    <3>2. QED
      BY <1>1, <1>2, <1>4, <2>1, <2>5, <3>1 DEF Room
  <2>6. QED
    BY <2>2, <2>3, <2>4, <2>5
<1>7. QED
  BY <1>5, <1>6 DEF A!SessionCap, Room

-----------------------------------------------------------------------------
(* The lock-out, from what a step does to the counter and the lock of its  *)
(* user.                                                                   *)
Tried(u) ==
    u \in A!Registered \ unlocked /\ user[u].lock = "none" /\ ~ A!LockPending(u) =>
        user[u].fails + Cardinality(A!Harmless(u)) <= MaxFailed - 2 + Cardinality(Logins)

LEMMA HarmlessCounted ==
    ASSUME A!AccessAssumption, NEW u
    PROVE  /\ IsFiniteSet(A!Harmless(u)) /\ Cardinality(A!Harmless(u)) \in Nat
           /\ Cardinality(A!Harmless(u)) <= Cardinality(Logins)
<1>1. A!Harmless(u) \in SUBSET Logins /\ IsFiniteSet(Logins)
  BY DEF A!Harmless, A!InHand, A!AccessAssumption
<1>2. QED
  BY <1>1, FS_Subset, FS_CardinalityType

LEMMA HarmlessCountedNext ==
    ASSUME A!AccessAssumption, NEW u
    PROVE  /\ IsFiniteSet(A!Harmless(u)') /\ Cardinality(A!Harmless(u)') \in Nat
           /\ Cardinality(A!Harmless(u)') <= Cardinality(Logins)
<1>1. A!Harmless(u)' \in SUBSET Logins /\ IsFiniteSet(Logins)
  BY DEF A!Harmless, A!InHand, A!AccessAssumption
<1>2. QED
  BY <1>1, FS_Subset, FS_CardinalityType

LEMMA LockoutKeeps ==
    ASSUME AccountsOK, AccountsOK', A!AccessAssumption, A!LockoutBound,
           NEW r \in Logins, NEW u \in Users, NEW new, Serves(r, u, new),
           login[r] = A!Idle \/ login[r].user = u,
           \A v \in Users \ {u} : v \in unlocked' <=> v \in unlocked,
           \/ u \in unlocked' \/ user'[u].lock # "none" \/ A!LockPending(u)'
           \/ user'[u].fails <= MaxFailed - 2
           \/ /\ user' = user /\ unlocked' = unlocked
              /\ A!Harmless(u)' \subseteq A!Harmless(u) /\ (A!LockPending(u)' <=> A!LockPending(u))
           \/ /\ user' = [user EXCEPT ![u].fails = @ + 1] /\ unlocked' = unlocked
              /\ user[u] # None /\ r \in A!Harmless(u)
              /\ A!Harmless(u)' = A!Harmless(u) \ {r} /\ (A!LockPending(u)' <=> A!LockPending(u))
    PROVE  A!LockoutBound'
<1> USE DEF AccountsOK
<1>1. /\ Cardinality(Logins) \in Nat /\ MaxFailed \in Nat /\ MaxFailed >= 2
      /\ user \in [Users -> [fails : Nat, lock : A!Locks] \union {None}]
      /\ user' \in [Users -> [fails : Nat, lock : A!Locks] \union {None}]
      /\ None \notin [fails : Nat, lock : A!Locks]
  BY RequestsCounted DEF A!AccessAssumption, A!TypeOK
<1>2. \A v \in Users : Tried(v)
  BY DEF A!LockoutBound, Tried
<1>3. login'[r] = new /\ \A q \in Logins : q # r => login'[q] = login[q]
  BY Requesting DEF Serves
<1>4. ASSUME NEW v \in Users, v # u PROVE Tried(v)'
  <2>1. user'[v] = user[v] /\ (v \in unlocked' <=> v \in unlocked)
    BY <1>1, <1>4 DEF Serves
  <2>2. /\ \A pc \in {"lock", "increment"} : ~ (new.pc = pc /\ new.user = v)
        /\ \A pc \in {"lock", "increment"} : ~ (login[r].pc = pc /\ login[r].user = v)
    BY <1>4 DEF Serves, A!Idle
  <2>3. A!LockPending(v)' <=> A!LockPending(v)
    BY <1>3, <2>2 DEF A!LockPending, A!At
  <2>4. A!Harmless(v)' = A!Harmless(v)
    BY <1>3, <2>2 DEF A!Harmless, A!InHand, A!At
  <2>5. QED
    BY <1>2, <2>1, <2>3, <2>4 DEF Tried, A!Registered
<1>5. Tried(u)'
  <2> SUFFICES ASSUME u \in (A!Registered \ unlocked)', user'[u].lock = "none", ~ A!LockPending(u)'
               PROVE  user'[u].fails + Cardinality(A!Harmless(u)')
                         <= MaxFailed - 2 + Cardinality(Logins)
    BY DEF Tried
  <2>1. user'[u] \in [fails : Nat, lock : A!Locks] /\ user'[u].fails \in Nat
    BY <1>1 DEF A!Registered
  <2>2. /\ Cardinality(A!Harmless(u)') \in Nat
        /\ Cardinality(A!Harmless(u)') <= Cardinality(Logins)
        /\ IsFiniteSet(A!Harmless(u)) /\ Cardinality(A!Harmless(u)) \in Nat
    BY HarmlessCounted, HarmlessCountedNext
  <2>3. CASE user'[u].fails <= MaxFailed - 2
    BY <1>1, <2>1, <2>2, <2>3
  <2>4. CASE /\ user' = user /\ unlocked' = unlocked
             /\ A!Harmless(u)' \subseteq A!Harmless(u) /\ (A!LockPending(u)' <=> A!LockPending(u))
    <3>1. Cardinality(A!Harmless(u)') <= Cardinality(A!Harmless(u))
      BY <2>2, <2>4, FS_Subset
    <3>2. user[u].fails + Cardinality(A!Harmless(u)) <= MaxFailed - 2 + Cardinality(Logins)
      BY <1>2, <2>4 DEF Tried, A!Registered
    <3>3. QED
      BY <1>1, <2>1, <2>2, <2>4, <3>1, <3>2
  <2>5. CASE /\ user' = [user EXCEPT ![u].fails = @ + 1] /\ unlocked' = unlocked
             /\ user[u] # None /\ r \in A!Harmless(u)
             /\ A!Harmless(u)' = A!Harmless(u) \ {r} /\ (A!LockPending(u)' <=> A!LockPending(u))
    <3>1. Cardinality(A!Harmless(u)') = Cardinality(A!Harmless(u)) - 1
      BY <2>2, <2>5, FS_RemoveElement
    <3>2. /\ user[u] \in [fails : Nat, lock : A!Locks]
          /\ user'[u] = [user[u] EXCEPT !.fails = @ + 1]
      BY <1>1, <2>5
    <3>3. user'[u].fails = user[u].fails + 1 /\ user[u].lock = "none" /\ user[u].fails \in Nat
      BY <3>2
    <3>4. user[u].fails + Cardinality(A!Harmless(u)) <= MaxFailed - 2 + Cardinality(Logins)
      BY <1>2, <2>5, <3>3 DEF Tried, A!Registered
    <3>5. QED
      BY <1>1, <2>2, <3>1, <3>3, <3>4
  <2>6. QED
    BY <2>3, <2>4, <2>5
<1>6. QED
  BY <1>4, <1>5 DEF A!LockoutBound, Tried, A!Registered, AccountsOK, A!TypeOK

(* A step from and to a statement that has nothing to do with tries leaves *)
(* those of every user.                                                    *)
LEMMA TriesStay ==
    ASSUME A!TypeOK, NEW r \in Logins, NEW new, Going(r, new), NEW u,
           login[r].pc \notin {"increment", "lock"}, new.pc \notin {"increment", "lock"}
    PROVE  A!Harmless(u)' = A!Harmless(u) /\ (A!LockPending(u)' <=> A!LockPending(u))
<1>1. login'[r] = new /\ \A q \in Logins : q # r => login'[q] = login[q]
  BY Requesting
<1>2. QED
  BY <1>1 DEF A!Harmless, A!InHand, A!LockPending, A!At

-----------------------------------------------------------------------------
(* The first registration, from what a step does to the users and to the   *)
(* requests that have counted them.                                        *)
LEMMA RegistrationKeeps ==
    ASSUME AccountsOK, AccountsOK', A!AccessAssumption, A!RegistrationBounded,
           \/ /\ A!Registered' = A!Registered /\ A!Registering' \subseteq A!Registering
              /\ uncounted' = uncounted
           \/ /\ \E u : A!Registered' = A!Registered \union {u}
              /\ \E r \in A!Registering : A!Registering' = A!Registering \ {r}
              /\ uncounted' = uncounted
           \/ A!Registered' = {}
           \/ /\ uncounted' = uncounted + 1 /\ A!Registered' = A!Registered
              /\ \E r : A!Registering' \subseteq A!Registering \union {r}
    PROVE  A!RegistrationBounded'
<1> DEFINE Before == A!Registering
           After == A!Registering'
<1>1. Before \in SUBSET Logins /\ After \in SUBSET Logins /\ IsFiniteSet(Logins)
  BY DEF A!Registering, A!AccessAssumption
<1>2. /\ IsFiniteSet(Before) /\ IsFiniteSet(After)
      /\ Cardinality(After) <= Cardinality(Logins)
  BY <1>1, FS_Subset
<1>3. /\ Cardinality(Before) \in Nat /\ Cardinality(After) \in Nat
      /\ Cardinality(Logins) \in Nat
      /\ IsFiniteSet(A!Registered) /\ IsFiniteSet(A!Registered')
      /\ Cardinality(A!Registered) \in Nat /\ Cardinality(A!Registered') \in Nat
      /\ uncounted \in Nat /\ uncounted' \in Nat
  BY <1>1, <1>2, FS_CardinalityType DEF AccountsOK, Finite, A!TypeOK
<1>4. Cardinality(A!Registered) + Cardinality(Before) <= Cardinality(Logins) + uncounted
  BY DEF A!RegistrationBounded
<1> SUFFICES Cardinality(A!Registered') + Cardinality(After) <= Cardinality(Logins) + uncounted'
  BY DEF A!RegistrationBounded
<1> HIDE DEF Before, After
<1>5. CASE A!Registered' = A!Registered /\ After \subseteq Before /\ uncounted' = uncounted
  <2>1. Cardinality(After) <= Cardinality(Before)
    BY <1>2, <1>5, FS_Subset
  <2>2. QED
    BY <1>3, <1>4, <1>5, <2>1
<1>6. CASE /\ \E u : A!Registered' = A!Registered \union {u}
           /\ \E r \in Before : After = Before \ {r}
           /\ uncounted' = uncounted
  <2>1. PICK u : A!Registered' = A!Registered \union {u}
    BY <1>6
  <2>2. PICK r \in Before : After = Before \ {r}
    BY <1>6
  <2>3. Cardinality(A!Registered \union {u}) <= Cardinality(A!Registered) + 1
    BY <1>3, OneMoreOrLess
  <2>4. Cardinality(A!Registered') <= Cardinality(A!Registered) + 1
    BY <2>1, <2>3
  <2>5. Cardinality(After) = Cardinality(Before) - 1
    BY <1>2, <2>2, OneMoreOrLess
  <2>6. uncounted' = uncounted
    BY <1>6
  <2>7. QED
    BY <1>3, <1>4, <2>4, <2>5, <2>6
<1>7. CASE A!Registered' = {}
  <2>1. Cardinality(A!Registered') = 0
    BY <1>7, FS_EmptySet
  <2>2. QED
    BY <1>2, <1>3, <2>1
<1>8. CASE /\ uncounted' = uncounted + 1 /\ A!Registered' = A!Registered
           /\ \E r : After \subseteq Before \union {r}
  <2>1. PICK r : After \subseteq Before \union {r}
    BY <1>8
  <2>2. /\ IsFiniteSet(Before \union {r}) /\ Cardinality(Before \union {r}) \in Nat
        /\ Cardinality(Before \union {r}) <= Cardinality(Before) + 1
    BY <1>2, OneMoreOrLess
  <2>3. Cardinality(After) <= Cardinality(Before \union {r})
    BY <2>1, <2>2, FS_Subset
  <2>4. Cardinality(After) <= Cardinality(Before) + 1
    BY <1>3, <2>2, <2>3
  <2>5. uncounted' = uncounted + 1 /\ Cardinality(A!Registered') = Cardinality(A!Registered)
    BY <1>8
  <2>6. QED
    BY <1>3, <1>4, <2>4, <2>5
<1>9. QED
  BY <1>5, <1>6, <1>7, <1>8 DEF Before, After

(* A request that did not count and does not: nobody new registers.        *)
LEMMA NobodyRegisters ==
    ASSUME AccountsOK, AccountsOK', A!AccessAssumption, A!RegistrationBounded,
           NEW r \in Logins, NEW u \in Users, NEW new, Serves(r, u, new),
           new.pc # "insert", user[u] # None \/ user' = user, uncounted' = uncounted
    PROVE  A!RegistrationBounded'
<1>1. login'[r] = new /\ \A q \in Logins : q # r => login'[q] = login[q]
  BY Requesting DEF Serves, AccountsOK
<1>2. A!Registering' \subseteq A!Registering
  BY <1>1 DEF A!Registering
<1>3. A!Registered' = A!Registered
  <2>1. CASE user' = user
    BY <2>1 DEF A!Registered
  <2>2. CASE user[u] # None /\ \E row \in UserRow : user' = [user EXCEPT ![u] = row]
    <3>1. \A row \in UserRow : row # None
      BY DEF UserRow, A!AccessAssumption
    <3>2. QED
      BY <2>2, <3>1 DEF A!Registered, AccountsOK, A!TypeOK
  <2>3. QED
    BY <2>1, <2>2 DEF Serves
<1>4. QED
  BY <1>2, <1>3, RegistrationKeeps

-----------------------------------------------------------------------------
(* Register.                                                               *)
LEMMA GateKeeps ==
    ASSUME AccessInv, A!AccessAssumption, NEW r \in Logins, NEW u \in Users, A!RegisterGate(r, u)
    PROVE  AccessInv'
<1> DEFINE new == [pc |-> "insert", user |-> u, seen |-> 0]
<1> USE DEF AccessInv, A!AccessBounded
<1>1. /\ login[r] = A!Idle /\ served' = served + 1 /\ Going(r, new)
      /\ UNCHANGED <<user, sessions, issued, unlocked, unevicted>>
      /\ \/ A!Works /\ A!Registered = {} /\ UNCHANGED uncounted
         \/ A!Fails /\ uncounted' = uncounted + 1
  BY DEF A!RegisterGate, A!Arrive, A!rowVars, Going
<1>2. new \in A!Request /\ served' \in Nat /\ mishaps' \in Nat /\ uncounted' \in Nat
  BY <1>1 DEF A!TypeOK, A!Request, A!Pcs, A!Works, A!Fails
<1>3. Serves(r, u, new)
  BY <1>1, <1>2 DEF Serves, A!TypeOK
<1>4. AccountsOK'
  BY <1>1, <1>3, ServesKeeps DEF AccountsOK
<1>5. A!SessionCap'
  BY <1>1, <1>3, <1>4, CapKeeps DEF AccountsOK, A!SessionsOf
<1>6. A!LockoutBound'
  <2>1. A!Harmless(u)' = A!Harmless(u) /\ (A!LockPending(u)' <=> A!LockPending(u))
    BY <1>1, TriesStay DEF A!Idle
  <2>2. QED
    BY <1>1, <1>3, <1>4, <2>1, LockoutKeeps DEF AccountsOK
<1>7. A!RegistrationBounded'
  <2>1. A!Registered' = A!Registered
    BY <1>1 DEF A!Registered
  <2>2. A!Registering' \subseteq A!Registering \union {r}
    BY <1>1, Requesting DEF A!Registering
  <2>3. QED
    BY <1>1, <1>4, <2>1, <2>2, RegistrationKeeps DEF AccountsOK
<1>8. QED
  BY <1>4, <1>5, <1>6, <1>7 DEF AccountsOK

LEMMA InsertKeeps ==
    ASSUME AccessInv, A!AccessAssumption, NEW r \in Logins, NEW u \in Users, A!RegisterInsert(r, u)
    PROVE  AccessInv'
<1> USE DEF AccessInv, A!AccessBounded
<1>1. /\ login[r].pc = "insert" /\ login[r].user = u
      /\ UNCHANGED <<sessions, issued, served, uncounted, unlocked, unevicted>>
      /\ mishaps' \in Nat
  BY DEF A!RegisterInsert, A!At, A!histVars, A!Works, A!Fails, A!TypeOK
<1>2. r \in A!Registering
  BY <1>1 DEF A!Registering
<1>3. CASE /\ user[u] = None /\ user' = [user EXCEPT ![u] = [fails |-> 0, lock |-> "none"]]
           /\ A!Goto(r, "session")
  <2> DEFINE new == [login[r] EXCEPT !.pc = "session"]
  <2>1. Going(r, new) /\ new \in A!Request /\ new.pc = "session" /\ new.user = u
    <3>1. login[r] \in [pc : A!Pcs, user : Users, seen : Nat]
      BY <1>1 DEF A!TypeOK, A!Request, A!Idle
    <3>2. QED
      BY <1>1, <1>3, <3>1 DEF A!Goto, Going, A!Request, A!Pcs
  <2>2. [fails |-> 0, lock |-> "none"] \in UserRow
    BY DEF UserRow, A!Locks
  <2>3. user'[u] = [fails |-> 0, lock |-> "none"] /\ user'[u] # None
    BY <1>3, <2>2 DEF A!TypeOK, UserRow, A!AccessAssumption
  <2>4. Serves(r, u, new)
    BY <1>1, <1>3, <2>1, <2>2, <2>3 DEF Serves, A!TypeOK
  <2>5. AccountsOK'
    BY <1>1, <2>4, ServesKeeps DEF AccountsOK
  <2>6. A!SessionCap'
    <3>1. A!SessionsOf(u)' = {}
      BY <1>1, <1>3 DEF Known, A!SessionsOf
    <3>2. Cardinality(A!SessionsOf(u)') <= MaxSessions - 1
      BY <3>1, FS_EmptySet DEF A!AccessAssumption
    <3>3. \A v \in Users \ {u} : A!SessionsOf(v)' = A!SessionsOf(v) /\ unevicted'[v] = unevicted[v]
      BY <1>1 DEF A!SessionsOf
    <3>4. QED
      BY <1>1, <2>4, <2>5, <3>2, <3>3, CapKeeps DEF AccountsOK
  <2>7. A!LockoutBound'
    <3>1. user'[u].fails <= MaxFailed - 2
      BY <2>3 DEF A!AccessAssumption
    <3>2. QED
      BY <1>1, <2>4, <2>5, <3>1, LockoutKeeps DEF AccountsOK
  <2>8. A!RegistrationBounded'
    <3>1. A!Registered' = A!Registered \union {u}
      BY <1>3, <2>3 DEF A!Registered, A!TypeOK
    <3>2. A!Registering' = A!Registering \ {r}
      BY <2>1, Requesting DEF A!Registering
    <3>3. QED
      BY <1>1, <1>2, <2>5, <3>1, <3>2, RegistrationKeeps DEF AccountsOK
  <2>9. QED
    BY <2>5, <2>6, <2>7, <2>8 DEF AccountsOK
<1>4. CASE A!Return(r) /\ UNCHANGED user
  <2>1. Going(r, A!Idle) /\ A!Idle \in A!Request /\ A!Idle.pc = "none"
    BY <1>4 DEF A!Return, Going, A!Request, A!Idle
  <2>2. Serves(r, u, A!Idle)
    BY <1>1, <1>4, <2>1 DEF Serves, A!TypeOK
  <2>3. AccountsOK'
    BY <1>1, <2>2, ServesKeeps DEF AccountsOK
  <2>4. A!SessionCap'
    BY <1>1, <2>1, <2>2, <2>3, CapKeeps DEF AccountsOK, A!SessionsOf
  <2>5. A!LockoutBound'
    <3>1. A!Harmless(u)' = A!Harmless(u) /\ (A!LockPending(u)' <=> A!LockPending(u))
      BY <1>1, <2>1, TriesStay
    <3>2. QED
      BY <1>1, <1>4, <2>2, <2>3, <3>1, LockoutKeeps DEF AccountsOK
  <2>6. A!RegistrationBounded'
    BY <1>1, <1>4, <2>1, <2>2, <2>3, NobodyRegisters DEF AccountsOK
  <2>7. QED
    BY <2>3, <2>4, <2>5, <2>6 DEF AccountsOK
<1>5. QED
  BY <1>3, <1>4 DEF A!RegisterInsert

-----------------------------------------------------------------------------
(* A step of Login that leaves the sessions and goes elsewhere than to     *)
(* their insert: what is left to show is the lock-out.                     *)
LEMMA LoginKeeps ==
    ASSUME AccessInv, A!AccessAssumption, NEW r \in Logins, NEW u \in Users, NEW new,
           Serves(r, u, new), new.pc \notin {"insert", "session"},
           UNCHANGED <<sessions, issued, unevicted, uncounted>>, user[u] # None,
           AccountsOK' => A!LockoutBound'
    PROVE  AccessInv'
<1> USE DEF AccessInv, A!AccessBounded
<1>1. AccountsOK'
  BY ServesKeeps DEF AccountsOK
<1>2. A!SessionCap'
  BY <1>1, CapKeeps DEF AccountsOK, A!SessionsOf
<1>3. A!RegistrationBounded'
  BY <1>1, NobodyRegisters DEF AccountsOK
<1>4. QED
  BY <1>1, <1>2, <1>3 DEF AccountsOK

(* The requests of a user who has a row.                                   *)
LEMMA RecordOf ==
    ASSUME AccessInv, A!AccessAssumption, NEW r \in Logins, NEW u \in Users,
           NEW pc \in A!Pcs \ {"insert"}, A!At(r, pc, u)
    PROVE  /\ login[r].pc = pc /\ login[r].user = u /\ login[r].seen \in Nat
           /\ user[u] \in UserRow /\ user[u] # None
           /\ \A to \in A!Pcs : /\ [login[r] EXCEPT !.pc = to] \in A!Request
                              /\ [login[r] EXCEPT !.pc = to].pc = to
                              /\ [login[r] EXCEPT !.pc = to].user = u
           /\ A!Idle \in A!Request /\ A!Idle.pc = "none"
<1>1. login[r].pc = pc /\ login[r].user = u /\ pc \notin {"none", "insert"}
  BY DEF A!At, A!Pcs
<1>2. user[u] # None /\ user[u] \in UserRow
  BY <1>1 DEF AccessInv, Known, A!TypeOK, UserRow
<1>3. login[r] \in [pc : A!Pcs, user : Users, seen : Nat]
  BY <1>1 DEF AccessInv, A!TypeOK, A!Request, A!Idle
<1>4. \A to \in A!Pcs : /\ [login[r] EXCEPT !.pc = to] \in A!Request
                      /\ [login[r] EXCEPT !.pc = to].pc = to
                      /\ [login[r] EXCEPT !.pc = to].user = u
  BY <1>1, <1>3 DEF A!Request
<1>5. QED
  BY <1>1, <1>2, <1>3, <1>4 DEF A!Request, A!Idle

LEMMA WrongKeeps ==
    ASSUME AccessInv, A!AccessAssumption, NEW r \in Logins, NEW u \in Users, A!LoginWrong(r, u)
    PROVE  AccessInv'
<1> DEFINE new == [pc |-> "increment", user |-> u, seen |-> user[u].fails]
<1> USE DEF AccessInv, A!AccessBounded
<1>1. /\ login[r] = A!Idle /\ served' = served + 1 /\ Going(r, new) /\ user[u] # None
      /\ UNCHANGED <<user, sessions, issued, mishaps, uncounted, unlocked, unevicted>>
  BY DEF A!LoginWrong, A!Arrive, A!rowVars, A!histVars, Going
<1>2. user[u] \in UserRow /\ user[u].fails \in Nat
  BY <1>1 DEF A!TypeOK, UserRow
<1>3. new \in A!Request
  BY <1>2 DEF A!Request, A!Pcs
<1>4. Serves(r, u, new)
  BY <1>1, <1>3 DEF Serves, A!TypeOK
<1>5. ASSUME AccountsOK' PROVE A!LockoutBound'
  <2>1. login'[r] = new
    BY <1>1, Requesting
  <2>2. CASE A!Locking(user[u].fails)
    <3>1. A!LockPending(u)'
      BY <2>1, <2>2 DEF A!LockPending, A!At
    <3>2. QED
      BY <1>1, <1>4, <1>5, <3>1, LockoutKeeps DEF AccountsOK
  <2>3. CASE ~ A!Locking(user[u].fails)
    <3>1. user'[u].fails <= MaxFailed - 2
      BY <1>1, <1>2, <2>3 DEF A!Locking, A!AccessAssumption
    <3>2. QED
      BY <1>1, <1>4, <1>5, <3>1, LockoutKeeps DEF AccountsOK
  <2>4. QED
    BY <2>2, <2>3
<1>6. QED
  BY <1>1, <1>4, <1>5, LoginKeeps

LEMMA RightKeeps ==
    ASSUME AccessInv, A!AccessAssumption, NEW r \in Logins, NEW u \in Users, A!LoginRight(r, u)
    PROVE  AccessInv'
<1> DEFINE new == [pc |-> "reset", user |-> u, seen |-> user[u].fails]
<1> USE DEF AccessInv, A!AccessBounded
<1>1. /\ login[r] = A!Idle /\ served' = served + 1 /\ Going(r, new) /\ user[u] # None
      /\ UNCHANGED <<user, sessions, issued, mishaps, uncounted, unlocked, unevicted>>
  BY DEF A!LoginRight, A!Arrive, A!rowVars, A!histVars, Going
<1>2. user[u] \in UserRow /\ user[u].fails \in Nat
  BY <1>1 DEF A!TypeOK, UserRow
<1>3. new \in A!Request
  BY <1>2 DEF A!Request, A!Pcs
<1>4. Serves(r, u, new)
  BY <1>1, <1>3 DEF Serves, A!TypeOK
<1>5. ASSUME AccountsOK' PROVE A!LockoutBound'
  <2>1. A!Harmless(u)' = A!Harmless(u) /\ (A!LockPending(u)' <=> A!LockPending(u))
    BY <1>1, TriesStay DEF A!Idle
  <2>2. QED
    BY <1>1, <1>4, <1>5, <2>1, LockoutKeeps DEF AccountsOK
<1>6. QED
  BY <1>1, <1>4, <1>5, LoginKeeps

LEMMA IncrementKeeps ==
    ASSUME AccessInv, A!AccessAssumption, NEW r \in Logins, NEW u \in Users,
           A!IncrementFailedLogin(r, u)
    PROVE  AccessInv'
<1> DEFINE new == IF A!Locking(login[r].seen) THEN [login[r] EXCEPT !.pc = "lock"] ELSE A!Idle
<1> USE DEF AccessInv, A!AccessBounded
<1>1. /\ A!At(r, "increment", u) /\ Going(r, new)
      /\ UNCHANGED <<sessions, issued, served, uncounted, unlocked, unevicted>>
      /\ mishaps' \in Nat
      /\ user' = [user EXCEPT ![u].fails = @ + 1] \/ user' = user
  BY DEF A!IncrementFailedLogin, A!histVars, Going, A!Goto, A!Return, A!Works, A!Fails,
         A!TypeOK
<1>2. /\ login[r].pc = "increment" /\ login[r].user = u /\ user[u] \in UserRow /\ user[u] # None
      /\ new \in A!Request /\ new.pc \in {"lock", "none"}
      /\ A!Locking(login[r].seen) => new.pc = "lock"
      /\ new.pc # "none" => new.user = u
  <2>1. "increment" \in A!Pcs \ {"insert"} /\ "lock" \in A!Pcs
    BY DEF A!Pcs
  <2>2. QED
    BY <1>1, <2>1, RecordOf
<1>3. user' = user \/ \E row \in UserRow : user' = [user EXCEPT ![u] = row]
  <2>1. [user[u] EXCEPT !.fails = @ + 1] \in UserRow
    BY <1>2 DEF UserRow
  <2>2. user' = [user EXCEPT ![u].fails = @ + 1]
           => user' = [user EXCEPT ![u] = [user[u] EXCEPT !.fails = @ + 1]]
    BY DEF A!TypeOK
  <2>3. QED
    BY <1>1, <2>1, <2>2
<1>4. user'[u] # None
  BY <1>2, <1>3 DEF A!TypeOK, A!AccessAssumption, UserRow
<1>5. Serves(r, u, new)
  BY <1>1, <1>2, <1>3, <1>4 DEF Serves, A!TypeOK
<1>6. ASSUME AccountsOK' PROVE A!LockoutBound'
  <2>1. login'[r] = new /\ \A q \in Logins : q # r => login'[q] = login[q]
    BY <1>1, Requesting
  <2>2. CASE A!Locking(login[r].seen)
    <3>1. A!LockPending(u)'
      BY <1>2, <2>1, <2>2 DEF A!LockPending, A!At
    <3>2. QED
      BY <1>1, <1>2, <1>5, <1>6, <3>1, LockoutKeeps DEF AccountsOK
  <2>3. CASE ~ A!Locking(login[r].seen)
    <3>1. A!LockPending(u)' <=> A!LockPending(u)
      BY <1>2, <2>1, <2>3 DEF A!LockPending, A!At, A!Idle
    <3>2. A!Harmless(u)' = A!Harmless(u) \ {r} /\ r \in A!Harmless(u)
      BY <1>2, <2>1, <2>3 DEF A!Harmless, A!InHand, A!At, A!Idle
    <3>3. QED
      BY <1>1, <1>2, <1>5, <1>6, <3>1, <3>2, LockoutKeeps DEF AccountsOK
  <2>4. QED
    BY <2>2, <2>3
<1>7. QED
  BY <1>1, <1>2, <1>5, <1>6, LoginKeeps

LEMMA LockKeeps ==
    ASSUME AccessInv, A!AccessAssumption, NEW r \in Logins, NEW u \in Users, A!LockUser(r, u)
    PROVE  AccessInv'
<1> USE DEF AccessInv, A!AccessBounded
<1>1. /\ A!At(r, "lock", u) /\ Going(r, A!Idle) /\ mishaps' \in Nat
      /\ UNCHANGED <<sessions, issued, served, uncounted, unevicted>>
      /\ \/ user' = [user EXCEPT ![u].lock = "locked"] /\ UNCHANGED unlocked
         \/ unlocked' = unlocked \union {u} /\ UNCHANGED user
  BY DEF A!LockUser, A!Return, Going, A!Works, A!Fails, A!TypeOK
<1>2. /\ login[r].pc = "lock" /\ login[r].user = u /\ user[u] \in UserRow /\ user[u] # None
      /\ A!Idle \in A!Request /\ A!Idle.pc = "none"
  <2>1. "lock" \in A!Pcs \ {"insert"}
    BY DEF A!Pcs
  <2>2. QED
    BY <1>1, <2>1, RecordOf
<1>3. user' = [user EXCEPT ![u].lock = "locked"]
         => /\ user'[u].lock = "locked"
            /\ \E row \in UserRow : user' = [user EXCEPT ![u] = row]
  <2>1. [user[u] EXCEPT !.lock = "locked"] \in UserRow
    BY <1>2 DEF UserRow, A!Locks
  <2>2. user' = [user EXCEPT ![u].lock = "locked"]
           => /\ user' = [user EXCEPT ![u] = [user[u] EXCEPT !.lock = "locked"]]
              /\ user'[u] = [user[u] EXCEPT !.lock = "locked"]
    BY DEF A!TypeOK
  <2>3. [user[u] EXCEPT !.lock = "locked"].lock = "locked"
    BY <1>2 DEF UserRow
  <2>4. QED
    BY <1>1, <2>1, <2>2, <2>3
<1>4. Serves(r, u, A!Idle)
  BY <1>1, <1>2, <1>3 DEF Serves, A!TypeOK
<1>5. ASSUME AccountsOK' PROVE A!LockoutBound'
  <2>1. u \in unlocked' \/ user'[u].lock # "none"
    BY <1>1, <1>3
  <2>2. \A v \in Users \ {u} : v \in unlocked' <=> v \in unlocked
    BY <1>1
  <2>3. QED
    BY <1>2, <1>4, <1>5, <2>1, <2>2, LockoutKeeps DEF AccountsOK
<1>6. QED
  BY <1>1, <1>2, <1>4, <1>5, LoginKeeps

LEMMA ResetKeeps ==
    ASSUME AccessInv, A!AccessAssumption, NEW r \in Logins, NEW u \in Users,
           A!ResetFailedLogin(r, u)
    PROVE  AccessInv'
<1> DEFINE new == [login[r] EXCEPT !.pc = "evict"]
           row == [fails |-> 0, lock |-> "none"]
<1> USE DEF AccessInv, A!AccessBounded
<1>1. /\ A!At(r, "reset", u) /\ Going(r, new) /\ mishaps' \in Nat
      /\ UNCHANGED <<sessions, issued, served, uncounted, unevicted>>
      /\ \/ user' = [user EXCEPT ![u] = row] /\ unlocked' = unlocked \ {u}
         \/ UNCHANGED <<user, unlocked>>
  BY DEF A!ResetFailedLogin, A!Goto, Going, A!Works, A!Fails, A!TypeOK
<1>2. /\ login[r].pc = "reset" /\ login[r].user = u /\ user[u] # None
      /\ new \in A!Request /\ new.pc = "evict" /\ new.user = u
  <2>1. "reset" \in A!Pcs \ {"insert"} /\ "evict" \in A!Pcs
    BY DEF A!Pcs
  <2>2. QED
    BY <1>1, <2>1, RecordOf
<1>3. row \in UserRow /\ row # None /\ row.fails = 0
  BY DEF UserRow, A!Locks, A!AccessAssumption
<1>4. user' = [user EXCEPT ![u] = row] => user'[u] = row
  BY DEF A!TypeOK
<1>5. Serves(r, u, new)
  BY <1>1, <1>2, <1>3, <1>4 DEF Serves, A!TypeOK
<1>6. ASSUME AccountsOK' PROVE A!LockoutBound'
  <2>1. \A v \in Users \ {u} : v \in unlocked' <=> v \in unlocked
    BY <1>1
  <2>2. CASE user' = [user EXCEPT ![u] = row]
    <3>1. user'[u].fails <= MaxFailed - 2
      BY <1>3, <1>4, <2>2 DEF A!AccessAssumption
    <3>2. QED
      BY <1>2, <1>5, <1>6, <2>1, <3>1, LockoutKeeps DEF AccountsOK
  <2>3. CASE UNCHANGED <<user, unlocked>>
    <3>1. A!Harmless(u)' = A!Harmless(u) /\ (A!LockPending(u)' <=> A!LockPending(u))
      BY <1>1, <1>2, TriesStay
    <3>2. QED
      BY <1>2, <1>5, <1>6, <2>3, <3>1, LockoutKeeps DEF AccountsOK
  <2>4. QED
    BY <1>1, <2>2, <2>3
<1>7. QED
  BY <1>1, <1>2, <1>5, <1>6, LoginKeeps

(* The eviction and the insert of the new session.                         *)
LEMMA EvictKeeps ==
    ASSUME AccessInv, A!AccessAssumption, NEW r \in Logins, NEW u \in Users,
           A!EvictOldestSessions(r, u)
    PROVE  AccessInv'
<1> DEFINE new == [login[r] EXCEPT !.pc = "session"]
           keep == MaxSessions - 1
<1>1. /\ A!At(r, "evict", u) /\ Going(r, new) /\ mishaps' \in Nat
      /\ UNCHANGED <<user, issued, served, uncounted, unlocked>>
      /\ \/ /\ UNCHANGED unevicted
            /\ sessions' = (sessions \ A!SessionsOf(u)) \union A!Newest(u, keep)
         \/ unevicted' = [unevicted EXCEPT ![u] = @ + 1] /\ UNCHANGED sessions
  BY DEF A!EvictOldestSessions, A!Goto, Going, A!Works, A!Fails, AccessInv, A!TypeOK
<1>2. /\ login[r].pc = "evict" /\ login[r].user = u /\ user[u] # None
      /\ new \in A!Request /\ new.pc = "session" /\ new.user = u
  <2>1. "evict" \in A!Pcs \ {"insert"} /\ "session" \in A!Pcs
    BY DEF A!Pcs
  <2>2. QED
    BY <1>1, <2>1, RecordOf
<1> USE DEF AccessInv, A!AccessBounded
<1>3. unevicted' \in [Users -> Nat] /\ \A v \in Users \ {u} : unevicted'[v] = unevicted[v]
  BY <1>1 DEF A!TypeOK
<1>4. Serves(r, u, new)
  BY <1>1, <1>2, <1>3 DEF Serves, A!TypeOK
<1>5. keep \in Nat
  BY DEF A!AccessAssumption
<1>6. /\ IsFiniteSet(A!Newest(u, keep)) /\ A!Newest(u, keep) \subseteq A!SessionsOf(u)
      /\ Cardinality(A!Newest(u, keep)) <= keep
  BY <1>5, NewestFew DEF Finite
<1>7. AccountsOK'
  <2>1. sessions' \subseteq sessions
    BY <1>1, <1>6 DEF A!SessionsOf
  <2>2. QED
    BY <1>1, <1>4, <2>1, ServesKeeps DEF AccountsOK
<1>8. A!SessionCap'
  <2>1. \A v \in Users \ {u} : A!SessionsOf(v)' = A!SessionsOf(v)
    BY <1>1, <1>6 DEF A!SessionsOf
  <2>2. CASE /\ UNCHANGED unevicted
             /\ sessions' = (sessions \ A!SessionsOf(u)) \union A!Newest(u, keep)
    <3>1. A!SessionsOf(u)' = A!Newest(u, keep)
      BY <1>6, <2>2 DEF A!SessionsOf
    <3>2. Cardinality(A!SessionsOf(u)') <= MaxSessions - 1
      BY <1>6, <3>1
    <3>3. QED
      BY <1>3, <1>4, <1>7, <2>1, <2>2, <3>2, CapKeeps DEF AccountsOK
  <2>3. CASE unevicted' = [unevicted EXCEPT ![u] = @ + 1] /\ UNCHANGED sessions
    <3>1. unevicted'[u] = unevicted[u] + 1 /\ A!SessionsOf(u)' = A!SessionsOf(u)
      BY <2>3 DEF A!TypeOK, A!SessionsOf
    <3>2. QED
      BY <1>3, <1>4, <1>7, <2>1, <3>1, CapKeeps DEF AccountsOK
  <2>4. QED
    BY <1>1, <2>2, <2>3
<1>9. A!LockoutBound'
  <2>1. A!Harmless(u)' = A!Harmless(u) /\ (A!LockPending(u)' <=> A!LockPending(u))
    BY <1>1, <1>2, TriesStay
  <2>2. QED
    BY <1>1, <1>2, <1>4, <1>7, <2>1, LockoutKeeps DEF AccountsOK
<1>10. A!RegistrationBounded'
  BY <1>1, <1>2, <1>4, <1>7, NobodyRegisters DEF AccountsOK
<1>11. QED
  BY <1>7, <1>8, <1>9, <1>10 DEF AccountsOK

LEMMA CreateKeeps ==
    ASSUME AccessInv, A!AccessAssumption, NEW r \in Logins, NEW u \in Users, A!CreateSession(r, u)
    PROVE  AccessInv'
<1> DEFINE s == [id |-> issued + 1, user |-> u]
<1>1. /\ A!At(r, "session", u) /\ Going(r, A!Idle) /\ mishaps' \in Nat
      /\ UNCHANGED <<user, served, uncounted, unlocked, unevicted>>
      /\ \/ issued' = issued + 1 /\ sessions' = sessions \union {s}
         \/ UNCHANGED <<sessions, issued>>
  BY DEF A!CreateSession, A!Return, Going, A!Works, A!Fails, AccessInv, A!TypeOK, A!histVars
<1>2. /\ login[r].pc = "session" /\ login[r].user = u /\ user[u] # None
      /\ A!Idle \in A!Request /\ A!Idle.pc = "none"
  <2>1. "session" \in A!Pcs \ {"insert"}
    BY DEF A!Pcs
  <2>2. QED
    BY <1>1, <2>1, RecordOf
<1> USE DEF AccessInv, A!AccessBounded
<1>3. Serves(r, u, A!Idle)
  BY <1>1, <1>2 DEF Serves, A!TypeOK
<1>4. AccountsOK'
  BY <1>1, <1>2, <1>3, ServesKeeps DEF AccountsOK
<1>5. A!SessionCap'
  <2>1. \A v \in Users \ {u} : A!SessionsOf(v)' = A!SessionsOf(v)
    BY <1>1 DEF A!SessionsOf
  <2>2. A!SessionsOf(u)' = A!SessionsOf(u) \union {s} \/ A!SessionsOf(u)' = A!SessionsOf(u)
    BY <1>1 DEF A!SessionsOf
  <2>3. QED
    BY <1>1, <1>2, <1>3, <1>4, <2>1, <2>2, CapKeeps DEF AccountsOK
<1>6. A!LockoutBound'
  <2>1. A!Harmless(u)' = A!Harmless(u) /\ (A!LockPending(u)' <=> A!LockPending(u))
    BY <1>1, <1>2, TriesStay
  <2>2. QED
    BY <1>1, <1>2, <1>3, <1>4, <2>1, LockoutKeeps DEF AccountsOK
<1>7. A!RegistrationBounded'
  BY <1>1, <1>2, <1>3, <1>4, NobodyRegisters DEF AccountsOK
<1>8. QED
  BY <1>4, <1>5, <1>6, <1>7 DEF AccountsOK

-----------------------------------------------------------------------------
(* The steps that are not a request's: a logout leaves fewer sessions,     *)
LEMMA LogoutKeeps ==
    ASSUME AccessInv, A!AccessAssumption, NEW s \in sessions, A!Logout(s)
    PROVE  AccessInv'
<1> USE DEF AccessInv, A!AccessBounded
<1>1. /\ sessions' \subseteq sessions /\ served' \in Nat /\ mishaps' \in Nat
      /\ UNCHANGED <<user, issued, login, uncounted, unlocked, unevicted>>
  BY DEF A!Logout, A!histVars, A!Works, A!Fails, A!TypeOK
<1>2. A!TypeOK' /\ Distinct' /\ Known'
  BY <1>1 DEF A!TypeOK, Distinct, Known
<1>3. Finite'
  BY <1>1, FS_Subset DEF Finite, A!Registered
<1>4. A!SessionCap'
  <2>1. ASSUME NEW u \in Users
        PROVE  /\ Cardinality(A!SessionsOf(u)') <= Cardinality(A!SessionsOf(u))
               /\ Cardinality(A!SessionsOf(u)') \in Nat /\ Cardinality(A!SessionsOf(u)) \in Nat
               /\ A!InHand("session", u)' = A!InHand("session", u)
    <3>1. A!SessionsOf(u)' \subseteq A!SessionsOf(u)
      BY <1>1 DEF A!SessionsOf
    <3>2. IsFiniteSet(A!SessionsOf(u)) /\ Cardinality(A!SessionsOf(u)) \in Nat
          /\ Cardinality(A!SessionsOf(u)') \in Nat
      BY <1>3, SessionsFinite DEF Finite
    <3>3. Cardinality(A!SessionsOf(u)') <= Cardinality(A!SessionsOf(u))
      BY <3>1, <3>2, FS_Subset
    <3>4. A!InHand("session", u)' = A!InHand("session", u)
      BY <1>1 DEF A!InHand, A!At
    <3>5. QED
      BY <3>2, <3>3, <3>4
  <2>2. ASSUME NEW u \in Users PROVE Room(u)'
    <3>1. Room(u) /\ unevicted[u] \in Nat /\ unevicted'[u] = unevicted[u]
      BY <1>1 DEF A!SessionCap, Room, A!TypeOK
    <3>2. A!InHand("session", u) \in SUBSET Logins /\ IsFiniteSet(Logins)
      BY DEF A!InHand, A!AccessAssumption
    <3>3. Cardinality(A!InHand("session", u)) \in Nat
      BY <3>2, FS_Subset, FS_CardinalityType
    <3>4. Cardinality(Logins) \in Nat /\ MaxSessions \in Nat
      BY RequestsCounted DEF A!AccessAssumption
    <3>5. QED
      BY <2>1, <3>1, <3>3, <3>4 DEF Room
  <2>3. QED
    BY <2>2 DEF A!SessionCap, Room
<1>5. A!LockoutBound' /\ A!RegistrationBounded'
  BY <1>1 DEF A!LockoutBound, A!RegistrationBounded, A!Registered, A!Registering,
              A!Harmless,
              A!InHand, A!LockPending, A!At
<1>6. QED
  BY <1>2, <1>3, <1>4, <1>5

(* a lock that runs out is another than none,                              *)
LEMMA ExpiresKeeps ==
    ASSUME AccessInv, A!AccessAssumption, NEW u \in Users, A!LockExpires(u)
    PROVE  AccessInv'
<1> USE DEF AccessInv, A!AccessBounded
<1>1. /\ user' = [user EXCEPT ![u].lock = "over"] /\ user[u] # None
      /\ UNCHANGED <<sessions, issued, login, served, mishaps, uncounted, unlocked, unevicted>>
  BY DEF A!LockExpires, A!boundVars, A!histVars
<1>2. /\ user[u] \in UserRow /\ [user[u] EXCEPT !.lock = "over"] \in UserRow
      /\ [user[u] EXCEPT !.lock = "over"].lock = "over"
  BY <1>1 DEF A!TypeOK, UserRow, A!Locks
<1>3. /\ user' \in [Users -> UserRow \union {None}]
      /\ user'[u] # None /\ user'[u].lock = "over"
      /\ \A v \in Users : v # u => user'[v] = user[v]
  BY <1>1, <1>2 DEF A!TypeOK, UserRow, A!AccessAssumption
<1>4. A!TypeOK'
  BY <1>1, <1>3 DEF A!TypeOK, UserRow
<1>5. A!Registered' = A!Registered
  BY <1>1, <1>3 DEF A!Registered
<1>6. Known'
  BY <1>1, <1>3 DEF Known, A!TypeOK, A!Request, A!Idle
<1>7. Distinct' /\ Finite'
  BY <1>1, <1>5 DEF Distinct, Finite
<1>8. A!SessionCap' /\ A!RegistrationBounded'
  BY <1>1, <1>5 DEF A!SessionCap, A!RegistrationBounded, A!SessionsOf, A!InHand, A!At,
                    A!Registering
<1>9. A!LockoutBound'
  BY <1>1, <1>3, <1>5 DEF A!LockoutBound, A!Harmless, A!InHand, A!LockPending, A!At,
                        A!Registered
<1>10. QED
  BY <1>4, <1>6, <1>7, <1>8, <1>9

(* and a crash leaves no request in hand.                                  *)
LEMMA CrashKeeps ==
    ASSUME AccessInv, A!AccessAssumption, A!Crash
    PROVE  AccessInv'
<1> USE DEF AccessInv, A!AccessBounded
<1>1. /\ login' = [r \in Logins |-> A!Idle] /\ mishaps' \in Nat
      /\ unlocked' = unlocked \union {u \in Users : A!LockPending(u)}
      /\ UNCHANGED <<user, sessions, issued, served, uncounted, unevicted>>
  BY DEF A!Crash, A!rowVars, A!TypeOK
<1>2. \A r \in Logins : login'[r].pc = "none" /\ login'[r] \in A!Request
  BY <1>1 DEF A!Idle, A!Request
<1>3. A!TypeOK'
  <2>1. login' \in [Logins -> A!Request]
    BY <1>1 DEF A!Request
  <2>2. QED
    BY <1>1, <2>1 DEF A!TypeOK
<1>4. Distinct' /\ Known' /\ Finite'
  BY <1>1, <1>2 DEF Distinct, Known, Finite, A!Registered
<1>5. Cardinality({}) = 0 /\ Cardinality(Logins) \in Nat
  BY FS_EmptySet, RequestsCounted
<1>6. A!SessionCap'
  <2>1. ASSUME NEW u \in Users PROVE Room(u)'
    <3>1. A!InHand("session", u)' = {} /\ A!SessionsOf(u)' = A!SessionsOf(u)
      BY <1>1, <1>2 DEF A!InHand, A!At, A!SessionsOf
    <3>2. A!InHand("session", u) \in SUBSET Logins /\ IsFiniteSet(Logins)
      BY DEF A!InHand, A!AccessAssumption
    <3>3. Cardinality(A!InHand("session", u)) \in Nat
      BY <3>2, FS_Subset, FS_CardinalityType
    <3>4. Cardinality(A!SessionsOf(u)) \in Nat
      BY <1>4, SessionsFinite DEF Finite
    <3>5. Room(u) /\ unevicted'[u] = unevicted[u] /\ unevicted[u] \in Nat
      BY <1>1 DEF A!SessionCap, Room, A!TypeOK
    <3>6. /\ Cardinality(A!InHand("session", u)') = 0
          /\ Cardinality(A!SessionsOf(u)') = Cardinality(A!SessionsOf(u))
      BY <1>5, <3>1
    <3>7. MaxSessions \in Nat
      BY DEF A!AccessAssumption
    <3>8. QED
      BY <1>5, <3>3, <3>4, <3>5, <3>6, <3>7 DEF Room
  <2>2. QED
    BY <2>1 DEF A!SessionCap, Room
<1>7. A!LockoutBound'
  <2>1. ASSUME NEW u \in (A!Registered \ unlocked)', user'[u].lock = "none"
        PROVE  user'[u].fails + Cardinality(A!Harmless(u)')
                  <= MaxFailed - 2 + Cardinality(Logins)
    <3>1. u \in A!Registered \ unlocked /\ ~ A!LockPending(u) /\ user' = user
      BY <1>1 DEF A!Registered
    <3>2. user[u].fails + Cardinality(A!Harmless(u)) <= MaxFailed - 2 + Cardinality(Logins)
      BY <2>1, <3>1 DEF A!LockoutBound
    <3>3. A!Harmless(u)' = {} /\ Cardinality(A!Harmless(u)) \in Nat
      BY <1>2, HarmlessCounted DEF A!Harmless, A!InHand, A!At
    <3>4. user[u].fails \in Nat
      BY <3>1 DEF A!Registered, A!TypeOK
    <3>5. QED
      BY <1>5, <3>1, <3>2, <3>3, <3>4 DEF A!AccessAssumption
  <2>2. QED
    BY <2>1 DEF A!LockoutBound
<1>8. A!RegistrationBounded'
  <2>1. A!Registered' = A!Registered /\ A!Registering' = {}
    BY <1>1, <1>2 DEF A!Registered, A!Registering
  <2>2. QED
    BY <1>1, <1>3, <1>4, <2>1, RegistrationKeeps DEF AccountsOK
<1>9. QED
  BY <1>3, <1>4, <1>6, <1>7, <1>8

-----------------------------------------------------------------------------
(* Access: the invariant holds at first,                                   *)
LEMMA AccessInitially ==
    ASSUME A!AccessAssumption, A!Init
    PROVE  AccessInv
<1>1. A!Registered = {} /\ A!Registering = {}
  BY DEF A!Init, A!Registered, A!Registering, A!Idle
<1>2. A!TypeOK
  BY DEF A!Init, A!TypeOK, A!Request
<1>3. Distinct /\ Known
  BY DEF A!Init, Distinct, Known, A!Idle
<1>4. /\ IsFiniteSet({}) /\ Cardinality({}) = 0
      /\ Cardinality(Logins) \in Nat \ {0} /\ MaxSessions \in Nat \ {0}
  BY FS_EmptySet, RequestsCounted DEF A!AccessAssumption
<1>5. Finite
  BY <1>1, <1>4 DEF Finite, A!Init
<1>6. A!SessionCap
  <2>1. ASSUME NEW u \in Users PROVE Room(u)
    <3>1. A!SessionsOf(u) = {} /\ A!InHand("session", u) = {} /\ unevicted[u] = 0
      BY DEF A!Init, A!SessionsOf, A!InHand, A!At, A!Idle
    <3>2. Cardinality(A!SessionsOf(u)) = 0 /\ Cardinality(A!InHand("session", u)) = 0
      BY <1>4, <3>1
    <3>3. 0 + 0 <= MaxSessions - 1 + Cardinality(Logins) + 0
      BY <1>4
    <3>4. QED
      BY <3>1, <3>2, <3>3 DEF Room
  <2>2. QED
    BY <2>1 DEF A!SessionCap, Room
<1>7. A!LockoutBound
  BY <1>1 DEF A!LockoutBound
<1>8. A!RegistrationBounded
  BY <1>1, <1>4 DEF A!RegistrationBounded, A!Init
<1>9. QED
  BY <1>2, <1>3, <1>5, <1>6, <1>7, <1>8 DEF AccessInv, A!AccessBounded

(* and every step keeps it.                                                *)
LEMMA AccessKeeps ==
    ASSUME A!AccessAssumption, AccessInv, [A!Next]_(A!vars)
    PROVE  AccessInv'
<1>1. ASSUME NEW r \in Logins, NEW u \in Users,
             A!RegisterGate(r, u) \/ A!RegisterInsert(r, u)
      PROVE  AccessInv'
  BY <1>1, GateKeeps, InsertKeeps
<1>2. ASSUME NEW r \in Logins, NEW u \in Users, A!Login(r, u)
      PROVE  AccessInv'
  <2>1. CASE A!LoginWrong(r, u) \/ A!IncrementFailedLogin(r, u) \/ A!LockUser(r, u)
    BY <2>1, WrongKeeps, IncrementKeeps, LockKeeps
  <2>2. CASE A!LoginRight(r, u) \/ A!ResetFailedLogin(r, u)
    BY <2>2, RightKeeps, ResetKeeps
  <2>3. CASE A!EvictOldestSessions(r, u) \/ A!CreateSession(r, u)
    BY <2>3, EvictKeeps, CreateKeeps
  <2>4. QED
    BY <1>2, <2>1, <2>2, <2>3 DEF A!Login
<1>3. ASSUME NEW s \in sessions, A!Logout(s)
      PROVE  AccessInv'
  BY <1>3, LogoutKeeps
<1>4. ASSUME NEW u \in Users, A!LockExpires(u)
      PROVE  AccessInv'
  BY <1>4, ExpiresKeeps
<1>5. CASE A!Crash
  BY <1>5, CrashKeeps
<1>6. CASE UNCHANGED A!vars
  <2>1. /\ user' = user /\ sessions' = sessions /\ issued' = issued /\ login' = login
        /\ served' = served /\ mishaps' = mishaps /\ uncounted' = uncounted
        /\ unlocked' = unlocked /\ unevicted' = unevicted
    BY <1>6 DEF A!vars, A!rowVars, A!boundVars, A!histVars
  <2>2. A!TypeOK' /\ Distinct' /\ Known' /\ Finite'
    BY <2>1 DEF AccessInv, A!TypeOK, Distinct, Known, Finite, A!Registered
  <2>3. A!SessionCap' /\ A!RegistrationBounded'
    BY <2>1 DEF AccessInv, A!AccessBounded, A!SessionCap, A!RegistrationBounded,
                A!SessionsOf,
                A!InHand, A!At, A!Registered, A!Registering
  <2>4. A!LockoutBound'
    BY <2>1 DEF AccessInv, A!AccessBounded, A!LockoutBound, A!Harmless, A!InHand,
                A!LockPending,
                A!At, A!Registered
  <2>5. QED
    BY <2>2, <2>3, <2>4 DEF AccessInv, A!AccessBounded
<1>7. QED
  BY <1>1, <1>2, <1>3, <1>4, <1>5, <1>6 DEF A!Next

(* Access: the types of the state hold throughout.                         *)
THEOREM AccessTypesHold == A!AccessAssumption => (A!Spec => []A!TypeOK)
<1> SUFFICES ASSUME A!AccessAssumption PROVE A!Spec => []A!TypeOK
  OBVIOUS
<1>1. A!Init => AccessInv
  BY AccessInitially
<1>2. AccessInv /\ [A!Next]_(A!vars) => AccessInv'
  BY AccessKeeps
<1>3. AccessInv => A!TypeOK
  BY DEF AccessInv
<1>4. QED
  BY <1>1, <1>2, <1>3, PTL DEF A!Spec

(* Access: for any number of users and requests at the same time, whatever *)
(* fails, session cap, lock-out and first registration hold but for the    *)
(* requests in hand (modules/auth/handler.go, Login and Register).         *)
THEOREM AccessBoundedHolds == A!AccessAssumption => (A!Spec => []AccessBounded)
<1> SUFFICES ASSUME A!AccessAssumption PROVE A!Spec => []AccessBounded
  OBVIOUS
<1>1. A!Init => AccessInv
  BY AccessInitially
<1>2. AccessInv /\ [A!Next]_(A!vars) => AccessInv'
  BY AccessKeeps
<1>3. AccessInv => AccessBounded
  BY DEF AccessInv, AccessBounded
<1>4. QED
  BY <1>1, <1>2, <1>3, PTL DEF A!Spec

-----------------------------------------------------------------------------
(* The sessions that a step other than a logout throws out.                *)
NewestKept ==
    served' = served =>
        \A s \in sessions \ sessions' :
            Cardinality({t \in A!SessionsOf(s.user)' : t.id > s.id}) >= MaxSessions - 1

LEMMA StepKeepsNewest ==
    ASSUME A!AccessAssumption, AccessInv, [A!Next]_(A!vars)
    PROVE  NewestKept
<1>1. CASE sessions \subseteq sessions'
  BY <1>1 DEF NewestKept
<1>2. ASSUME NEW s \in sessions, A!Logout(s) PROVE NewestKept
  <2>1. served' # served
    BY <1>2 DEF A!Logout, AccessInv, A!TypeOK
  <2>2. QED
    BY <2>1 DEF NewestKept
<1>3. ASSUME NEW r \in Logins, NEW u \in Users, A!EvictOldestSessions(r, u),
             sessions' = (sessions \ A!SessionsOf(u)) \union A!Newest(u, MaxSessions - 1)
      PROVE  NewestKept
  <2>1. MaxSessions - 1 \in Nat
    BY DEF A!AccessAssumption
  <2>2. A!Newest(u, MaxSessions - 1) \subseteq A!SessionsOf(u)
    BY DEF A!Newest
  <2>3. A!SessionsOf(u)' = A!Newest(u, MaxSessions - 1)
    BY <1>3, <2>2 DEF A!SessionsOf
  <2>4. ASSUME NEW s \in sessions \ sessions'
        PROVE  Cardinality({t \in A!SessionsOf(s.user)' : t.id > s.id}) >= MaxSessions - 1
    <3>1. s \in A!SessionsOf(u) \ A!Newest(u, MaxSessions - 1) /\ s.user = u
      BY <1>3 DEF A!SessionsOf
    <3>2. Cardinality({t \in A!Newest(u, MaxSessions - 1) : t.id > s.id}) >= MaxSessions - 1
      BY <2>1, <3>1, NewestStay DEF AccessInv, Finite
    <3>3. QED
      BY <2>3, <3>1, <3>2
  <2>5. QED
    BY <2>4 DEF NewestKept
<1>4. ASSUME NEW r \in Logins, NEW u \in Users,
             A!RegisterGate(r, u) \/ A!RegisterInsert(r, u) \/ A!Login(r, u)
      PROVE  \/ sessions \subseteq sessions'
             \/ /\ A!EvictOldestSessions(r, u)
                /\ sessions' = (sessions \ A!SessionsOf(u)) \union A!Newest(u, MaxSessions - 1)
  BY <1>4 DEF A!RegisterGate, A!RegisterInsert, A!Login, A!LoginWrong,
              A!IncrementFailedLogin, A!LockUser, A!LoginRight, A!ResetFailedLogin,
              A!EvictOldestSessions,
              A!CreateSession, A!rowVars
<1>5. CASE A!Crash
  BY <1>1, <1>5 DEF A!Crash, A!rowVars
<1>6. ASSUME NEW u \in Users, A!LockExpires(u) PROVE NewestKept
  BY <1>1, <1>6 DEF A!LockExpires
<1>7. CASE UNCHANGED A!vars
  BY <1>1, <1>7 DEF A!vars, A!rowVars
<1>8. QED
  BY <1>1, <1>2, <1>3, <1>4, <1>5, <1>6, <1>7 DEF A!Next

(* Access: a login throws out a session only when as many newer ones of its*)
(* user stay as the cap leaves (modules/auth/repo.go, EvictOldestSessions).*)
THEOREM NewestSessionsKeptHolds == A!AccessAssumption => (A!Spec => NewestSessionsKept)
<1> SUFFICES ASSUME A!AccessAssumption PROVE A!Spec => NewestSessionsKept
  OBVIOUS
<1>1. A!Init => AccessInv
  BY AccessInitially
<1>2. AccessInv /\ [A!Next]_(A!vars) => AccessInv'
  BY AccessKeeps
<1>3. AccessInv /\ [A!Next]_(A!vars) =>
        [served' = served =>
            \A s \in sessions \ sessions' :
                A!Cardinality({t \in A!SessionsOf(s.user)' : t.id > s.id})
                    >= MaxSessions - 1]_(A!vars)
  BY StepKeepsNewest DEF NewestKept
<1>4. QED
  BY <1>1, <1>2, <1>3, PTL DEF A!Spec, NewestSessionsKept, A!NewestSessionsKept

-----------------------------------------------------------------------------

(* A goroutine of the session that is served; only these are heard.        *)
Current(t) == task[t] # R!Free /\ serving /\ task[t].session = session

OnWire(j) == \E i \in 1..Len(wire) : wire[i] = j

(* The jobs on the wire have been asked for, each once, and their end has  *)
(* not been heard.                                                         *)
WireOK ==
    /\ \A i \in 1..Len(wire) : wire[i] \in asked /\ heard[wire[i]] \notin R!Outcomes
    /\ \A i, k \in 1..Len(wire) : wire[i] = wire[k] => i = k

(* A job asked for in this session has left the wire for one goroutine; if *)
(* its end has been heard the goroutine is about to say the same again.    *)
TasksOK ==
    /\ \A t \in Tasks : task[t] # R!Free => task[t].session <= session
    /\ \A t \in Tasks : Current(t) => /\ task[t].job \in asked
                                      /\ ~ OnWire(task[t].job)
    /\ \A t, u \in Tasks : Current(t) /\ Current(u) /\ task[t].job = task[u].job => t = u
    /\ \A t \in Tasks : Current(t) /\ heard[task[t].job] \in R!Outcomes
                           => task[t].pc = heard[task[t].job]

RunnerTypes ==
    /\ session \in Nat /\ serving \in BOOLEAN /\ connected \in BOOLEAN
    /\ wire \in Seq(Jobs) /\ asked \subseteq Jobs
    /\ task \in [Tasks -> R!Task]
    /\ heard \in [Jobs -> {None, "building"} \union R!Outcomes]

SessionOK == (connected => serving) /\ (~connected => wire = <<>>)

RunnerInv == RunnerTypes /\ SessionOK /\ WireOK /\ TasksOK

-----------------------------------------------------------------------------
(* Runner: the types of the state hold throughout.                         *)
LEMMA RunnerTypesStep ==
    ASSUME RunnerTypes, [R!Next]_(R!vars)
    PROVE  RunnerTypes'
<1> USE DEF RunnerTypes, R!Task, R!Outcomes
<1>0. <<>> \in Seq(Jobs)
  OBVIOUS
<1>1. CASE R!ConnectAndServe
  BY <1>1 DEF R!ConnectAndServe
<1>2. ASSUME NEW j \in Jobs, R!HubSends(j)
      PROVE  RunnerTypes'
  <2>1. wire' \in Seq(Jobs) /\ asked' \subseteq Jobs
    BY <1>2 DEF R!HubSends
  <2>2. QED
    BY <1>2, <2>1 DEF R!HubSends
<1>3. CASE R!ConnectionBreaks
  BY <1>0, <1>3 DEF R!ConnectionBreaks
<1>4. CASE R!ReadError
  BY <1>4 DEF R!ReadError
<1>5. CASE R!Crash
  BY <1>0, <1>5 DEF R!Crash
<1>6. ASSUME NEW t \in Tasks, R!HandleMessage(t)
      PROVE  RunnerTypes'
  <2>1. Tail(wire) \in Seq(Jobs) /\ Head(wire) \in Jobs
    BY <1>6 DEF R!HandleMessage
  <2>2. QED
    BY <1>6, <2>1 DEF R!HandleMessage
<1>7. ASSUME NEW t \in Tasks, R!BeginJob(t)
      PROVE  RunnerTypes'
  BY <1>7 DEF R!BeginJob, R!At, R!Goto, R!Send
<1>8. ASSUME NEW t \in Tasks, R!ReportStep(t)
      PROVE  RunnerTypes'
  BY <1>8 DEF R!ReportStep, R!At, R!Send
<1>9. ASSUME NEW t \in Tasks, R!ExecuteDeploy(t)
      PROVE  RunnerTypes'
  <2>1. PICK o \in R!Outcomes : R!Goto(t, o) /\ (R!Send(t, o) \/ UNCHANGED heard)
    BY <1>9 DEF R!ExecuteDeploy
  <2>2. heard' \in [Jobs -> {None, "building"} \union R!Outcomes]
    BY <1>9, <2>1 DEF R!Send
  <2>3. task' \in [Tasks -> R!Task]
    BY <1>9, <2>1 DEF R!ExecuteDeploy, R!At, R!Goto
  <2>4. QED
    BY <1>9, <2>2, <2>3 DEF R!ExecuteDeploy
<1>10. ASSUME NEW t \in Tasks, R!ReportEnd(t)
       PROVE  RunnerTypes'
  <2>1. PICK o \in R!Outcomes : R!At(t, o) /\ R!Send(t, o)
    BY <1>10 DEF R!ReportEnd
  <2>2. heard' \in [Jobs -> {None, "building"} \union R!Outcomes]
    BY <2>1 DEF R!Send, R!At
  <2>3. QED
    BY <1>10, <2>2 DEF R!ReportEnd, R!Free
<1>11. CASE UNCHANGED R!vars
  BY <1>11 DEF R!vars
<1>12. QED
  BY <1>1, <1>2, <1>3, <1>4, <1>5, <1>6, <1>7, <1>8, <1>9, <1>10, <1>11 DEF R!Next

(* A step that changes nothing of the wire and lets one goroutine go on,   *)
(* saying at most what agrees with where it then is.                       *)
Tells(t) ==
    /\ UNCHANGED <<session, serving, connected, wire, asked>>
    /\ task[t] # R!Free
    /\ \A u \in Tasks : u # t => task'[u] = task[u]
    /\ task'[t] # R!Free => /\ task'[t].job = task[t].job
                          /\ task'[t].session = task[t].session
    /\ \A j \in Jobs : j # task[t].job => heard'[j] = heard[j]
    /\ heard'[task[t].job] = heard[task[t].job] \/ Current(t)
    /\ Current(t) /\ task'[t] # R!Free /\ heard'[task[t].job] \in R!Outcomes
         => task'[t].pc = heard'[task[t].job]

LEMMA TellsStep ==
    ASSUME RunnerInv, RunnerTypes', NEW t \in Tasks, Tells(t)
    PROVE  RunnerInv'
<1> USE DEF RunnerInv, RunnerTypes, R!Task
<1>1. task[t].job \in Jobs
  BY DEF Tells
<1>2. \A u \in Tasks : Current(u)' => Current(u) /\ task'[u].job = task[u].job
  BY DEF Tells, Current
<1>3. SessionOK'
  BY DEF Tells, SessionOK
<1>4. WireOK'
  <2>1. \A i \in 1..Len(wire) : wire[i] \in Jobs
    OBVIOUS
  <2>2. \A i \in 1..Len(wire) : heard'[wire[i]] = heard[wire[i]]
    BY <2>1 DEF Tells, TasksOK, OnWire
  <2>3. QED
    BY <2>2 DEF Tells, WireOK
<1>5. TasksOK'
  <2>1. \A u \in Tasks : task'[u] # R!Free => task'[u].session <= session'
    BY DEF Tells, TasksOK
  <2>2. ASSUME NEW u \in Tasks, Current(u)'
        PROVE  task'[u].job \in asked' /\ ~ OnWire(task[u].job)'
    BY <1>2, <2>2 DEF Tells, TasksOK, OnWire
  <2>3. ASSUME NEW u \in Tasks, NEW v \in Tasks, Current(u)', Current(v)',
               task'[u].job = task'[v].job
        PROVE  u = v
    BY <1>2, <2>3 DEF TasksOK
  <2>4. ASSUME NEW u \in Tasks, Current(u)', heard'[task'[u].job] \in R!Outcomes
        PROVE  task'[u].pc = heard'[task'[u].job]
    <3>1. CASE u = t
      BY <1>2, <2>4, <3>1 DEF Tells, Current
    <3>2. CASE u # t /\ task[u].job # task[t].job
      BY <1>2, <2>4, <3>2 DEF Tells, TasksOK, Current
    <3>3. CASE u # t /\ task[u].job = task[t].job
      <4>1. ~ Current(t)
        BY <1>2, <2>4, <3>3 DEF TasksOK
      <4>2. QED
        BY <1>2, <2>4, <3>3, <4>1 DEF Tells, TasksOK, Current
    <3>4. QED
      BY <3>1, <3>2, <3>3
  <2>5. QED
    BY <2>1, <2>2, <2>3, <2>4, <1>2 DEF TasksOK, OnWire, Tells
<1>6. QED
  BY <1>3, <1>4, <1>5

(* What the steps of runDeployJob are of this kind.                        *)
LEMMA TaskStepTells ==
    ASSUME RunnerInv, NEW t \in Tasks,
           R!BeginJob(t) \/ R!ReportStep(t) \/ R!ExecuteDeploy(t) \/ R!ReportEnd(t)
    PROVE  /\ Tells(t)
           /\ \A j \in Jobs : heard[j] \in R!Outcomes => heard'[j] = heard[j]
<1> USE DEF RunnerInv, RunnerTypes, R!Task, Tells, R!Outcomes
<1>2. CASE R!BeginJob(t)
  <2>1. Current(t) => heard[task[t].job] \notin R!Outcomes
    BY <1>2 DEF TasksOK, R!BeginJob, R!At
  <2>2. QED
    BY <1>2, <2>1 DEF R!BeginJob, R!At, R!Goto, R!Send, R!Live, Current
<1>3. CASE R!ReportStep(t)
  <2>1. Current(t) => heard[task[t].job] \notin R!Outcomes
    BY <1>3 DEF TasksOK, R!ReportStep, R!At
  <2>2. QED
    BY <1>3, <2>1 DEF R!ReportStep, R!At, R!Send, R!Live, Current
<1>4. CASE R!ExecuteDeploy(t)
  <2>1. Current(t) => heard[task[t].job] \notin R!Outcomes
    BY <1>4 DEF TasksOK, R!ExecuteDeploy, R!At
  <2>2. PICK o \in R!Outcomes : R!Goto(t, o) /\ (R!Send(t, o) \/ UNCHANGED heard)
    BY <1>4 DEF R!ExecuteDeploy
  <2>3. QED
    BY <1>4, <2>1, <2>2 DEF R!ExecuteDeploy, R!At, R!Goto, R!Send, R!Live, Current
<1>5. CASE R!ReportEnd(t)
  <2>1. PICK o \in R!Outcomes : R!At(t, o) /\ R!Send(t, o)
    BY <1>5 DEF R!ReportEnd
  <2>2. Current(t) /\ heard[task[t].job] \in R!Outcomes => heard[task[t].job] = o
    BY <2>1 DEF TasksOK, R!At
  <2>3. QED
    BY <1>5, <2>1, <2>2 DEF R!ReportEnd, R!At, R!Send, R!Live, Current
<1>6. QED
  BY <1>2, <1>3, <1>4, <1>5

-----------------------------------------------------------------------------
(* A job joins the wire, asked for the first time in the session.          *)
LEMMA HubSendsStep ==
    ASSUME RunnerInv, RunnerTypes', NEW j \in Jobs, R!HubSends(j)
    PROVE  RunnerInv'
<1> USE DEF RunnerInv, RunnerTypes
<1>1. /\ wire' = Append(wire, j) /\ asked' = asked \union {j}
      /\ UNCHANGED <<session, serving, connected, task, heard>>
      /\ j \notin asked /\ heard[j] \notin R!Outcomes /\ connected
  BY DEF R!HubSends
<1>2. /\ Len(wire') = Len(wire) + 1 /\ Len(wire) \in Nat
      /\ \A i \in 1..Len(wire) : wire'[i] = wire[i]
      /\ wire'[Len(wire) + 1] = j
  BY <1>1
<1>3. \A u \in Tasks : Current(u)' <=> Current(u)
  BY <1>1 DEF Current
<1>4. WireOK'
  BY <1>1, <1>2 DEF WireOK
<1>5. \A u \in Tasks : Current(u) => ~ OnWire(task[u].job)'
  BY <1>1, <1>2 DEF TasksOK, OnWire
<1>6. TasksOK'
  BY <1>1, <1>3, <1>5 DEF TasksOK
<1>7. QED
  BY <1>1, <1>4, <1>6 DEF SessionOK

(* A job leaves the wire for a goroutine of its own.                       *)
LEMMA HandleMessageStep ==
    ASSUME RunnerInv, RunnerTypes', NEW t \in Tasks, R!HandleMessage(t)
    PROVE  RunnerInv'
<1> USE DEF RunnerInv, RunnerTypes
<1>1. /\ wire' = Tail(wire) /\ wire # <<>> /\ serving /\ task[t] = R!Free
      /\ task' = [task EXCEPT ![t] =
                     [pc |-> "begin", job |-> Head(wire), session |-> session]]
      /\ UNCHANGED <<session, serving, connected, asked, heard>>
  BY DEF R!HandleMessage
<1>2. /\ Len(wire) \in Nat \ {0} /\ Len(wire') = Len(wire) - 1
      /\ \A i \in 1..Len(wire') : wire'[i] = wire[i + 1]
      /\ Head(wire) = wire[1] /\ Head(wire) \in Jobs
  BY <1>1
<1>3. WireOK'
  BY <1>1, <1>2 DEF WireOK
<1>4. \A i \in 1..Len(wire') : wire'[i] # Head(wire)
  <2>1. \A i \in 1..Len(wire') : i + 1 \in 1..Len(wire) /\ 1 \in 1..Len(wire) /\ i + 1 # 1
    BY <1>2
  <2>2. QED
    BY <1>2, <2>1 DEF WireOK
<1>5. \A j : OnWire(j)' => OnWire(j)
  BY <1>2 DEF OnWire
<1>6. /\ task'[t] = [pc |-> "begin", job |-> Head(wire), session |-> session]
      /\ \A u \in Tasks : u # t => task'[u] = task[u]
  BY <1>1
<1>7. Head(wire) \in asked /\ heard[Head(wire)] \notin R!Outcomes
  BY <1>2 DEF WireOK
<1>8. \A u \in Tasks : u # t /\ Current(u)' => Current(u) /\ task[u].job # Head(wire)
  BY <1>1, <1>2, <1>6 DEF Current, TasksOK, OnWire
<1>9. TasksOK'
  <2>1. \A u \in Tasks : task'[u] # R!Free => task'[u].session <= session'
    BY <1>1, <1>6 DEF TasksOK
  <2>2. task'[t].job = Head(wire)
    BY <1>6
  <2>3. \A u \in Tasks : Current(u)' =>
           /\ task'[u].job \in asked'
           /\ \A i \in 1..Len(wire') : wire'[i] # task'[u].job
    <3>1. ASSUME NEW u \in Tasks, Current(u)', u # t
          PROVE  /\ task'[u].job \in asked'
                 /\ \A i \in 1..Len(wire') : wire'[i] # task'[u].job
      BY <1>1, <1>5, <1>6, <1>8, <3>1 DEF TasksOK, OnWire
    <3>2. QED
      BY <1>1, <1>4, <1>7, <2>2, <3>1
  <2>4. \A u, v \in Tasks : Current(u)' /\ Current(v)' /\ task'[u].job = task'[v].job
                               => u = v
    BY <1>6, <1>8 DEF TasksOK
  <2>5. \A u \in Tasks : Current(u)' /\ heard'[task'[u].job] \in R!Outcomes
                            => task'[u].pc = heard'[task'[u].job]
    BY <1>1, <1>6, <1>7, <1>8 DEF TasksOK
  <2>6. QED
    BY <2>1, <2>3, <2>4, <2>5 DEF TasksOK, OnWire
<1>10. QED
  BY <1>1, <1>3, <1>9 DEF SessionOK

(* The connection comes and goes, and with it the goroutines' say.         *)
LEMMA ConnectionStep ==
    ASSUME RunnerInv, RunnerTypes',
           R!ConnectAndServe \/ R!ConnectionBreaks \/ R!ReadError \/ R!Crash
    PROVE  RunnerInv' /\ UNCHANGED heard
<1> USE DEF RunnerInv, RunnerTypes
<1>1. CASE R!ConnectAndServe
  <2>1. \A u \in Tasks : ~ Current(u)'
    BY <1>1 DEF R!ConnectAndServe, Current, TasksOK, R!Task
  <2>2. \A u \in Tasks : task'[u] # R!Free => task'[u].session <= session'
    BY <1>1 DEF R!ConnectAndServe, TasksOK, R!Task
  <2>3. QED
    BY <1>1, <2>1, <2>2 DEF R!ConnectAndServe, SessionOK, WireOK, TasksOK
<1>2. CASE R!ConnectionBreaks
  BY <1>2 DEF R!ConnectionBreaks, SessionOK, WireOK, TasksOK, OnWire, Current
<1>3. CASE R!ReadError
  BY <1>3 DEF R!ReadError, SessionOK, WireOK, TasksOK, OnWire, Current
<1>4. CASE R!Crash
  BY <1>4 DEF R!Crash, SessionOK, WireOK, TasksOK, OnWire, Current
<1>5. QED
  BY <1>1, <1>2, <1>3, <1>4

-----------------------------------------------------------------------------
(* Runner: the invariant holds at first,                                   *)
LEMMA RunnerInitially == R!Init => RunnerInv
<1> SUFFICES ASSUME R!Init PROVE RunnerInv
  OBVIOUS
<1>1. RunnerTypes
  <2>1. wire \in Seq(Jobs)
    BY DEF R!Init
  <2>2. QED
    BY <2>1 DEF R!Init, RunnerTypes, R!Task
<1>2. SessionOK /\ WireOK
  BY DEF R!Init, SessionOK, WireOK
<1>3. TasksOK
  BY DEF R!Init, TasksOK, Current
<1>4. QED
  BY <1>1, <1>2, <1>3 DEF RunnerInv

(* and every step keeps it and what has been heard of the jobs' ends.      *)
LEMMA RunnerKeeps ==
    ASSUME RunnerInv, [R!Next]_(R!vars)
    PROVE  /\ RunnerInv'
           /\ \A j \in Jobs : heard[j] \in R!Outcomes => heard'[j] = heard[j]
<1>1. RunnerTypes'
  BY RunnerTypesStep DEF RunnerInv
<1>2. CASE R!ConnectAndServe \/ R!ConnectionBreaks \/ R!ReadError \/ R!Crash
  BY <1>1, <1>2, ConnectionStep
<1>3. ASSUME NEW j \in Jobs, R!HubSends(j)
      PROVE  RunnerInv' /\ UNCHANGED heard
  BY <1>1, <1>3, HubSendsStep DEF R!HubSends
<1>4. ASSUME NEW t \in Tasks, R!HandleMessage(t)
      PROVE  RunnerInv' /\ UNCHANGED heard
  BY <1>1, <1>4, HandleMessageStep DEF R!HandleMessage
<1>5. ASSUME NEW t \in Tasks,
             R!BeginJob(t) \/ R!ReportStep(t) \/ R!ExecuteDeploy(t) \/ R!ReportEnd(t)
      PROVE  /\ RunnerInv'
             /\ \A j \in Jobs : heard[j] \in R!Outcomes => heard'[j] = heard[j]
  BY <1>1, <1>5, TaskStepTells, TellsStep
<1>6. CASE UNCHANGED R!vars
  BY <1>6 DEF R!vars, RunnerInv, RunnerTypes, SessionOK, WireOK, TasksOK, Current, OnWire
<1>7. QED
  BY <1>2, <1>3, <1>4, <1>5, <1>6 DEF R!Next

(* Runner: whatever the sessions and goroutines, what the hub has heard of *)
(* a job's end is never taken back (runner/client.go, runDeployJob).       *)
THEOREM OutcomeStandsHolds == R!Spec => OutcomeStands
<1>1. RunnerInv /\ [R!Next]_(R!vars)
        => [\A j \in Jobs : heard[j] \in R!Outcomes => heard'[j] = heard[j]]_(R!vars)
  BY RunnerKeeps
<1>2. RunnerInv /\ [R!Next]_(R!vars) => RunnerInv'
  BY RunnerKeeps
<1>3. QED
  BY RunnerInitially, <1>1, <1>2, PTL DEF R!Spec, OutcomeStands, R!OutcomeStands

-----------------------------------------------------------------------------

(* Where in its list a process is.                                         *)
PlacedAt(p) ==
    /\ process[p].pc \in {"down", "catalogue", "build", "serve"} => process[p].at = 1
    /\ process[p].pc = "check" => process[p].at \in 1..(Migrations + 1)
    /\ process[p].pc = "apply" => process[p].at \in F!Version
    /\ process[p].pc = "seed" => process[p].at = 1 \/ process[p].at \in 1..Templates

Starting(p) == process[p].pc \notin {"down", "serve"}

(* What a process that starts has of its file.                             *)
LoadedAt(p) ==
    Starting(p) =>
        /\ db # None /\ db.complete = TRUE
        /\ process[p].pc \in {"check", "apply"} => 1..(process[p].at - 1) \subseteq db.noted
        /\ process[p].pc \in {"catalogue", "seed", "build"} => db.noted = F!Version

(* Nobody starts during a restore.                                         *)
Quiet == \A q \in Restores, p \in Processes : F!Active(q) => ~ Starting(p)

(* Before the first restore there is one file, that of the first start.    *)
Untouched == \A q \in Restores : restore[q] = F!Unused
First ==
    Untouched =>
        /\ bak = None /\ (starts > 0 => db # None)
        /\ db # None => db.complete = TRUE /\ db.born = 1
        /\ \A p \in Processes : process[p].pc # "down" => db # None
        /\ \A p \in Processes : process[p].pc = "serve" => db.noted = F!Version

(* A snapshot is one of that file, and uploads are snapshots.              *)
Snapped ==
    /\ \A file \in snapshots : file.complete = TRUE /\ file.born = 1
    /\ \A q \in Restores : IF restore[q].pc = "none" THEN restore[q] = F!Unused
                                                     ELSE restore[q].upload \in snapshots

Ground ==
    /\ F!TypeOK /\ Quiet /\ First /\ Snapped
    /\ \A p \in Processes : PlacedAt(p) /\ LoadedAt(p)

Ordered ==
    /\ db # None => F!Migrated(db)
    /\ bak # None => F!Migrated(bak)
    /\ \A file \in snapshots : F!Migrated(file)

(* Unless a start could not read the catalogue, nobody seeds, and there is *)
(* nothing but what the migration inserted.                                *)
Single(file) == \A t \in 1..Templates : file.seeded[t] = 0
Once ==
    ~misread =>
        /\ \A p \in Processes : ~ F!Seeding(p)
        /\ db # None => Single(db)
        /\ bak # None => Single(bak)
        /\ \A file \in snapshots : Single(file)

(* Unless a rename did harm, the file at path.bak is whole, the one at path*)
(* is without it, and at most one restore is past its rename.              *)
Whole(file) == file # None /\ file.complete = TRUE /\ file.born = 1
Past(q) == restore[q].pc \in {"write", "writing", "back", "remove"}
Copies ==
    ~harmed =>
        /\ bak # None => Whole(bak)
        /\ bak = None /\ (db # None \/ starts > 0) => Whole(db)
        /\ \A q \in Restores : Past(q) => bak # None
        /\ \A q, o \in Restores : Past(q) /\ Past(o) => q = o
        /\ \A q \in Restores : restore[q].pc = "writing" =>
              db # None /\ db.writer = q /\ db.born = 1
        /\ \A q \in Restores : restore[q].pc = "remove" => Whole(db)

FileInv == Ground /\ Ordered /\ Once /\ Copies

-----------------------------------------------------------------------------
(* What becomes of a file in a step.                                       *)
LEMMA ExecutedFile ==
    ASSUME F!TypeOK, db # None, NEW m \in F!Version, NEW new, new = F!Noted(F!Executed(m), m)
    PROVE  /\ new \in F!File /\ new.complete = db.complete /\ new.born = db.born
           /\ new.writer = db.writer /\ new.seeded = db.seeded
           /\ new.noted = db.noted \union {m}
           /\ new.done[m] = db.done[m] + 1
           /\ \A k \in F!Version : k # m => new.done[k] = db.done[k]
<1>1. db \in F!File /\ db.done \in [F!Version -> Nat] /\ db.noted \in SUBSET F!Version
  BY DEF F!TypeOK, F!File
<1>2. F!Executed(m) = [db EXCEPT !.done = [db.done EXCEPT ![m] = db.done[m] + 1]]
  BY DEF F!Executed
<1>3. [db.done EXCEPT ![m] = db.done[m] + 1] \in [F!Version -> Nat]
  BY <1>1
<1>4. F!Executed(m) \in F!File
  BY <1>1, <1>2, <1>3 DEF F!File
<1>5. PICK e \in F!File : /\ e.done = [db.done EXCEPT ![m] = db.done[m] + 1]
                       /\ e.complete = db.complete /\ e.born = db.born
                       /\ e.writer = db.writer /\ e.seeded = db.seeded /\ e.noted = db.noted
                       /\ new = [e EXCEPT !.noted = e.noted \union {m}]
  BY <1>1, <1>2, <1>4 DEF F!Noted, F!File
<1>6. PICK n \in SUBSET F!Version : n = db.noted \union {m}
  BY <1>1
<1>7. new = [e EXCEPT !.noted = n]
  BY <1>5, <1>6
<1>8. /\ new \in F!File /\ new.noted = n /\ new.done = e.done
      /\ new.complete = e.complete /\ new.born = e.born
      /\ new.writer = e.writer /\ new.seeded = e.seeded
  BY <1>7 DEF F!File
<1>9. QED
  BY <1>1, <1>5, <1>6, <1>8

Seeded(t) == [db EXCEPT !.seeded[t] = @ + 1]

LEMMA SeededFile ==
    ASSUME F!TypeOK, db # None, NEW t \in Nat, NEW new, new = Seeded(t)
    PROVE  /\ new \in F!File /\ new.complete = db.complete /\ new.born = db.born
           /\ new.writer = db.writer /\ new.noted = db.noted /\ new.done = db.done
<1>1. db \in F!File /\ db.seeded \in [1..Templates -> Nat]
  BY DEF F!TypeOK, F!File
<1>2. new = [db EXCEPT !.seeded = [db.seeded EXCEPT ![t] = db.seeded[t] + 1]]
  BY DEF Seeded
<1>3. PICK T : T = 1..Templates
  OBVIOUS
<1>4. PICK b \in [T -> Nat] : b = db.seeded
  BY <1>1, <1>3
<1> DEFINE r == [b EXCEPT ![t] = b[t] + 1]
<1>5. r \in [T -> Nat]
  <2>1. CASE t \in T
    BY <1>4, <2>1
  <2>2. CASE t \notin T
    <3>1. r = [k \in T |-> b[k]]
      BY <2>2
    <3>2. QED
      BY <1>4, <2>2, <3>1
  <2>3. QED
    BY <2>1, <2>2
<1>6. /\ new \in F!File
      /\ new.complete = db.complete /\ new.born = db.born
      /\ new.writer = db.writer /\ new.noted = db.noted /\ new.done = db.done
  BY <1>1, <1>2, <1>3, <1>4, <1>5 DEF F!File
<1>7. QED
  BY <1>6

Uploaded(file, q) == [file EXCEPT !.complete = FALSE, !.writer = q]

LEMMA UploadedFile ==
    ASSUME NEW file \in F!File, NEW q \in Restores, NEW new, new = Uploaded(file, q)
    PROVE  /\ new \in F!File /\ new.born = file.born /\ new.writer = q
           /\ new.seeded = file.seeded /\ new.noted = file.noted /\ new.done = file.done
  BY DEF F!File, Uploaded

LEMMA EndedFile ==
    ASSUME NEW file \in F!File \union {None}, NEW q \in Restores, None \notin F!File
    PROVE  /\ F!Ended(file, q) \in F!File \union {None}
           /\ F!Ended(file, q) = None <=> file = None
           /\ file # None =>
                 /\ F!Ended(file, q).born = file.born /\ F!Ended(file, q).seeded = file.seeded
                 /\ F!Ended(file, q).noted = file.noted /\ F!Ended(file, q).done = file.done
                 /\ file.writer = q \/ file.complete = TRUE => F!Ended(file, q).complete = TRUE
<1>1. CASE file # None /\ file.writer = q
  <2>1. F!Ended(file, q) = [file EXCEPT !.complete = TRUE, !.writer = None]
    BY <1>1 DEF F!Ended
  <2>2. file \in F!File
    BY <1>1
  <2>3. QED
    BY <1>1, <2>1, <2>2 DEF F!File
<1>2. CASE ~ (file # None /\ file.writer = q)
  BY <1>2 DEF F!Ended
<1>3. QED
  BY <1>1, <1>2

-----------------------------------------------------------------------------
(* The bare facts of the types.                                            *)
ProcessPcs == {"down", "check", "apply", "catalogue", "seed", "build", "serve"}
Places == [pc : ProcessPcs, at : 1..(Migrations + 1) \union 1..Templates]

LEMMA PlaceFacts ==
    ASSUME F!TypeOK, F!FileAssumption
    PROVE  /\ db # None => db \in F!File
           /\ bak # None => bak \in F!File
           /\ process \in [Processes -> Places]
           /\ \A f \in F!File : f.noted \subseteq F!Version
  BY DEF F!TypeOK, F!File, Places, ProcessPcs

(* A step of a process that starts.  It leaves its file as good as it was. *)
LEMMA StartKeeps ==
    ASSUME F!FileAssumption, Ground, Ordered, Copies, NEW p \in Processes, Starting(p),
           NEW new \in Places, process' = [process EXCEPT ![p] = new],
           bak' = bak, restore' = restore, snapshots' = snapshots, starts' = starts,
           harmed' = harmed, breakdowns' \in 0..MaxBreakdowns,
           misread' \in BOOLEAN,
           db' \in F!File, db'.complete = db.complete, db'.born = db.born,
           db.noted \subseteq db'.noted, F!Migrated(db'),
           PlacedAt(p)', LoadedAt(p)', new.pc = "serve" => db'.noted = F!Version
    PROVE  Ground' /\ Ordered' /\ Copies'
<1> USE DEF Ground
<1>1. /\ process'[p] = new /\ \A o \in Processes : o # p => process'[o] = process[o]
      /\ process' \in [Processes -> Places]
  BY PlaceFacts
<1>2. F!TypeOK'
  BY <1>1 DEF F!TypeOK, Places, ProcessPcs
<1>3. db # None /\ db.complete = TRUE /\ db' # None
  BY DEF LoadedAt, F!FileAssumption
<1>4. \A q \in Restores : ~ F!Active(q)
  BY DEF Quiet
<1>5. Quiet'
  BY <1>4 DEF Quiet, F!Active
<1>6. db.noted = F!Version => db'.noted = F!Version
  BY PlaceFacts
<1>7. First'
  <2> SUFFICES ASSUME Untouched' PROVE First'
    BY DEF First
  <2>1. Untouched
    BY DEF Untouched
  <2>2. \A o \in Processes : process'[o].pc = "serve" => db'.noted = F!Version
    BY <1>1, <1>6, <2>1 DEF First
  <2>3. QED
    BY <1>3, <2>1, <2>2 DEF First
<1>8. Snapped'
  BY DEF Snapped
<1>9. ASSUME NEW o \in Processes PROVE PlacedAt(o)' /\ LoadedAt(o)'
  <2>1. CASE o = p
    BY <2>1
  <2>2. CASE o # p
    <3>1. PlacedAt(o)'
      BY <1>1, <2>2 DEF PlacedAt
    <3>2. LoadedAt(o)'
      BY <1>1, <1>3, <1>6, <2>2 DEF LoadedAt, Starting
    <3>3. QED
      BY <3>1, <3>2
  <2>3. QED
    BY <2>1, <2>2
<1>10. Ordered'
  BY DEF Ordered, F!Migrated
<1>11. Copies'
  <2>1. \A q \in Restores : ~ Past(q)' /\ restore'[q].pc \notin {"writing", "remove"}
    BY <1>4 DEF F!Active, Past
  <2>2. QED
    BY <1>3, <2>1 DEF Copies, Whole
<1>12. QED
  BY <1>2, <1>5, <1>7, <1>8, <1>9, <1>10, <1>11

(* The catalogue, where a step inserts nothing and nobody begins to.       *)
LEMMA SeedStays ==
    ASSUME Once, db # None => db' # None /\ db'.seeded = db.seeded,
           db = None => db' = None \/ Single(db'),
           bak' = bak, snapshots' = snapshots, misread' = misread,
           \A p \in Processes : F!Seeding(p)' => F!Seeding(p)
    PROVE  Once'
<1> SUFFICES ASSUME ~misread PROVE Once'
  BY DEF Once
<1>1. db' # None => Single(db)'
  BY DEF Once, Single
<1>2. QED
  BY <1>1 DEF Once, Single

-----------------------------------------------------------------------------
(* A step of a process that starts and does not touch the file.            *)
LEMMA WalkKeeps ==
    ASSUME F!FileAssumption, FileInv, NEW p \in Processes, Starting(p),
           NEW new \in Places, process' = [process EXCEPT ![p] = new],
           db' = db, bak' = bak, restore' = restore, snapshots' = snapshots,
           starts' = starts, harmed' = harmed, breakdowns' \in 0..MaxBreakdowns,
           misread' \in BOOLEAN,
           PlacedAt(p)', LoadedAt(p)', new.pc = "serve" => db.noted = F!Version
    PROVE  Ground' /\ Ordered' /\ Copies'
<1>1. db \in F!File /\ F!Migrated(db)
  BY DEF FileInv, Ground, LoadedAt, Ordered, F!FileAssumption, F!TypeOK
<1>2. QED
  BY <1>1, StartKeeps DEF FileInv

LEMMA CheckKeeps ==
    ASSUME F!FileAssumption, FileInv, NEW p \in Processes, F!Check(p)
    PROVE  FileInv'
<1>1. /\ process[p].pc = "check" /\ Starting(p) /\ ~ F!Seeding(p) /\ process[p] \in Places
      /\ F!TypeOK /\ process \in [Processes -> Places]
      /\ db' = db /\ bak' = bak /\ restore' = restore /\ snapshots' = snapshots
      /\ starts' = starts /\ harmed' = harmed /\ misread' = misread
      /\ breakdowns' \in 0..MaxBreakdowns
      /\ Once /\ Ground
      /\ misread \in BOOLEAN
  BY PlaceFacts DEF F!Check, Starting, F!Seeding, FileInv, Ground, F!TypeOK, F!Works,
                    F!Fails, F!fileVars, F!FileAssumption
<1>2. \E new \in Places : process' = [process EXCEPT ![p] = new] /\ new.pc # "seed"
                             /\ PlacedAt(p)' /\ LoadedAt(p)' /\ new.pc # "serve"
  <2>1. /\ process[p].at \in 1..(Migrations + 1) /\ Migrations \in Nat
        /\ db # None /\ db.complete = TRUE /\ 1..(process[p].at - 1) \subseteq db.noted
        /\ db.noted \subseteq F!Version
    <3>1. process[p].at \in 1..(Migrations + 1) /\ Migrations \in Nat
      BY <1>1 DEF Ground, PlacedAt, F!FileAssumption
    <3>2. db # None /\ db.complete = TRUE /\ 1..(process[p].at - 1) \subseteq db.noted
      BY <1>1 DEF Ground, LoadedAt
    <3>3. QED
      BY <1>1, <3>1, <3>2, PlaceFacts
  <2>2. CASE process' = [process EXCEPT ![p] = F!Down]
    <3>1. F!Down \in Places /\ F!Down.pc = "down" /\ F!Down.at = 1
      BY <2>1 DEF F!Down, Places, ProcessPcs
    <3>2. process'[p] = F!Down
      BY <1>1, <2>2
    <3>3. PlacedAt(p)' /\ LoadedAt(p)'
      BY <3>1, <3>2 DEF PlacedAt, LoadedAt, Starting
    <3>4. QED
      BY <2>2, <3>1, <3>3
  <2>3. CASE /\ process[p].at \notin F!Version
             /\ process' = [process EXCEPT ![p] = [pc |-> "catalogue", at |-> 1]]
    <3>0. process[p].at = Migrations + 1 /\ (Migrations + 1) - 1 = Migrations
      BY <2>1, <2>3 DEF F!Version
    <3>1. db.noted = F!Version
      BY <2>1, <3>0 DEF F!Version
    <3>2. [pc |-> "catalogue", at |-> 1] \in Places
      BY <2>1 DEF Places, ProcessPcs
    <3>3. process'[p] = [pc |-> "catalogue", at |-> 1]
      BY <1>1, <2>3
    <3>4. PlacedAt(p)' /\ LoadedAt(p)'
      BY <1>1, <2>1, <3>1, <3>3 DEF PlacedAt, LoadedAt, Starting
    <3>5. QED
      BY <2>3, <3>2, <3>4
  <2>4. CASE /\ process[p].at \in F!Version /\ process[p].at \in db.noted
             /\ process' = [process EXCEPT ![p] = [process[p] EXCEPT !.at = process[p].at + 1]]
    <3>1. PICK new : new = [process[p] EXCEPT !.at = process[p].at + 1]
      OBVIOUS
    <3>2. /\ new \in Places /\ new.pc = "check" /\ new.at = process[p].at + 1
          /\ new.at \in 1..(Migrations + 1)
      BY <1>1, <2>1, <2>4, <3>1 DEF Places, ProcessPcs, F!Version
    <3>3. process'[p] = new
      BY <1>1, <2>4, <3>1
    <3>4. 1..(new.at - 1) \subseteq db.noted
      BY <2>1, <2>4, <3>2
    <3>5. PlacedAt(p)' /\ LoadedAt(p)'
      BY <1>1, <2>1, <3>2, <3>3, <3>4 DEF PlacedAt, LoadedAt, Starting
    <3>6. QED
      BY <2>4, <3>1, <3>2, <3>5
  <2>5. CASE /\ process[p].at \in F!Version
             /\ process' = [process EXCEPT ![p] = [process[p] EXCEPT !.pc = "apply"]]
    <3>1. PICK new : new = [process[p] EXCEPT !.pc = "apply"]
      OBVIOUS
    <3>2. new \in Places /\ new.pc = "apply" /\ new.at = process[p].at
      BY <1>1, <3>1 DEF Places, ProcessPcs
    <3>3. process'[p] = new
      BY <1>1, <2>5, <3>1
    <3>4. PlacedAt(p)' /\ LoadedAt(p)'
      BY <1>1, <2>1, <2>5, <3>2, <3>3 DEF PlacedAt, LoadedAt, Starting
    <3>5. QED
      BY <2>5, <3>1, <3>2, <3>4
  <2>6. QED
    BY <2>2, <2>3, <2>4, <2>5 DEF F!Check, F!Exit
<1>3. PICK new \in Places : process' = [process EXCEPT ![p] = new] /\ new.pc # "seed"
                             /\ PlacedAt(p)' /\ LoadedAt(p)' /\ new.pc # "serve"
  BY <1>2
<1>4. Ground' /\ Ordered' /\ Copies'
  BY <1>1, <1>3, WalkKeeps
<1>5. \A o \in Processes : (F!Seeding(o)' <=> F!Seeding(o)) /\ (o # p => process'[o] = process[o])
  BY <1>1, <1>3 DEF F!Seeding
<1>6. Once'
  BY <1>1, <1>5, SeedStays
<1>7. QED
  BY <1>4, <1>6 DEF FileInv

(* A process that seeds is replaced by none, or gives up.                  *)
LEMMA ExitPlace ==
    ASSUME F!FileAssumption, F!TypeOK, NEW p \in Processes, F!Exit(p)
    PROVE  /\ F!Down \in Places /\ F!Down.pc = "down" /\ F!Down.at = 1
           /\ process'[p] = F!Down /\ PlacedAt(p)' /\ LoadedAt(p)'
           /\ \A o \in Processes : o # p => process'[o] = process[o]
<1>1. F!Down \in Places /\ F!Down.pc = "down" /\ F!Down.at = 1
  BY DEF F!Down, Places, ProcessPcs, F!FileAssumption
<1>2. process'[p] = F!Down /\ \A o \in Processes : o # p => process'[o] = process[o]
  BY PlaceFacts DEF F!Exit
<1>3. QED
  BY <1>1, <1>2 DEF PlacedAt, LoadedAt, Starting

LEMMA ApplyKeeps ==
    ASSUME F!FileAssumption, FileInv, NEW p \in Processes, F!ApplyMigration(p)
    PROVE  FileInv'
<1> DEFINE m == process[p].at
<1>1. /\ process[p].pc = "apply" /\ Starting(p) /\ ~ F!Seeding(p) /\ process[p] \in Places
      /\ F!TypeOK /\ process \in [Processes -> Places]
      /\ bak' = bak /\ restore' = restore /\ snapshots' = snapshots
      /\ starts' = starts /\ harmed' = harmed /\ misread' = misread
      /\ breakdowns' \in 0..MaxBreakdowns
      /\ Once /\ Ground /\ Ordered /\ Copies
      /\ misread \in BOOLEAN
  BY PlaceFacts DEF F!ApplyMigration, Starting, F!Seeding, FileInv, Ground, F!TypeOK,
                    F!Works, F!Fails, F!FileAssumption
<1>2. /\ m \in F!Version /\ Migrations \in Nat
      /\ db # None /\ db.complete = TRUE /\ 1..(m - 1) \subseteq db.noted
      /\ db \in F!File /\ db.noted \subseteq F!Version /\ F!Migrated(db)
  <2>1. m \in F!Version /\ Migrations \in Nat
    BY <1>1 DEF Ground, PlacedAt, F!FileAssumption
  <2>2. db # None /\ db.complete = TRUE /\ 1..(m - 1) \subseteq db.noted
    BY <1>1 DEF Ground, LoadedAt
  <2>3. QED
    BY <1>1, <2>1, <2>2, PlaceFacts DEF Ordered
<1>3. CASE db' = db /\ F!Exit(p)
  <2>1. /\ F!Down \in Places /\ F!Down.pc = "down" /\ process'[p] = F!Down
        /\ PlacedAt(p)' /\ LoadedAt(p)' /\ process' = [process EXCEPT ![p] = F!Down]
        /\ \A o \in Processes : o # p => process'[o] = process[o]
    BY <1>1, <1>3, ExitPlace DEF F!Exit
  <2>2. Ground' /\ Ordered' /\ Copies'
    BY <1>1, <1>3, <2>1, WalkKeeps
  <2>3. \A o \in Processes : F!Seeding(o)' <=> F!Seeding(o)
    BY <1>1, <2>1 DEF F!Seeding
  <2>4. Once'
    BY <1>1, <1>3, <2>1, <2>3, SeedStays
  <2>5. QED
    BY <2>2, <2>4 DEF FileInv
<1>4. CASE m \notin db.noted /\ db' = F!Noted(F!Executed(m), m) /\ process' = F!NextVersion(p)
  <2>1. /\ db' \in F!File /\ db'.complete = db.complete /\ db'.born = db.born
        /\ db'.seeded = db.seeded /\ db'.noted = db.noted \union {m}
        /\ db'.done[m] = db.done[m] + 1
        /\ \A k \in F!Version : k # m => db'.done[k] = db.done[k]
    BY <1>1, <1>2, <1>4, ExecutedFile
  <2>2. F!Migrated(db')
    <3>1. \A k \in F!Version : db'.done[k] = IF k \in db'.noted THEN 1 ELSE 0
      BY <1>2, <1>4, <2>1 DEF F!Migrated
    <3>2. 1..m \subseteq (1..(m - 1)) \union {m}
      BY <1>2 DEF F!Version
    <3>3. \A k \in db'.noted : 1..k \subseteq db'.noted
      BY <1>2, <2>1, <3>2 DEF F!Migrated
    <3>4. QED
      BY <3>1, <3>3 DEF F!Migrated
  <2>3. PICK new : new = [process[p] EXCEPT !.pc = "check", !.at = process[p].at + 1]
    OBVIOUS
  <2>4. /\ new \in Places /\ new.pc = "check" /\ new.at = m + 1
        /\ new.at \in 1..(Migrations + 1)
    <3>1. new = [pc |-> "check", at |-> m + 1]
      BY <1>1, <2>3 DEF Places
    <3>2. m + 1 \in 1..(Migrations + 1)
      BY <1>2 DEF F!Version
    <3>3. QED
      BY <3>1, <3>2 DEF Places, ProcessPcs
  <2>5. process' = [process EXCEPT ![p] = new]
    BY <1>1, <1>4, <2>3 DEF F!NextVersion
  <2>6. process'[p] = new /\ \A o \in Processes : o # p => process'[o] = process[o]
    BY <1>1, <2>5
  <2>7. 1..(new.at - 1) \subseteq db'.noted
    BY <1>2, <2>1, <2>4 DEF F!Version
  <2>8. PlacedAt(p)' /\ LoadedAt(p)'
    BY <1>2, <2>1, <2>4, <2>6, <2>7 DEF PlacedAt, LoadedAt, Starting, F!FileAssumption
  <2>9. Ground' /\ Ordered' /\ Copies'
    BY <1>1, <2>1, <2>2, <2>4, <2>5, <2>8, StartKeeps
  <2>10. \A o \in Processes : F!Seeding(o)' <=> F!Seeding(o)
    BY <1>1, <2>4, <2>6 DEF F!Seeding
  <2>11. db' # None
    BY <2>1 DEF F!FileAssumption
  <2>12. Once'
    BY <1>1, <1>2, <2>1, <2>6, <2>10, <2>11, SeedStays DEF F!Seeding
  <2>13. QED
    BY <2>9, <2>12 DEF FileInv
<1>5. QED
  BY <1>3, <1>4 DEF F!ApplyMigration

LEMMA BuildKeeps ==
    ASSUME F!FileAssumption, FileInv, NEW p \in Processes, F!BuildContainer(p)
    PROVE  FileInv'
<1>1. /\ process[p].pc = "build" /\ Starting(p) /\ ~ F!Seeding(p) /\ process[p] \in Places
      /\ F!TypeOK /\ process \in [Processes -> Places]
      /\ db' = db /\ bak' = bak /\ restore' = restore /\ snapshots' = snapshots
      /\ starts' = starts /\ harmed' = harmed /\ misread' = misread
      /\ breakdowns' \in 0..MaxBreakdowns
      /\ Once /\ Ground
      /\ misread \in BOOLEAN
  BY PlaceFacts DEF F!BuildContainer, Starting, F!Seeding, FileInv, Ground, F!TypeOK,
                    F!Works, F!Fails,
                    F!fileVars, F!FileAssumption
<1>2. db.noted = F!Version /\ process[p].at = 1
  BY <1>1 DEF Ground, LoadedAt, PlacedAt
<1>3. \E new \in Places : process' = [process EXCEPT ![p] = new] /\ new.pc # "seed"
                             /\ PlacedAt(p)' /\ LoadedAt(p)'
  <2>1. CASE F!Exit(p)
    <3>1. F!Down \in Places /\ F!Down.pc = "down" /\ PlacedAt(p)' /\ LoadedAt(p)'
      BY <1>1, <2>1, ExitPlace
    <3>2. QED
      BY <2>1, <3>1 DEF F!Exit
  <2>2. CASE process' = [process EXCEPT ![p].pc = "serve"]
    <3>1. PICK new : new = [process[p] EXCEPT !.pc = "serve"]
      OBVIOUS
    <3>2. new \in Places /\ new.pc = "serve" /\ new.at = 1
      BY <1>1, <1>2, <3>1 DEF Places, ProcessPcs
    <3>3. process' = [process EXCEPT ![p] = new] /\ process'[p] = new
      BY <1>1, <2>2, <3>1
    <3>4. PlacedAt(p)' /\ LoadedAt(p)'
      BY <3>2, <3>3 DEF PlacedAt, LoadedAt, Starting
    <3>5. QED
      BY <3>2, <3>3, <3>4
  <2>3. QED
    BY <2>1, <2>2 DEF F!BuildContainer
<1>4. PICK new \in Places : process' = [process EXCEPT ![p] = new] /\ new.pc # "seed"
                             /\ PlacedAt(p)' /\ LoadedAt(p)'
  BY <1>3
<1>5. Ground' /\ Ordered' /\ Copies'
  BY <1>1, <1>2, <1>4, WalkKeeps
<1>6. \A o \in Processes : (F!Seeding(o)' <=> F!Seeding(o)) /\ (o # p => process'[o] = process[o])
  BY <1>1, <1>4 DEF F!Seeding
<1>7. Once'
  BY <1>1, <1>6, SeedStays
<1>8. QED
  BY <1>5, <1>7 DEF FileInv

(* The catalogue looked at: from then on the process may seed.             *)
LEMMA CatalogueKeeps ==
    ASSUME F!FileAssumption, FileInv, NEW p \in Processes, F!Catalogue(p)
    PROVE  FileInv'
<1>1. /\ process[p].pc = "catalogue" /\ Starting(p) /\ ~ F!Seeding(p) /\ process[p] \in Places
      /\ F!TypeOK /\ process \in [Processes -> Places]
      /\ db' = db /\ bak' = bak /\ restore' = restore /\ snapshots' = snapshots
      /\ starts' = starts /\ harmed' = harmed /\ misread' \in BOOLEAN
      /\ breakdowns' \in 0..MaxBreakdowns
      /\ Once /\ Ground /\ Ordered
      /\ misread \in BOOLEAN
  <2>1. /\ F!TypeOK /\ process \in [Processes -> Places] /\ Once /\ Ground /\ Ordered
        /\ misread \in BOOLEAN
        /\ breakdowns \in 0..MaxBreakdowns /\ MaxBreakdowns \in Nat
    BY PlaceFacts DEF FileInv, Ground, F!TypeOK, F!FileAssumption
  <2>2. /\ breakdowns' = breakdowns \/ (breakdowns < MaxBreakdowns /\ breakdowns' = breakdowns + 1)
        /\ misread' = misread \/ misread' = TRUE
    BY DEF F!Catalogue, F!Works, F!Fails
  <2>3. breakdowns' \in 0..MaxBreakdowns
    BY <2>1, <2>2
  <2>4. misread' \in BOOLEAN
    BY <2>1, <2>2
  <2>5. /\ process[p].pc = "catalogue" /\ Starting(p) /\ ~ F!Seeding(p) /\ process[p] \in Places
        /\ db' = db /\ bak' = bak /\ restore' = restore /\ snapshots' = snapshots
        /\ starts' = starts /\ harmed' = harmed
    BY <2>1 DEF F!Catalogue, Starting, F!Seeding, F!fileVars
  <2>6. QED
    BY <2>1, <2>3, <2>4, <2>5
<1>2. db # None /\ db.complete = TRUE /\ db.noted = F!Version /\ process[p].at = 1
  BY <1>1 DEF Ground, LoadedAt, PlacedAt
<1>3. PICK pc \in {"seed", "build"} :
        /\ process' = [process EXCEPT ![p].pc = pc]
        /\ \/ misread' = misread /\ (pc = "seed" => F!Empty(db))
           \/ misread' = TRUE
  BY <1>1 DEF F!Catalogue
<1>4. PICK new : new = [process[p] EXCEPT !.pc = pc]
  OBVIOUS
<1>5. new \in Places /\ new.pc = pc /\ new.at = 1
  BY <1>1, <1>2, <1>4 DEF Places, ProcessPcs
<1>6. /\ process' = [process EXCEPT ![p] = new] /\ process'[p] = new
      /\ \A o \in Processes : o # p => process'[o] = process[o]
  BY <1>1, <1>3, <1>4
<1>7. PlacedAt(p)' /\ LoadedAt(p)'
  BY <1>1, <1>2, <1>5, <1>6 DEF PlacedAt, LoadedAt, Starting
<1>8. Ground' /\ Ordered' /\ Copies'
  BY <1>1, <1>5, <1>6, <1>7, WalkKeeps
<1>9. \A o \in Processes : o # p => (F!Seeding(o)' <=> F!Seeding(o))
  BY <1>6 DEF F!Seeding
<1>10. ~ F!Empty(db)
  BY <1>1, <1>2 DEF Ordered, F!Migrated, F!Empty, F!FileAssumption
<1>11. Once'
  <2> SUFFICES ASSUME ~misread' PROVE Once'
    BY DEF Once
  <2>1. ~misread /\ pc = "build"
    BY <1>1, <1>3, <1>10
  <2>2. ~ F!Seeding(p)'
    BY <1>5, <1>6, <2>1 DEF F!Seeding
  <2>3. QED
    BY <1>1, <1>9, <2>1, <2>2 DEF Once, Single
<1>12. QED
  BY <1>8, <1>11 DEF FileInv

(* A template inserted, or its insertion lost.                             *)
LEMMA SeedKeeps ==
    ASSUME F!FileAssumption, FileInv, NEW p \in Processes, F!SeedTemplate(p)
    PROVE  FileInv'
<1> DEFINE t == process[p].at
<1>1. /\ process[p].pc = "seed" /\ Starting(p) /\ F!Seeding(p) /\ process[p] \in Places
      /\ F!TypeOK /\ process \in [Processes -> Places]
      /\ bak' = bak /\ restore' = restore /\ snapshots' = snapshots
      /\ starts' = starts /\ harmed' = harmed /\ misread' = misread
      /\ breakdowns' \in 0..MaxBreakdowns
      /\ Once /\ Ground /\ Ordered /\ Copies
      /\ misread \in BOOLEAN
  <2>1. /\ F!TypeOK /\ process \in [Processes -> Places]
        /\ Once /\ Ground /\ Ordered /\ Copies
        /\ misread \in BOOLEAN
        /\ breakdowns \in 0..MaxBreakdowns /\ MaxBreakdowns \in Nat
    BY PlaceFacts DEF FileInv, Ground, F!TypeOK, F!FileAssumption
  <2>2. breakdowns' = breakdowns \/ (breakdowns < MaxBreakdowns /\ breakdowns' = breakdowns + 1)
    BY DEF F!SeedTemplate, F!Works, F!Fails
  <2>3. breakdowns' \in 0..MaxBreakdowns
    BY <2>1, <2>2
  <2>4. /\ process[p].pc = "seed" /\ Starting(p) /\ F!Seeding(p) /\ process[p] \in Places
        /\ bak' = bak /\ restore' = restore /\ snapshots' = snapshots
        /\ starts' = starts /\ harmed' = harmed /\ misread' = misread
    BY <2>1 DEF F!SeedTemplate, Starting, F!Seeding
  <2>5. QED
    BY <2>1, <2>3, <2>4
<1>2. /\ db # None /\ db.complete = TRUE /\ db.noted = F!Version /\ db \in F!File /\ F!Migrated(db)
      /\ t = 1 \/ t \in 1..Templates
      /\ Templates \in Nat /\ Migrations \in Nat
  BY <1>1, PlaceFacts DEF Ground, LoadedAt, PlacedAt, Ordered, F!FileAssumption
<1>3. PICK new \in Places :
        /\ process' = [process EXCEPT ![p] = new]
        /\ \/ t < Templates /\ new = [pc |-> "seed", at |-> t + 1]
           \/ ~ (t < Templates) /\ new = [pc |-> "build", at |-> 1]
  <2>1. CASE t < Templates
    <3>1. [process[p] EXCEPT !.at = t + 1] = [pc |-> "seed", at |-> t + 1]
      BY <1>1 DEF Places
    <3>2. t + 1 \in 1..Templates
      BY <1>2, <2>1
    <3>3. [pc |-> "seed", at |-> t + 1] \in Places
      BY <3>2 DEF Places, ProcessPcs
    <3>4. process' = [process EXCEPT ![p] = [process[p] EXCEPT !.at = t + 1]]
      BY <2>1 DEF F!SeedTemplate
    <3>5. QED
      BY <2>1, <3>1, <3>3, <3>4
  <2>2. CASE ~ (t < Templates)
    <3>1. process' = [process EXCEPT ![p] = [pc |-> "build", at |-> 1]]
      BY <2>2 DEF F!SeedTemplate
    <3>2. [pc |-> "build", at |-> 1] \in Places
      BY <1>2 DEF Places, ProcessPcs
    <3>3. QED
      BY <2>2, <3>1, <3>2
  <2>3. QED
    BY <2>1, <2>2
<1>4. process'[p] = new /\ \A o \in Processes : o # p => process'[o] = process[o]
  BY <1>1, <1>3
<1>5. /\ db' \in F!File /\ db'.complete = db.complete /\ db'.born = db.born
      /\ db'.noted = db.noted /\ db'.done = db.done
  <2>1. CASE db' = db
    BY <1>2, <2>1
  <2>2. CASE db' = [db EXCEPT !.seeded[t] = @ + 1]
    <3>1. PICK k \in Nat : k = t
      BY <1>2
    <3>2. PICK f : f = db'
      OBVIOUS
    <3>3. f = Seeded(k)
      BY <2>2, <3>1, <3>2 DEF Seeded
    <3>4. /\ f \in F!File /\ f.complete = db.complete /\ f.born = db.born
          /\ f.noted = db.noted /\ f.done = db.done
      BY <1>1, <1>2, <3>3, SeededFile
    <3>5. QED
      BY <3>2, <3>4
  <2>3. QED
    BY <2>1, <2>2 DEF F!SeedTemplate
<1>6. F!Migrated(db')
  BY <1>2, <1>5 DEF F!Migrated
<1>7. PlacedAt(p)' /\ LoadedAt(p)'
  <2>1. PlacedAt(p)'
    BY <1>2, <1>3, <1>4 DEF PlacedAt
  <2>2. db' # None
    BY <1>5 DEF F!FileAssumption
  <2>3. LoadedAt(p)'
    BY <1>2, <1>3, <1>4, <1>5, <2>2 DEF LoadedAt, Starting
  <2>4. QED
    BY <2>1, <2>3
<1>8. Ground' /\ Ordered' /\ Copies'
  <2>1. new.pc # "serve"
    BY <1>3
  <2>2. QED
    BY <1>1, <1>3, <1>5, <1>6, <1>7, <2>1, StartKeeps
<1>9. Once'
  BY <1>1 DEF Once
<1>10. QED
  BY <1>8, <1>9 DEF FileInv

-----------------------------------------------------------------------------
(* A process that ends, with its restores.                                 *)
LEMMA FileCrashKeeps ==
    ASSUME F!FileAssumption, FileInv, NEW p \in Processes, F!Crash(p)
    PROVE  FileInv'
<1>1. /\ F!TypeOK /\ process \in [Processes -> Places]
      /\ db' = db /\ bak' = bak /\ snapshots' = snapshots
      /\ starts' = starts /\ harmed' = harmed /\ misread' = misread
      /\ Once /\ Ground /\ Ordered /\ Copies
      /\ process' = [process EXCEPT ![p] = F!Down]
  BY PlaceFacts DEF F!Crash, F!Exit, FileInv, Ground, F!fileVars
<1>2. /\ F!Down \in Places /\ F!Down.pc = "down" /\ process'[p] = F!Down
      /\ PlacedAt(p)' /\ LoadedAt(p)'
      /\ \A o \in Processes : o # p => process'[o] = process[o]
  BY <1>1, ExitPlace DEF F!Exit
<1>3. ASSUME NEW q \in Restores
      PROVE  /\ restore'[q].upload = restore[q].upload /\ restore'[q].by = restore[q].by
             /\ restore'[q].pc \in {restore[q].pc, "over"}
             /\ restore'[q].pc # "over" => restore'[q] = restore[q]
             /\ restore'[q].pc = "over" => restore[q].pc # "none"
             /\ restore'[q] = F!Unused => restore[q] = F!Unused
             /\ restore'[q] \in [pc : {"none", "aside", "write", "writing", "back", "remove",
                                       "over"},
                                 by : Processes \union {None}, upload : F!File \union {None}]
  <2>1. restore[q] \in [pc : {"none", "aside", "write", "writing", "back", "remove", "over"},
                        by : Processes \union {None}, upload : F!File \union {None}]
    BY <1>1 DEF F!TypeOK
  <2>2. CASE restore'[q] = restore[q]
    <3>1. restore[q].pc = "over" => restore[q].pc # "none"
      OBVIOUS
    <3>2. QED
      BY <2>1, <2>2, <3>1
  <2>3. CASE F!Active(q) /\ restore'[q] = [restore[q] EXCEPT !.pc = "over"]
    <3>1. restore[q].pc # "none" /\ F!Unused.pc = "none"
      BY <2>3 DEF F!Active, F!Unused
    <3>2. QED
      BY <2>1, <2>3, <3>1
  <2>4. QED
    BY <2>2, <2>3 DEF F!Crash
<1>4. F!TypeOK'
  <2>1. restore' \in [Restores -> [
          pc : {"none", "aside", "write", "writing", "back", "remove", "over"},
          by : Processes \union {None}, upload : F!File \union {None}]]
    BY <1>3 DEF F!Crash
  <2>2. process' \in [Processes -> Places]
    BY <1>1, <1>2
  <2>3. breakdowns' \in 0..MaxBreakdowns
    BY <1>1 DEF F!Crash, F!Fails, F!TypeOK, F!FileAssumption
  <2>4. QED
    BY <1>1, <2>1, <2>2, <2>3 DEF F!TypeOK, Places, ProcessPcs
<1>5. \A o \in Processes : Starting(o)' => Starting(o) /\ process'[o] = process[o]
  BY <1>2 DEF Starting
<1>6. \A q \in Restores : F!Active(q)' => F!Active(q)
  BY <1>3 DEF F!Active
<1>7. Quiet'
  BY <1>1, <1>5, <1>6 DEF Ground, Quiet
<1>8. First'
  <2> SUFFICES ASSUME Untouched' PROVE First'
    BY DEF First
  <2>1. Untouched
    BY <1>3 DEF Untouched
  <2>2. QED
    BY <1>1, <1>2, <2>1 DEF Ground, First
<1>9. Snapped'
  BY <1>1, <1>3 DEF Ground, Snapped
<1>10. \A o \in Processes : PlacedAt(o)' /\ LoadedAt(o)'
  BY <1>1, <1>2 DEF Ground, PlacedAt, LoadedAt, Starting
<1>11. Ordered'
  BY <1>1 DEF Ordered, F!Migrated
<1>12. Copies'
  <2>1. \A q \in Restores : Past(q)' => Past(q) /\ restore'[q] = restore[q]
    BY <1>3 DEF Past
  <2>2. \A q \in Restores : restore'[q].pc \in {"writing", "remove"} => restore'[q] = restore[q]
    BY <1>3
  <2>3. QED
    BY <1>1, <2>1, <2>2 DEF Copies, Whole
<1>13. Once'
  BY <1>1, <1>2, SeedStays DEF F!Seeding
<1>14. QED
  BY <1>4, <1>7, <1>8, <1>9, <1>10, <1>11, <1>12, <1>13 DEF FileInv, Ground

(* The file that a first start creates.                                    *)
LEMMA CreatedFile ==
    ASSUME F!FileAssumption, F!TypeOK, starts < MaxStarts
    PROVE  /\ F!Created \in F!File /\ F!Created.complete = TRUE /\ F!Created.born = starts + 1
           /\ F!Migrated(F!Created) /\ Single(F!Created)
<1>1. starts + 1 \in 1..MaxStarts
  BY DEF F!TypeOK, F!FileAssumption
<1>2. QED
  BY <1>1 DEF F!Created, F!File, F!Migrated, Single

LEMMA ConnectKeeps ==
    ASSUME F!FileAssumption, FileInv, NEW p \in Processes, F!Connect(p)
    PROVE  FileInv'
<1>1. /\ F!TypeOK /\ process \in [Processes -> Places] /\ process[p] = F!Down
      /\ bak' = bak /\ restore' = restore /\ snapshots' = snapshots
      /\ breakdowns' = breakdowns /\ harmed' = harmed /\ misread' = misread
      /\ starts \in Nat /\ starts < MaxStarts /\ starts' = starts + 1
      /\ Once /\ Ground /\ Ordered /\ Copies
      /\ \A q \in Restores : ~ F!Active(q)
  BY PlaceFacts DEF F!Connect, FileInv, Ground, F!TypeOK
<1>2. /\ db' \in F!File /\ db' # None /\ F!Migrated(db')
      /\ db # None => db' = db
      /\ db = None => db'.complete = TRUE /\ db'.born = starts + 1 /\ Single(db')
  <2>1. CASE db = None
    BY <1>1, <2>1, CreatedFile DEF F!Connect, F!FileAssumption
  <2>2. CASE db # None
    BY <1>1, <2>2 DEF F!Connect, F!TypeOK, Ordered
  <2>3. QED
    BY <2>1, <2>2
<1>3. \/ process' = process
      \/ /\ db'.complete = TRUE
         /\ process' = [process EXCEPT ![p] = [pc |-> "check", at |-> 1]]
  <2>1. db'.complete \in BOOLEAN
    BY <1>2 DEF F!File
  <2>2. [F!Down EXCEPT !.pc = "check"] = [pc |-> "check", at |-> 1]
    BY DEF F!Down
  <2>3. QED
    BY <1>1, <2>1, <2>2 DEF F!Connect
<1>4. /\ process' \in [Processes -> Places]
      /\ \A o \in Processes : o # p => process'[o] = process[o]
      /\ process'[p] # process[p] =>
            /\ process'[p].pc = "check" /\ process'[p].at = 1 /\ db'.complete = TRUE
      /\ process[p].pc = "down" /\ process'[p].pc \in {"down", "check"}
      /\ process[p].at = 1 /\ process'[p].at = 1
  <2>1. [pc |-> "check", at |-> 1] \in Places
    BY DEF Places, ProcessPcs, F!FileAssumption
  <2>2. F!Down.pc = "down" /\ F!Down.at = 1
    BY DEF F!Down
  <2>3. QED
    BY <1>1, <1>3, <2>1, <2>2
<1>5. F!TypeOK'
  <2>1. starts' \in 0..MaxStarts
    BY <1>1 DEF F!FileAssumption
  <2>2. QED
    BY <1>1, <1>2, <1>4, <2>1 DEF F!TypeOK, Places, ProcessPcs
<1>6. Quiet'
  BY <1>1 DEF Quiet, F!Active
<1>7. First'
  <2> SUFFICES ASSUME Untouched' PROVE First'
    BY DEF First
  <2>1. Untouched
    BY <1>1 DEF Untouched
  <2>2. db = None => starts = 0
    BY <1>1, <2>1 DEF Ground, First
  <2>3. db'.complete = TRUE /\ db'.born = 1
    BY <1>1, <1>2, <2>1, <2>2 DEF Ground, First
  <2>4. ASSUME NEW o \in Processes, process'[o].pc = "serve" PROVE db'.noted = F!Version
    <3>1. process[o].pc = "serve" /\ db # None
      BY <1>1, <1>4, <2>1, <2>4 DEF Ground, First
    <3>2. QED
      BY <1>1, <1>2, <2>1, <3>1 DEF Ground, First
  <2>5. QED
    BY <1>1, <1>2, <2>1, <2>3, <2>4 DEF Ground, First
<1>8. Snapped'
  BY <1>1 DEF Ground, Snapped
<1>9. ASSUME NEW o \in Processes PROVE PlacedAt(o)' /\ LoadedAt(o)'
  <2>1. CASE o = p
    <3>1. PlacedAt(p)'
      BY <1>4 DEF PlacedAt, F!FileAssumption
    <3>2. Starting(p)' => db'.complete = TRUE /\ process'[p].pc = "check"
      BY <1>4 DEF Starting
    <3>3. 1..(process'[p].at - 1) \subseteq db'.noted
      BY <1>4
    <3>4. QED
      BY <1>2, <2>1, <3>1, <3>2, <3>3 DEF LoadedAt
  <2>2. CASE o # p
    <3>1. process'[o] = process[o] /\ PlacedAt(o) /\ LoadedAt(o)
      BY <1>1, <1>4, <2>2 DEF Ground
    <3>2. QED
      BY <1>2, <3>1 DEF PlacedAt, LoadedAt, Starting
  <2>3. QED
    BY <2>1, <2>2
<1>10. Ordered'
  BY <1>1, <1>2 DEF Ordered, F!Migrated
<1>11. Copies'
  <2> SUFFICES ASSUME ~harmed PROVE Copies'
    BY <1>1 DEF Copies
  <2>1. bak = None => Whole(db)'
    <3>1. CASE db = None /\ starts = 0
      BY <1>2, <3>1 DEF Whole
    <3>2. CASE db # None \/ starts # 0
      <4>1. starts # 0 => starts > 0
        BY <1>1
      <4>2. QED
        BY <1>1, <1>2, <3>2, <4>1 DEF Copies, Whole
    <3>3. QED
      BY <3>1, <3>2
  <2>2. \A q \in Restores : ~ Past(q)' /\ restore'[q].pc \notin {"writing", "remove"}
    BY <1>1 DEF F!Active, Past
  <2>3. QED
    BY <1>1, <2>1, <2>2 DEF Copies, Whole
<1>12. \A o \in Processes : (F!Seeding(o)' <=> F!Seeding(o)) /\ (F!Seeding(o) => o # p)
  BY <1>4 DEF F!Seeding
<1>13. Once'
  BY <1>1, <1>2, <1>4, <1>12, SeedStays
<1>14. QED
  BY <1>5, <1>6, <1>7, <1>8, <1>9, <1>10, <1>11, <1>13 DEF FileInv, Ground

-----------------------------------------------------------------------------
(* A snapshot of the file, before any restore.                             *)
LEMMA BackupKeeps ==
    ASSUME F!FileAssumption, FileInv, F!CreateBackup
    PROVE  FileInv'
<1>1. /\ F!TypeOK /\ Untouched /\ \E p \in Processes : process[p].pc = "serve"
      /\ db' = db /\ bak' = bak /\ process' = process /\ restore' = restore
      /\ snapshots' = snapshots \union {db}
      /\ starts' = starts /\ breakdowns' = breakdowns /\ harmed' = harmed /\ misread' = misread
      /\ Once /\ Ground /\ Ordered /\ Copies
  BY DEF F!CreateBackup, FileInv, Ground, F!fileVars, Untouched
<1>2. /\ db # None /\ db \in F!File /\ db.complete = TRUE /\ db.born = 1
  BY <1>1, PlaceFacts DEF Ground, First
<1>3. F!TypeOK'
  BY <1>1, <1>2 DEF F!TypeOK
<1>4. Quiet' /\ First'
  BY <1>1 DEF Ground, Quiet, First, Untouched, F!Active, Starting
<1>5. Snapped'
  <2>1. \A file \in snapshots' : file.complete = TRUE /\ file.born = 1
    BY <1>1, <1>2 DEF Ground, Snapped
  <2>2. QED
    BY <1>1, <2>1 DEF Ground, Snapped
<1>6. \A p \in Processes : PlacedAt(p)' /\ LoadedAt(p)'
  BY <1>1 DEF Ground, PlacedAt, LoadedAt, Starting
<1>7. Ordered'
  BY <1>1, <1>2 DEF Ordered, F!Migrated
<1>8. Copies'
  BY <1>1 DEF Copies, Whole, Past
<1>9. Once'
  BY <1>1, <1>2 DEF Once, Single, F!Seeding
<1>10. QED
  BY <1>3, <1>4, <1>5, <1>6, <1>7, <1>8, <1>9 DEF FileInv, Ground

(* What a restore does to the files: it only puts them elsewhere.          *)
RestorePcs == {"none", "aside", "write", "writing", "back", "remove", "over"}
Pending == [pc : RestorePcs, by : Processes \union {None}, upload : F!File \union {None}]

Like(new, old) == new.seeded = old.seeded /\ new.noted = old.noted /\ new.done = old.done
Present == {f \in {db, bak} \union snapshots : f # None}
From(new) == new = None \/ \E old \in Present : Like(new, old)

LEMMA MoveKeeps ==
    ASSUME F!FileAssumption, FileInv, NEW q \in Restores,
           \A p \in Processes : ~ Starting(p),
           NEW new \in Pending, new.pc # "none", new.upload \in snapshots,
           restore' = [restore EXCEPT ![q] = new],
           process' = process, snapshots' = snapshots, starts' = starts,
           breakdowns' \in 0..MaxBreakdowns, harmed' \in BOOLEAN,
           misread' = misread,
           db' \in F!File \union {None}, bak' \in F!File \union {None}, From(db'), From(bak')
    PROVE  Ground' /\ Ordered' /\ Once'
<1>1. /\ F!TypeOK /\ restore \in [Restores -> Pending]
      /\ Once /\ Ground /\ Ordered
      /\ restore'[q] = new /\ \A o \in Restores : o # q => restore'[o] = restore[o]
      /\ \A p \in Processes : ~ F!Seeding(p) /\ ~ F!Seeding(p)' /\ ~ Starting(p)'
  BY DEF FileInv, Ground, F!TypeOK, Pending, RestorePcs, Starting, F!Seeding
<1>2. F!TypeOK'
  <2>1. restore' \in [Restores -> Pending]
    BY <1>1
  <2>2. QED
    BY <1>1, <2>1 DEF F!TypeOK, Pending, RestorePcs
<1>3. ~ Untouched'
  <2>1. new # F!Unused
    BY DEF F!Unused
  <2>2. QED
    BY <1>1, <2>1 DEF Untouched
<1>4. Quiet' /\ First'
  BY <1>1, <1>3 DEF Quiet, First
<1>5. Snapped'
  BY <1>1 DEF Ground, Snapped
<1>6. \A p \in Processes : PlacedAt(p)' /\ LoadedAt(p)'
  <2>1. \A p \in Processes : PlacedAt(p)'
    BY <1>1 DEF Ground, PlacedAt
  <2>2. QED
    BY <1>1, <2>1 DEF LoadedAt
<1>7. Ordered'
  <2>1. \A f \in Present : F!Migrated(f)
    BY <1>1 DEF Ordered, Present
  <2>2. \A f : From(f) /\ f # None => F!Migrated(f)
    BY <2>1 DEF From, Like, F!Migrated
  <2>3. (db' # None => F!Migrated(db')) /\ (bak' # None => F!Migrated(bak'))
    BY <2>2
  <2>4. \A f \in snapshots' : F!Migrated(f)
    BY <1>1 DEF Ordered
  <2>5. QED
    BY <2>3, <2>4 DEF Ordered, F!Migrated
<1>8. Once'
  <2> SUFFICES ASSUME ~misread PROVE Once'
    BY DEF Once
  <2>1. \A f \in Present : Single(f)
    BY <1>1 DEF Once, Present
  <2>2. \A f : From(f) /\ f # None => Single(f)
    BY <2>1 DEF From, Like, Single
  <2>3. (db' # None => Single(db')) /\ (bak' # None => Single(bak'))
    BY <2>2
  <2>4. \A f \in snapshots' : Single(f)
    BY <1>1 DEF Once
  <2>5. QED
    BY <1>1, <2>3, <2>4 DEF Once, Single
<1>9. QED
  BY <1>2, <1>4, <1>5, <1>6, <1>7, <1>8 DEF Ground

LEMMA FromStays ==
    ASSUME F!FileAssumption
    PROVE  From(db) /\ From(bak) /\ From(None) /\ \A f \in snapshots : From(f)
  BY DEF From, Present, Like

-----------------------------------------------------------------------------
(* A request is taken up; the files stay as they are.                      *)
LEMMA RequestKeeps ==
    ASSUME F!FileAssumption, FileInv, NEW q \in Restores, NEW p \in Processes,
           F!RestoreBackup(q, p)
    PROVE  FileInv'
<1>1. PICK file \in snapshots :
        restore' = [restore EXCEPT ![q] = [pc |-> "aside", by |-> p, upload |-> file]]
  BY DEF F!RestoreBackup
<1>2. PICK new : new = [pc |-> "aside", by |-> p, upload |-> file]
  OBVIOUS
<1>3. /\ F!TypeOK /\ Copies /\ file \in F!File /\ restore \in [Restores -> Pending]
      /\ db' = db /\ bak' = bak /\ process' = process /\ snapshots' = snapshots
      /\ starts' = starts /\ breakdowns' = breakdowns /\ harmed' = harmed
      /\ misread' = misread
      /\ \A o \in Processes : ~ Starting(o)
      /\ harmed \in BOOLEAN /\ breakdowns \in 0..MaxBreakdowns
      /\ db \in F!File \union {None} /\ bak \in F!File \union {None}
  BY DEF F!RestoreBackup, FileInv, Ground, F!TypeOK, F!fileVars, Starting,
         Pending, RestorePcs
<1>4. /\ new \in Pending /\ new.pc = "aside" /\ new.upload = file
      /\ restore' = [restore EXCEPT ![q] = new]
  BY <1>1, <1>2, <1>3 DEF Pending, RestorePcs
<1>5. Ground' /\ Ordered' /\ Once'
  BY <1>3, <1>4, FromStays, MoveKeeps
<1>6. \A o \in Restores : restore'[o].pc = restore[o].pc \/ restore'[o].pc = "aside"
  BY <1>3, <1>4
<1>7. Copies'
  <2>1. \A o \in Restores : Past(o)' => Past(o)
    BY <1>6 DEF Past
  <2>2. \A o \in Restores : restore'[o].pc \in {"writing", "remove"} =>
                               restore[o].pc = restore'[o].pc
    BY <1>6
  <2>3. QED
    BY <1>3, <2>1, <2>2 DEF Copies, Whole
<1>8. QED
  BY <1>5, <1>7 DEF FileInv

(* What the steps of a restore have in common.                             *)
LEMMA MovesFacts ==
    ASSUME F!FileAssumption, FileInv, NEW q \in Restores, F!Active(q),
           NEW pc \in RestorePcs \ {"none"}, F!Moves(q, pc)
    PROVE  /\ \A p \in Processes : ~ Starting(p)
           /\ restore[q].upload \in snapshots /\ restore[q].upload \in F!File
           /\ \E new \in Pending : /\ new.pc # "none" /\ new.upload \in snapshots
                                   /\ restore' = [restore EXCEPT ![q] = new]
           /\ restore'[q].pc = pc
           /\ \A o \in Restores : o # q => restore'[o] = restore[o]
<1>1. /\ F!TypeOK /\ restore \in [Restores -> Pending] /\ restore[q].pc # "none"
      /\ Quiet /\ Snapped /\ snapshots \subseteq F!File
  BY DEF FileInv, Ground, F!TypeOK, Pending, RestorePcs, F!Active
<1>2. PICK new : new = [restore[q] EXCEPT !.pc = pc]
  OBVIOUS
<1>3. new \in Pending /\ new.pc = pc /\ new.upload = restore[q].upload
  BY <1>1, <1>2 DEF Pending
<1>4. restore' = [restore EXCEPT ![q] = new]
  BY <1>1, <1>2 DEF F!Moves
<1>5. restore[q].upload \in snapshots
  BY <1>1 DEF Snapped
<1>6. QED
  BY <1>1, <1>3, <1>4, <1>5 DEF Quiet

LEMMA AsideKeeps ==
    ASSUME F!FileAssumption, FileInv, NEW q \in Restores, F!SetAside(q)
    PROVE  FileInv'
<1>1. /\ F!Active(q) /\ F!Moves(q, "write") /\ "write" \in RestorePcs \ {"none"}
      /\ restore[q].pc = "aside"
      /\ process' = process /\ snapshots' = snapshots /\ starts' = starts
      /\ misread' = misread /\ Copies
      /\ breakdowns' \in 0..MaxBreakdowns
      /\ db \in F!File \union {None} /\ bak \in F!File \union {None}
  BY DEF F!SetAside, F!Active, RestorePcs, FileInv, Ground, F!TypeOK, F!Works, F!Fails,
         F!FileAssumption
<1>2. /\ \/ db # None /\ bak' = db /\ db' = None /\ harmed' = (harmed \/ bak # None)
         \/ db' = db /\ bak' = bak /\ harmed' = TRUE
  BY DEF F!SetAside, F!fileVars
<1>3. harmed' \in BOOLEAN
  BY <1>2 DEF FileInv, Ground, F!TypeOK
<1>4. Ground' /\ Ordered' /\ Once'
  <2>1. From(db') /\ From(bak') /\ db' \in F!File \union {None} /\ bak' \in F!File \union {None}
    BY <1>1, <1>2, FromStays
  <2>2. QED
    BY <1>1, <1>3, <2>1, MovesFacts, MoveKeeps
<1>5. Copies'
  <2> SUFFICES ASSUME ~harmed' PROVE Copies'
    BY DEF Copies
  <2>1. ~harmed /\ bak = None /\ db # None /\ bak' = db /\ db' = None
    BY <1>2
  <2>2. Whole(db) /\ \A o \in Restores : ~ Past(o)
    BY <1>1, <2>1 DEF Copies
  <2>3. \A o \in Restores : o # q => restore'[o] = restore[o]
    BY <1>1, MovesFacts
  <2>4. restore'[q].pc = "write"
    BY <1>1, MovesFacts
  <2>5. \A o \in Restores : Past(o)' => o = q
    BY <2>2, <2>3 DEF Past
  <2>6. \A o \in Restores : restore'[o].pc \notin {"writing", "remove"}
    BY <2>2, <2>3, <2>4 DEF Past
  <2>7. QED
    BY <2>1, <2>2, <2>5, <2>6 DEF Copies, Whole
<1>6. QED
  BY <1>4, <1>5 DEF FileInv

LEMMA BeginWriteKeeps ==
    ASSUME F!FileAssumption, FileInv, NEW q \in Restores, F!BeginWrite(q)
    PROVE  FileInv'
<1>1. /\ F!Active(q) /\ restore[q].pc = "write"
      /\ process' = process /\ snapshots' = snapshots /\ starts' = starts
      /\ misread' = misread /\ bak' = bak /\ harmed' = harmed
      /\ breakdowns' \in 0..MaxBreakdowns /\ harmed \in BOOLEAN /\ Copies /\ Snapped
      /\ db \in F!File \union {None} /\ bak \in F!File \union {None}
  BY DEF F!BeginWrite, F!Active, FileInv, Ground, F!TypeOK, F!Works, F!Fails,
         F!FileAssumption
<1>2. PICK pc \in {"writing", "back"} :
        /\ F!Moves(q, pc)
        /\ pc = "writing" => db' = [restore[q].upload EXCEPT !.complete = FALSE, !.writer = q]
        /\ pc = "back" => db' = db
  BY DEF F!BeginWrite
<1>3. pc \in RestorePcs \ {"none"}
  BY DEF RestorePcs
<1>4. PICK up \in F!File : up = restore[q].upload /\ up \in snapshots
  BY <1>1, <1>2, <1>3, MovesFacts
<1>5. pc = "writing" => /\ db' \in F!File /\ db'.born = up.born /\ db'.writer = q
                        /\ Like(db', up)
  <2>1. PICK f : f = db'
    OBVIOUS
  <2>2. pc = "writing" => f = Uploaded(up, q)
    BY <1>2, <1>4, <2>1 DEF Uploaded
  <2>3. QED
    BY <2>1, <2>2, UploadedFile DEF Like
<1>6. Ground' /\ Ordered' /\ Once'
  <2>1. up \in Present
    BY <1>4 DEF Present, F!FileAssumption
  <2>2. From(db') /\ From(bak') /\ db' \in F!File \union {None} /\ bak' \in F!File \union {None}
    BY <1>1, <1>2, <1>5, <2>1, FromStays DEF From
  <2>3. QED
    BY <1>1, <1>2, <1>3, <2>2, MovesFacts, MoveKeeps
<1>7. Copies'
  <2> SUFFICES ASSUME ~harmed PROVE Copies'
    BY <1>1 DEF Copies
  <2>1. Past(q) /\ bak # None /\ Whole(bak) /\ \A o \in Restores : Past(o) => o = q
    BY <1>1 DEF Copies, Past
  <2>2. \A o \in Restores : o # q => restore'[o] = restore[o]
    BY <1>1, <1>2, <1>3, MovesFacts
  <2>3. restore'[q].pc = pc
    BY <1>1, <1>2, <1>3, MovesFacts
  <2>4. \A o \in Restores : Past(o)' => o = q
    BY <2>1, <2>2 DEF Past
  <2>5. \A o \in Restores : /\ restore'[o].pc = "writing" => o = q /\ pc = "writing"
                            /\ restore'[o].pc # "remove"
    BY <2>3, <2>4 DEF Past
  <2>6. pc = "writing" => db' # None /\ db'.writer = q /\ db'.born = 1
    BY <1>1, <1>4, <1>5 DEF Snapped, F!FileAssumption
  <2>7. QED
    BY <1>1, <2>1, <2>4, <2>5, <2>6 DEF Copies, Whole
<1>8. QED
  BY <1>6, <1>7 DEF FileInv

LEMMA EndWriteKeeps ==
    ASSUME F!FileAssumption, FileInv, NEW q \in Restores, F!EndWrite(q)
    PROVE  FileInv'
<1>1. /\ F!Active(q) /\ restore[q].pc = "writing"
      /\ process' = process /\ snapshots' = snapshots /\ starts' = starts
      /\ misread' = misread /\ harmed' = harmed
      /\ breakdowns' \in 0..MaxBreakdowns /\ harmed \in BOOLEAN /\ Copies
      /\ db \in F!File \union {None} /\ bak \in F!File \union {None}
  BY DEF F!EndWrite, F!Active, FileInv, Ground, F!TypeOK, F!Works, F!Fails,
         F!FileAssumption
<1>2. PICK pc \in {"remove", "back"} :
        /\ F!Moves(q, pc)
        /\ pc = "remove" => db' = F!Ended(db, q) /\ bak' = F!Ended(bak, q)
        /\ pc = "back" => db' = db /\ bak' = bak
  BY DEF F!EndWrite, F!fileVars
<1>3. pc \in RestorePcs \ {"none"}
  BY DEF RestorePcs
<1>4. ASSUME NEW f \in F!File \union {None}
      PROVE  /\ F!Ended(f, q) \in F!File \union {None}
             /\ F!Ended(f, q) = None <=> f = None
             /\ f # None => /\ F!Ended(f, q).born = f.born /\ Like(F!Ended(f, q), f)
                            /\ f.writer = q \/ f.complete = TRUE =>
                                  F!Ended(f, q).complete = TRUE
  BY EndedFile DEF Like, F!FileAssumption
<1>5. Ground' /\ Ordered' /\ Once'
  <2>1. From(F!Ended(db, q)) /\ From(F!Ended(bak, q))
    <3>1. /\ F!Ended(db, q) = None <=> db = None
          /\ db # None => Like(F!Ended(db, q), db) /\ db \in Present
          /\ F!Ended(bak, q) = None <=> bak = None
          /\ bak # None => Like(F!Ended(bak, q), bak) /\ bak \in Present
      BY <1>1, <1>4 DEF Present
    <3>2. QED
      BY <3>1 DEF From
  <2>2. From(db') /\ From(bak') /\ db' \in F!File \union {None} /\ bak' \in F!File \union {None}
    BY <1>1, <1>2, <1>4, <2>1, FromStays
  <2>3. QED
    BY <1>1, <1>2, <1>3, <2>2, MovesFacts, MoveKeeps
<1>6. Copies'
  <2> SUFFICES ASSUME ~harmed PROVE Copies'
    BY <1>1 DEF Copies
  <2>1. /\ Past(q) /\ bak # None /\ Whole(bak) /\ \A o \in Restores : Past(o) => o = q
        /\ db # None /\ db.writer = q /\ db.born = 1
    BY <1>1 DEF Copies, Past
  <2>2. /\ \A o \in Restores : o # q => restore'[o] = restore[o]
        /\ restore'[q].pc = pc
    BY <1>1, <1>2, <1>3, MovesFacts
  <2>3. \A o \in Restores : Past(o)' => o = q
    BY <2>1, <2>2 DEF Past
  <2>4. \A o \in Restores : /\ restore'[o].pc # "writing"
                            /\ restore'[o].pc = "remove" => o = q /\ pc = "remove"
    BY <2>2, <2>3 DEF Past
  <2>5. bak' # None /\ Whole(bak)'
    BY <1>1, <1>2, <1>4, <2>1 DEF Whole
  <2>6. pc = "remove" => Whole(db)'
    BY <1>1, <1>2, <1>4, <2>1 DEF Whole
  <2>7. QED
    BY <2>3, <2>4, <2>5, <2>6 DEF Copies
<1>7. QED
  BY <1>5, <1>6 DEF FileInv

LEMMA PutBackKeeps ==
    ASSUME F!FileAssumption, FileInv, NEW q \in Restores, F!PutBack(q)
    PROVE  FileInv'
<1>1. /\ F!Active(q) /\ restore[q].pc = "back" /\ F!Moves(q, "over")
      /\ "over" \in RestorePcs \ {"none"}
      /\ process' = process /\ snapshots' = snapshots /\ starts' = starts
      /\ misread' = misread /\ harmed' = harmed
      /\ breakdowns' \in 0..MaxBreakdowns /\ harmed \in BOOLEAN /\ Copies
      /\ db \in F!File \union {None} /\ bak \in F!File \union {None}
  BY DEF F!PutBack, F!Active, RestorePcs, FileInv, Ground, F!TypeOK, F!Works, F!Fails,
         F!FileAssumption
<1>2. \/ bak # None /\ db' = bak /\ bak' = None
      \/ db' = db /\ bak' = bak
  BY DEF F!PutBack, F!fileVars
<1>3. Ground' /\ Ordered' /\ Once'
  <2>1. From(db') /\ From(bak') /\ db' \in F!File \union {None} /\ bak' \in F!File \union {None}
    BY <1>1, <1>2, FromStays
  <2>2. QED
    BY <1>1, <2>1, MovesFacts, MoveKeeps
<1>4. Copies'
  <2> SUFFICES ASSUME ~harmed PROVE Copies'
    BY <1>1 DEF Copies
  <2>1. Past(q) /\ bak # None /\ Whole(bak) /\ \A o \in Restores : Past(o) => o = q
    BY <1>1 DEF Copies, Past
  <2>2. /\ \A o \in Restores : o # q => restore'[o] = restore[o]
        /\ restore'[q].pc = "over"
    BY <1>1, MovesFacts
  <2>3. \A o \in Restores : ~ Past(o)' /\ restore'[o].pc \notin {"writing", "remove"}
    BY <2>1, <2>2 DEF Past
  <2>4. \/ Whole(db)' /\ bak' = None
        \/ Whole(bak)' /\ bak' # None
    BY <1>2, <2>1 DEF Whole
  <2>5. QED
    BY <2>3, <2>4 DEF Copies
<1>5. QED
  BY <1>3, <1>4 DEF FileInv

LEMMA RemoveKeeps ==
    ASSUME F!FileAssumption, FileInv, NEW q \in Restores, F!RemoveAside(q)
    PROVE  FileInv'
<1>1. /\ F!Active(q) /\ restore[q].pc = "remove" /\ F!Moves(q, "over")
      /\ "over" \in RestorePcs \ {"none"}
      /\ process' = process /\ snapshots' = snapshots /\ starts' = starts /\ db' = db
      /\ misread' = misread /\ harmed' = harmed
      /\ breakdowns' \in 0..MaxBreakdowns /\ harmed \in BOOLEAN /\ Copies
      /\ db \in F!File \union {None} /\ bak \in F!File \union {None}
  BY DEF F!RemoveAside, F!Active, RestorePcs, FileInv, Ground, F!TypeOK, F!Works, F!Fails,
         F!FileAssumption
<1>2. bak' = None \/ bak' = bak
  BY DEF F!RemoveAside
<1>3. Ground' /\ Ordered' /\ Once'
  <2>1. From(db') /\ From(bak') /\ db' \in F!File \union {None} /\ bak' \in F!File \union {None}
    BY <1>1, <1>2, FromStays
  <2>2. QED
    BY <1>1, <2>1, MovesFacts, MoveKeeps
<1>4. Copies'
  <2> SUFFICES ASSUME ~harmed PROVE Copies'
    BY <1>1 DEF Copies
  <2>1. /\ Past(q) /\ bak # None /\ Whole(bak) /\ \A o \in Restores : Past(o) => o = q
        /\ Whole(db)
    BY <1>1 DEF Copies, Past
  <2>2. /\ \A o \in Restores : o # q => restore'[o] = restore[o]
        /\ restore'[q].pc = "over"
    BY <1>1, MovesFacts
  <2>3. \A o \in Restores : ~ Past(o)' /\ restore'[o].pc \notin {"writing", "remove"}
    BY <2>1, <2>2 DEF Past
  <2>4. Whole(db)' /\ (bak' # None => Whole(bak)')
    BY <1>1, <1>2, <2>1 DEF Whole
  <2>5. QED
    BY <2>3, <2>4 DEF Copies
<1>5. QED
  BY <1>3, <1>4 DEF FileInv

-----------------------------------------------------------------------------
(* The file: the invariant holds at first, and every step keeps it.        *)
LEMMA FileInitially ==
    ASSUME F!FileAssumption, F!Init
    PROVE  FileInv
<1>1. F!TypeOK
  <2>1. F!Down \in Places /\ 0 \in 0..MaxStarts /\ 0 \in 0..MaxBreakdowns
    BY DEF F!Down, Places, ProcessPcs, F!FileAssumption
  <2>2. F!Unused \in Pending
    BY DEF F!Unused, Pending, RestorePcs
  <2>3. QED
    BY <2>1, <2>2 DEF F!Init, F!TypeOK, Places, ProcessPcs, Pending, RestorePcs
<1>2. \A p \in Processes : process[p].pc = "down" /\ process[p].at = 1
  BY DEF F!Init, F!Down
<1>3. \A q \in Restores : restore[q] = F!Unused /\ restore[q].pc = "none"
  BY DEF F!Init, F!Unused
<1>4. Ground
  <2>1. Quiet
    BY <1>2 DEF Quiet, Starting
  <2>2. First
    BY <1>2 DEF First, F!Init
  <2>3. Snapped
    BY <1>3 DEF Snapped, F!Init
  <2>4. \A p \in Processes : PlacedAt(p) /\ LoadedAt(p)
    BY <1>2 DEF PlacedAt, LoadedAt, Starting
  <2>5. QED
    BY <1>1, <2>1, <2>2, <2>3, <2>4 DEF Ground
<1>5. Ordered
  BY DEF Ordered, F!Init
<1>6. Once
  BY <1>2 DEF Once, F!Init, F!Seeding
<1>7. Copies
  BY <1>3 DEF Copies, F!Init, Past
<1>8. QED
  BY <1>4, <1>5, <1>6, <1>7 DEF FileInv

LEMMA FileKeeps ==
    ASSUME F!FileAssumption, FileInv, [F!Next]_(F!vars)
    PROVE  FileInv'
<1>1. CASE F!CreateBackup
  BY <1>1, BackupKeeps
<1>2. ASSUME NEW p \in Processes, F!Connect(p) \/ F!Check(p) \/ F!ApplyMigration(p) \/ F!Crash(p)
      PROVE  FileInv'
  BY <1>2, ConnectKeeps, CheckKeeps, ApplyKeeps, FileCrashKeeps
<1>3. ASSUME NEW p \in Processes, F!Catalogue(p) \/ F!SeedTemplate(p) \/ F!BuildContainer(p)
      PROVE  FileInv'
  BY <1>3, CatalogueKeeps, SeedKeeps, BuildKeeps
<1>4. ASSUME NEW q \in Restores, NEW p \in Processes, F!RestoreBackup(q, p)
      PROVE  FileInv'
  BY <1>4, RequestKeeps
<1>5. ASSUME NEW q \in Restores, F!SetAside(q) \/ F!BeginWrite(q) \/ F!EndWrite(q)
      PROVE  FileInv'
  BY <1>5, AsideKeeps, BeginWriteKeeps, EndWriteKeeps
<1>6. ASSUME NEW q \in Restores, F!PutBack(q) \/ F!RemoveAside(q)
      PROVE  FileInv'
  BY <1>6, PutBackKeeps, RemoveKeeps
<1>7. CASE UNCHANGED F!vars
  <2>1. /\ db' = db /\ bak' = bak /\ process' = process /\ restore' = restore
        /\ snapshots' = snapshots /\ starts' = starts /\ breakdowns' = breakdowns
        /\ harmed' = harmed /\ misread' = misread
    BY <1>7 DEF F!vars, F!fileVars
  <2>2. Ground'
    BY <2>1 DEF FileInv, Ground, F!TypeOK, Quiet, First, Untouched, Snapped, PlacedAt,
                LoadedAt, Starting, F!Active
  <2>3. Ordered' /\ Copies'
    BY <2>1 DEF FileInv, Ordered, F!Migrated, Copies, Whole, Past
  <2>4. Once'
    BY <2>1 DEF FileInv, Once, Single, F!Seeding
  <2>5. QED
    BY <2>2, <2>3, <2>4 DEF FileInv
<1>8. QED
  BY <1>1, <1>2, <1>3, <1>4, <1>5, <1>6, <1>7 DEF F!Next

(* What the run checks follows from it.                                    *)
LEMMA FileTells ==
    ASSUME FileInv
    PROVE  F!MigratedOnce /\ F!CatalogueOnce /\ F!CopyKept
<1>1. F!MigratedOnce
  BY DEF FileInv, Ordered, Ground, First, Untouched, F!MigratedOnce
<1>2. F!CatalogueOnce
  BY DEF FileInv, Once, Single, F!CatalogueOnce
<1>3. F!CopyKept
  <2> SUFFICES ASSUME starts > 0, ~harmed PROVE F!CopyKept
    BY DEF F!CopyKept
  <2>1. Whole(bak) \/ Whole(db)
    BY DEF FileInv, Copies
  <2>2. QED
    BY <2>1 DEF F!CopyKept, Whole
<1>4. QED
  BY <1>1, <1>2, <1>3

(* DatabaseFile: the types of the state hold throughout.                   *)
THEOREM FileTypesHold == F!FileAssumption => (F!Spec => []F!TypeOK)
<1> SUFFICES ASSUME F!FileAssumption PROVE F!Spec => []F!TypeOK
  OBVIOUS
<1>1. F!Init => FileInv
  BY FileInitially
<1>2. FileInv /\ [F!Next]_(F!vars) => FileInv'
  BY FileKeeps
<1>3. FileInv => F!TypeOK
  BY DEF FileInv, Ground
<1>4. QED
  BY <1>1, <1>2, <1>3, PTL DEF F!Spec

(* DatabaseFile: for any number of processes, migrations, templates and    *)
(* restores, whatever fails and crashes, every migration has been applied  *)
(* once and in order, a start adds no templates to those of the migration  *)
(* unless it could not read them, and a restore does not lose both files   *)
(* (database/db.go, RunAllMigrations; app/seed.go;                         *)
(* modules/settings/handler.go, RestoreBackup).                            *)
THEOREM FileKeptHolds == F!FileAssumption => (F!Spec => []FileKept)
<1> SUFFICES ASSUME F!FileAssumption PROVE F!Spec => []FileKept
  OBVIOUS
<1>1. F!Init => FileInv
  BY FileInitially
<1>2. FileInv /\ [F!Next]_(F!vars) => FileInv'
  BY FileKeeps
<1>3. FileInv => FileKept
  BY FileTells DEF FileKept
<1>4. QED
  BY <1>1, <1>2, <1>3, PTL DEF F!Spec
=============================================================================
