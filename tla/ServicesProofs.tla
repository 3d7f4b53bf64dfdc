--------------------------- MODULE ServicesProofs --------------------------
(***************************************************************************)
(* Proofs about ManagedDatabases, for any number of databases, names,      *)
(* limits, requests and mishaps (no container is left that no row names,   *)
(* the container a row names exists, and it runs with the limits the row   *)
(* shows, or the code has left a lapse that the history names), about      *)
(* ClientPool, for any number of servers, callers, calls and mishaps (the  *)
(* second look under the write lock keeps one tunnel to each server), about*)
(* ContainerStreams, and about the three components of Services together.  *)
(***************************************************************************)
EXTENDS Services, TLAPS

(* A container is the provisioning goroutine's own until the row names it. *)
OwnedAt(d) ==
    /\ prov[d] \in {"none", "remove", "create"} => docker[d] \notin Existing
    /\ prov[d] # "done" => limited[d] = None /\ (row[d] # None => row[d].known = FALSE)
    /\ prov[d] \in {"start", "record"} => docker[d] \in Existing \/ <<"displaced", d>> \in lapses

(* The parts of RowsTell, database by database; the limits of a container  *)
(* whether it runs or not.                                                 *)
OrphanAt(d) ==
    docker[d] \in Existing /\ (row[d] = None \/ row[d].known = FALSE) =>
        prov[d] \in InHand \/ <<"orphan", d>> \in lapses
ExistsAt(d) ==
    row[d] # None /\ row[d].known = TRUE =>
        \/ docker[d] \in Existing
        \/ <<"displaced", d>> \in lapses \/ <<"halfdeleted", d>> \in lapses
        \/ Busy("delete", "write", d)
LimitedAt(d) ==
    row[d] # None =>
        limited[d] = row[d].limits \/ <<"drift", d>> \in lapses \/ Busy("limits", "docker", d)

Told(d) == OwnedAt(d) /\ OrphanAt(d) /\ ExistsAt(d) /\ LimitedAt(d)

(* A request that goes to Docker has read a row that named a container, so *)
(* nobody provisions the database any more; a delete that has been there   *)
(* left no container or a note.                                            *)
HeldAt(r) == req[r] # Idle =>
    /\ req[r].pc = "docker" => req[r].known = TRUE
    /\ req[r].known = TRUE => prov[req[r].db] = "done"
    /\ At(r, "delete", "write") /\ req[r].known = TRUE =>
          docker[req[r].db] \notin Existing \/ <<"orphan", req[r].db>> \in lapses

Inv ==
    /\ None \notin Row
    /\ TypeOK
    /\ \A d \in Databases : Told(d)
    /\ \A r \in Requests : HeldAt(r)

-----------------------------------------------------------------------------
(* A step that does not touch a database, and at most adds requests in the *)
(* middle of their work on it.                                             *)
LEMMA Elsewhere ==
    ASSUME NEW d \in Databases, Told(d),
           row'[d] = row[d], docker'[d] = docker[d], limited'[d] = limited[d],
           prov'[d] = prov[d], lapses \subseteq lapses',
           Busy("delete", "write", d) => Busy("delete", "write", d)',
           Busy("limits", "docker", d) => Busy("limits", "docker", d)'
    PROVE  Told(d)'
BY DEF Told, OwnedAt, OrphanAt, ExistsAt, LimitedAt

(* A request that does not move keeps what it holds as long as nothing     *)
(* comes back that it has removed.                                         *)
LEMMA HeldStays ==
    ASSUME TypeOK, NEW r \in Requests, HeldAt(r), req'[r] = req[r], lapses \subseteq lapses',
           \A d \in Databases : prov[d] = "done" =>
              /\ prov'[d] = "done"
              /\ docker[d] \notin Existing =>
                    docker'[d] \notin Existing \/ <<"orphan", d>> \in lapses'
    PROVE  HeldAt(r)'
<1>1. req[r] # Idle => req[r].db \in Databases
  BY DEF TypeOK, Request, Idle
<1>2. QED
  BY <1>1 DEF HeldAt, At

(* Requests that stay stay busy with what they were busy with.             *)
LEMMA BusyStays ==
    ASSUME NEW d, NEW op, NEW pc,
           \A r \in Requests : req[r] # Idle /\ At(r, op, pc) /\ req[r].db = d => req'[r] = req[r]
    PROVE  Busy(op, pc, d) => Busy(op, pc, d)'
BY DEF Busy, At

LEMMA UpdateRow ==
    ASSUME TypeOK, NEW d \in Databases, NEW new, row[d] # None => new \in Row,
           Update(d, new)
    PROVE  /\ row' \in [Databases -> Row \union {None}]
           /\ \A e \in Databases : e # d => row'[e] = row[e]
           /\ row[d] = None => row'[d] = None
           /\ row[d] # None => row'[d] = new
BY DEF TypeOK, Update

(* UpdateStatus changes nothing that the invariant looks at.               *)
LEMMA StatusStep ==
    ASSUME None \notin Row, TypeOK, NEW d \in Databases, NEW s \in Status, UpdateStatus(d, s)
    PROVE  /\ row' \in [Databases -> Row \union {None}]
           /\ \A e \in Databases : /\ row'[e] = None <=> row[e] = None
                                   /\ row'[e].known = row[e].known \/ row[e] = None
                                   /\ row'[e].limits = row[e].limits \/ row[e] = None
<1>1. row[d] # None => row[d] \in Row
  BY DEF TypeOK
<1>0. PICK new : new = [row[d] EXCEPT !.status = s]
  OBVIOUS
<1>2. row[d] # None =>
         new \in Row /\ new.known = row[d].known /\ new.limits = row[d].limits
  BY <1>0, <1>1 DEF Row
<1>3. Update(d, new)
  BY <1>0 DEF UpdateStatus
<1>4. /\ row' \in [Databases -> Row \union {None}]
      /\ \A e \in Databases : e # d => row'[e] = row[e]
      /\ row[d] = None => row'[d] = None
      /\ row[d] # None => row'[d] = new
  BY <1>2, <1>3, UpdateRow
<1>5. QED
  BY <1>1, <1>2, <1>4

-----------------------------------------------------------------------------
(* The provisioning of one database.                                       *)
LEMMA ProvisionKeeps ==
    ASSUME Inv, NEW d \in Databases, TypeOK', req' = req, lapses \subseteq lapses',
           prov[d] # "done",
           \A e \in Databases : e # d =>
              /\ row'[e] = row[e] /\ docker'[e] = docker[e]
              /\ limited'[e] = limited[e] /\ prov'[e] = prov[e],
           Told(d)'
    PROVE  Inv'
<1>1. ASSUME NEW op, NEW pc, NEW e PROVE Busy(op, pc, e) => Busy(op, pc, e)'
  BY BusyStays
<1>2. ASSUME NEW e \in Databases, e # d PROVE Told(e)'
  BY <1>1, <1>2, Elsewhere DEF Inv
<1>3. ASSUME NEW r \in Requests PROVE HeldAt(r)'
  BY <1>3, HeldStays DEF Inv
<1>4. QED
  BY <1>2, <1>3 DEF Inv

LEMMA InsertKeeps ==
    ASSUME Inv, NEW d \in Databases, Insert(d)
    PROVE  Inv'
<1> DEFINE new == [status |-> "idle", known |-> FALSE, limits |-> None]
<1>1. new \in Row /\ new.known = FALSE /\ new.limits = None
  BY DEF Row, Status
<1>2. /\ row' = [row EXCEPT ![d] = new] /\ prov' = [prov EXCEPT ![d] = "remove"]
      /\ prov[d] = "none"
      /\ UNCHANGED <<docker, limited, name, req, poll, started, mishaps, lapses>>
  BY DEF Insert, hostVars, boundVars
<1> HIDE DEF new
<1>3. TypeOK'
  BY <1>1, <1>2 DEF Inv, TypeOK, ProvPcs
<1>4. row'[d] = new /\ prov'[d] = "remove"
  BY <1>2 DEF Inv, TypeOK
<1>5. Told(d)'
  BY <1>1, <1>2, <1>4 DEF Inv, Told, OwnedAt, OrphanAt, ExistsAt, LimitedAt
<1>6. QED
  BY <1>2, <1>3, <1>5, ProvisionKeeps DEF Inv, TypeOK

LEMMA ProvMoves ==
    ASSUME TypeOK, NEW d \in Databases, NEW from, NEW to \in ProvPcs, ProvStep(d, from, to)
    PROVE  /\ prov' \in [Databases -> ProvPcs] /\ prov[d] = from /\ prov'[d] = to
           /\ \A e \in Databases : e # d => prov'[e] = prov[e]
           /\ UNCHANGED <<req, poll, started>>
BY DEF ProvStep, TypeOK

LEMMA RemoveNamedKeeps ==
    ASSUME Inv, NEW d \in Databases, NEW n \in Names, RemoveNamed(d, n)
    PROVE  Inv'
<1>1. /\ prov' \in [Databases -> ProvPcs] /\ prov[d] = "remove" /\ prov'[d] = "create"
      /\ \A e \in Databases : e # d => prov'[e] = prov[e]
      /\ UNCHANGED <<req, poll, started>>
  BY ProvMoves DEF RemoveNamed, Inv, ProvPcs
<1>2. UNCHANGED <<row, limited>> /\ name' \in [Databases -> Names \union {None}]
  BY DEF RemoveNamed, Inv, TypeOK
<1>3. /\ docker' \in [Databases -> Existing \union {"none", "gone"}]
      /\ lapses \subseteq lapses' /\ lapses' \subseteq Lapses \X Databases
      /\ mishaps' \in Nat
      /\ \A e \in Databases :
            \/ docker'[e] = docker[e]
            \/ docker[e] \in Existing /\ docker'[e] = "gone" /\ <<"displaced", e>> \in lapses'
  <2>1. CASE UNCHANGED <<docker, lapses>> /\ Fails
    BY <2>1 DEF Inv, TypeOK, Fails
  <2>2. CASE /\ Works
             /\ docker' = [e \in Databases |->
                             IF e \in Holding(n) THEN "gone" ELSE docker[e]]
             /\ lapses' = lapses \union {<<"displaced", e>> : e \in Holding(n)}
    BY <2>2 DEF Inv, TypeOK, Works, Holding, Lapses
  <2>3. QED
    BY <2>1, <2>2 DEF RemoveNamed
<1>4. TypeOK'
  BY <1>1, <1>2, <1>3 DEF Inv, TypeOK
<1>5. ASSUME NEW op, NEW pc, NEW e PROVE Busy(op, pc, e) <=> Busy(op, pc, e)'
  BY <1>1 DEF Busy, At
<1>6. ASSUME NEW e \in Databases PROVE Told(e)'
  <2>1. "gone" \notin Existing
    BY DEF Existing
  <2>2. OwnedAt(e)'
    BY <1>1, <1>2, <1>3, <2>1 DEF Inv, Told, OwnedAt
  <2>3. OrphanAt(e)'
    BY <1>1, <1>2, <1>3, <2>1 DEF Inv, Told, OrphanAt, OwnedAt, InHand
  <2>4. ExistsAt(e)' /\ LimitedAt(e)'
    BY <1>2, <1>3, <1>5 DEF Inv, Told, ExistsAt, LimitedAt
  <2>5. QED
    BY <2>2, <2>3, <2>4 DEF Told
<1>7. ASSUME NEW r \in Requests PROVE HeldAt(r)'
  <2>1. "gone" \notin Existing
    BY DEF Existing
  <2>2. QED
    BY <1>1, <1>3, <2>1, HeldStays DEF Inv
<1>8. QED
  BY <1>4, <1>6, <1>7 DEF Inv

(* Steps that change the container of the database alone.                  *)
LEMMA ContainerKeeps ==
    ASSUME Inv, NEW d \in Databases,
           CreateContainer(d) \/ CreateFails(d) \/ StartNew(d) \/ StartNewFails(d) \/ CleanUp(d)
    PROVE  Inv'
<1>1. /\ prov' \in [Databases -> ProvPcs] /\ UNCHANGED <<req, poll, started>>
      /\ \A e \in Databases : e # d => prov'[e] = prov[e]
      /\ prov[d] # "done" /\ prov'[d] # "done"
  BY ProvMoves DEF CreateContainer, CreateFails, StartNew, StartNewFails, CleanUp, Inv, ProvPcs
<1>2. /\ UNCHANGED <<row, limited, name>>
      /\ mishaps' = mishaps \/ mishaps' = mishaps + 1
  BY DEF CreateContainer, CreateFails, StartNew, StartNewFails, CleanUp, Works, Fails, hostVars
<1>3. /\ docker' \in [Databases -> Existing \union {"none", "gone"}]
      /\ \A e \in Databases : e # d => docker'[e] = docker[e]
  BY DEF CreateContainer, CreateFails, StartNew, StartNewFails, CleanUp, Inv, TypeOK, hostVars,
         Existing
<1>4. lapses \subseteq lapses' /\ lapses' \subseteq Lapses \X Databases
  BY DEF CreateContainer, CreateFails, StartNew, StartNewFails, CleanUp, Inv, TypeOK,
         Lapse, Lapses
<1>5. TypeOK'
  BY <1>1, <1>2, <1>3, <1>4 DEF Inv, TypeOK
<1>6. /\ prov'[d] \notin {"none", "remove", "create"}
      /\ prov'[d] \in {"start", "record"} =>
            docker'[d] \in Existing \/ <<"displaced", d>> \in lapses'
      /\ docker'[d] \in Existing /\ prov'[d] \notin InHand => <<"orphan", d>> \in lapses'
  <2>1. CASE CreateContainer(d)
    <3>1. prov'[d] = "start" /\ docker'[d] = "created"
      BY <2>1, ProvMoves DEF CreateContainer, Inv, TypeOK, ProvPcs
    <3>2. QED
      BY <3>1 DEF InHand, Existing
  <2>2. CASE CreateFails(d)
    <3>1. prov[d] = "create" /\ prov'[d] = "fail" /\ docker' = docker
      BY <2>2, ProvMoves DEF CreateFails, Inv, ProvPcs, hostVars
    <3>2. QED
      BY <3>1 DEF Inv, Told, OwnedAt
  <2>3. CASE StartNew(d)
    <3>1. prov'[d] = "record" /\ docker'[d] = "running"
      BY <2>3, ProvMoves DEF StartNew, Inv, TypeOK, ProvPcs
    <3>2. QED
      BY <3>1 DEF InHand, Existing
  <2>4. CASE StartNewFails(d)
    <3>1. prov'[d] = "cleanup"
      BY <2>4, ProvMoves DEF StartNewFails, Inv, ProvPcs
    <3>2. QED
      BY <3>1 DEF InHand
  <2>5. CASE CleanUp(d)
    <3>1. prov'[d] = "fail"
      BY <2>5, ProvMoves DEF CleanUp, Inv, ProvPcs
    <3>2. docker'[d] = "gone" \/ <<"orphan", d>> \in lapses'
      BY <2>5 DEF CleanUp, Inv, TypeOK, Lapse
    <3>3. QED
      BY <3>1, <3>2 DEF Existing
  <2>6. QED
    BY <2>1, <2>2, <2>3, <2>4, <2>5
<1>7. row[d] # None => row[d].known = FALSE
  BY <1>1 DEF Inv, Told, OwnedAt
<1>8. OwnedAt(d)' /\ OrphanAt(d)'
  BY <1>1, <1>2, <1>6, <1>7 DEF Inv, Told, OwnedAt, OrphanAt
<1>9. ExistsAt(d)' /\ LimitedAt(d)'
  <2>1. Busy("limits", "docker", d) => Busy("limits", "docker", d)'
    BY <1>1, BusyStays
  <2>2. QED
    BY <1>2, <1>4, <1>7, <2>1 DEF Inv, Told, ExistsAt, LimitedAt
<1>10. Told(d)'
  BY <1>8, <1>9 DEF Told
<1>11. QED
  BY <1>1, <1>2, <1>3, <1>4, <1>5, <1>10, ProvisionKeeps

-----------------------------------------------------------------------------
(* What stays told when the status of some row changes and nothing else.   *)
LEMMA QuietKeeps ==
    ASSUME Inv, TypeOK', UNCHANGED <<docker, limited, prov, lapses>>,
           \A e \in Databases : /\ row'[e] = None <=> row[e] = None
                                /\ row'[e].known = row[e].known \/ row[e] = None
                                /\ row'[e].limits = row[e].limits \/ row[e] = None,
           \A r \in Requests : req'[r] # req[r] => HeldAt(r)',
           \A e \in Databases : Busy("delete", "write", e) => Busy("delete", "write", e)',
           \A e \in Databases : Busy("limits", "docker", e) => Busy("limits", "docker", e)'
    PROVE  Inv'
<1>1. ASSUME NEW e \in Databases PROVE Told(e)'
  <2>1. OwnedAt(e)' /\ OrphanAt(e)'
    BY <1>1 DEF Inv, Told, OwnedAt, OrphanAt
  <2>2. ExistsAt(e)' /\ LimitedAt(e)'
    BY <1>1 DEF Inv, Told, ExistsAt, LimitedAt
  <2>3. QED
    BY <2>1, <2>2 DEF Told
<1>2. ASSUME NEW r \in Requests PROVE HeldAt(r)'
  <2>1. CASE req'[r] # req[r]
    BY <2>1
  <2>2. CASE req'[r] = req[r]
    BY <2>2, HeldStays DEF Inv
  <2>3. QED
    BY <2>1, <2>2
<1>3. QED
  BY <1>1, <1>2 DEF Inv

LEMMA RecordFailureKeeps ==
    ASSUME Inv, NEW d \in Databases, RecordFailure(d)
    PROVE  Inv'
<1>1. /\ prov' \in [Databases -> ProvPcs] /\ prov[d] = "fail" /\ prov'[d] = "done"
      /\ \A e \in Databases : e # d => prov'[e] = prov[e]
      /\ UNCHANGED <<req, poll, started>>
  BY ProvMoves DEF RecordFailure, Inv, ProvPcs
<1>2. /\ UNCHANGED <<docker, limited, name, lapses>>
      /\ mishaps' = mishaps \/ mishaps' = mishaps + 1
  BY DEF RecordFailure, hostVars, Works, Fails
<1>3. /\ row' \in [Databases -> Row \union {None}]
      /\ \A e \in Databases : /\ row'[e] = None <=> row[e] = None
                              /\ row'[e].known = row[e].known \/ row[e] = None
                              /\ row'[e].limits = row[e].limits \/ row[e] = None
  <2>1. CASE UpdateStatus(d, "failed")
    BY <2>1, StatusStep DEF Inv, Status
  <2>2. CASE UNCHANGED row
    BY <2>2 DEF Inv, TypeOK
  <2>3. QED
    BY <2>1, <2>2 DEF RecordFailure
<1>4. TypeOK'
  BY <1>1, <1>2, <1>3 DEF Inv, TypeOK
<1>5. ASSUME NEW op, NEW pc, NEW e PROVE Busy(op, pc, e) <=> Busy(op, pc, e)'
  BY <1>1 DEF Busy, At
<1>6. ASSUME NEW e \in Databases PROVE Told(e)'
  <2>1. OwnedAt(e)'
    BY <1>1, <1>2, <1>3 DEF Inv, Told, OwnedAt
  <2>2. OrphanAt(e)'
    BY <1>1, <1>2, <1>3 DEF Inv, Told, OrphanAt, InHand
  <2>3. ExistsAt(e)' /\ LimitedAt(e)'
    BY <1>2, <1>3, <1>5 DEF Inv, Told, ExistsAt, LimitedAt
  <2>4. QED
    BY <2>1, <2>2, <2>3 DEF Told
<1>7. ASSUME NEW r \in Requests PROVE HeldAt(r)'
  BY <1>1, <1>2, HeldStays DEF Inv
<1>8. QED
  BY <1>4, <1>6, <1>7 DEF Inv

(* The row comes to name the container, or the container is an orphan.     *)
LEMMA RecordContainerKeeps ==
    ASSUME Inv, NEW d \in Databases, RecordContainer(d)
    PROVE  Inv'
<1>1. /\ prov' \in [Databases -> ProvPcs] /\ prov[d] = "record" /\ prov'[d] = "done"
      /\ \A e \in Databases : e # d => prov'[e] = prov[e]
      /\ UNCHANGED <<req, poll, started>>
  BY ProvMoves DEF RecordContainer, Inv, ProvPcs
<1>2. /\ UNCHANGED <<docker, limited, name>>
      /\ mishaps' = mishaps \/ mishaps' = mishaps + 1
      /\ lapses \subseteq lapses' /\ lapses' \subseteq lapses \union {<<"orphan", d>>}
  BY DEF RecordContainer, hostVars, Works, Fails, Lapse, LapseIf
<1>3. PICK new : new = [row[d] EXCEPT !.known = TRUE, !.status = "running"]
  OBVIOUS
<1>4. row[d] # None =>
         new \in Row /\ new.known = TRUE /\ new.limits = row[d].limits /\ new # None
  BY <1>3 DEF Inv, TypeOK, Row, Status
<1>5. \/ /\ Update(d, new)
         /\ row[d] = None => <<"orphan", d>> \in lapses'
      \/ UNCHANGED row /\ <<"orphan", d>> \in lapses'
  BY <1>3 DEF RecordContainer, Lapse, LapseIf
<1>6. /\ row' \in [Databases -> Row \union {None}]
      /\ \A e \in Databases : e # d => row'[e] = row[e]
      /\ \/ row'[d] = row[d] /\ <<"orphan", d>> \in lapses'
         \/ row[d] # None /\ row'[d] = new
  <2>1. CASE UNCHANGED row /\ <<"orphan", d>> \in lapses'
    BY <2>1 DEF Inv, TypeOK
  <2>2. CASE /\ Update(d, new)
             /\ row[d] = None => <<"orphan", d>> \in lapses'
    <3>1. /\ row' \in [Databases -> Row \union {None}]
          /\ \A e \in Databases : e # d => row'[e] = row[e]
          /\ row[d] = None => row'[d] = None
          /\ row[d] # None => row'[d] = new
      BY <1>4, <2>2, UpdateRow DEF Inv
    <3>2. QED
      BY <2>2, <3>1
  <2>3. QED
    BY <1>5, <2>1, <2>2
<1>7. TypeOK'
  BY <1>1, <1>2, <1>6 DEF Inv, TypeOK, Lapses
<1>8. ASSUME NEW op, NEW pc, NEW e PROVE Busy(op, pc, e) => Busy(op, pc, e)'
  BY <1>1, BusyStays
<1>9. Told(d)'
  <2>1. OwnedAt(d) /\ OrphanAt(d) /\ ExistsAt(d) /\ LimitedAt(d)
    BY DEF Inv, Told
  <2>2. OwnedAt(d)'
    BY <1>1 DEF OwnedAt
  <2>3. OrphanAt(d)'
    BY <1>4, <1>6 DEF OrphanAt
  <2>4. ExistsAt(d)'
    BY <1>1, <1>2, <1>6, <2>1 DEF ExistsAt, OwnedAt
  <2>5. LimitedAt(d)'
    BY <1>2, <1>4, <1>6, <1>8, <2>1 DEF LimitedAt
  <2>6. QED
    BY <2>2, <2>3, <2>4, <2>5 DEF Told
<1>10. QED
  BY <1>1, <1>2, <1>6, <1>7, <1>9, ProvisionKeeps
-----------------------------------------------------------------------------
(* Requests and polls.                                                     *)
LEMMA ReqFacts ==
    ASSUME TypeOK, NEW r \in Requests, req[r] # Idle
    PROVE  /\ req[r].op \in Operations /\ req[r].db \in Databases
           /\ req[r].pc \in {"docker", "write"} /\ req[r].known \in BOOLEAN
           /\ req[r].limits \in Limits \union {None}
BY DEF TypeOK, Request

LEMMA Proceeds ==
    ASSUME TypeOK, NEW r \in Requests, NEW pc \in {"docker", "write"}, req[r] # Idle,
           req' = [req EXCEPT ![r].pc = pc]
    PROVE  /\ req' \in [Requests -> Request] /\ req'[r].pc = pc /\ req'[r] # Idle
           /\ req'[r].op = req[r].op /\ req'[r].db = req[r].db
           /\ req'[r].known = req[r].known /\ req'[r].limits = req[r].limits
           /\ \A q \in Requests : q # r => req'[q] = req[q]
<1> DEFINE Work == [op : Operations, db : Databases, pc : {"docker", "write"},
                    known : BOOLEAN, limits : Limits \union {None}]
<1>1. PICK e : e = [req[r] EXCEPT !.pc = pc]
  OBVIOUS
<1>2. req[r] \in Work
  BY DEF TypeOK, Request
<1>3. /\ e \in Work /\ e.pc = pc /\ e.op = req[r].op /\ e.db = req[r].db
      /\ e.known = req[r].known /\ e.limits = req[r].limits
  BY <1>1, <1>2
<1>4. req' = [req EXCEPT ![r] = e]
  BY <1>1
<1>5. e # Idle
  BY <1>3 DEF Idle, Operations
<1>6. e \in Request
  BY <1>3 DEF Request
<1> HIDE DEF Work
<1>7. QED
  BY <1>3, <1>4, <1>5, <1>6 DEF TypeOK

LEMMA Returns ==
    ASSUME TypeOK, NEW r \in Requests, Return(r)
    PROVE  /\ req' \in [Requests -> Request] /\ req'[r] = Idle /\ HeldAt(r)'
           /\ \A q \in Requests : q # r => req'[q] = req[q]
BY DEF TypeOK, Return, Request, HeldAt

(* Where a request is that is somewhere.                                   *)
LEMMA AtWork ==
    ASSUME NEW r \in Requests, NEW op \in Operations, NEW pc, At(r, op, pc)
    PROVE  req[r] # Idle /\ req[r].op = op /\ req[r].pc = pc
BY DEF At, Idle, Operations

-----------------------------------------------------------------------------
(* A step of a request touches its own database only.                      *)
LEMMA RequestKeeps ==
    ASSUME Inv, NEW r \in Requests, NEW d \in Databases, TypeOK', req[r] # Idle, req[r].db = d,
           \A q \in Requests : q # r => req'[q] = req[q],
           HeldAt(r)', prov' = prov, lapses \subseteq lapses',
           \A e \in Databases : e # d =>
              row'[e] = row[e] /\ docker'[e] = docker[e] /\ limited'[e] = limited[e],
           docker[d] \notin Existing => docker'[d] \notin Existing,
           Told(d)'
    PROVE  Inv'
<1>1. ASSUME NEW e \in Databases, e # d PROVE Told(e)'
  <2>1. ASSUME NEW op, NEW pc PROVE Busy(op, pc, e) => Busy(op, pc, e)'
    BY <1>1, BusyStays
  <2>2. QED
    BY <1>1, <2>1, Elsewhere DEF Inv
<1>2. ASSUME NEW q \in Requests, q # r PROVE HeldAt(q)'
  BY <1>2, HeldStays DEF Inv
<1>3. QED
  BY <1>1, <1>2 DEF Inv

(* A request that was not busy with something lets those that are be.      *)
LEMMA OthersBusy ==
    ASSUME NEW r \in Requests, NEW op, NEW pc, NEW d, ~At(r, op, pc),
           \A q \in Requests : q # r => req'[q] = req[q]
    PROVE  Busy(op, pc, d) => Busy(op, pc, d)'
BY DEF Busy, At

LEMMA ArrivesKeeps ==
    ASSUME Inv, NEW r \in Requests, NEW op \in Operations, NEW d \in Databases,
           NEW l \in Limits \union {None}, NEW known \in BOOLEAN, NEW pc \in {"docker", "write"},
           req[r] = Idle, row[d] # None, started' = started + 1, mishaps' \in Nat,
           UNCHANGED <<row, docker, limited, name, prov, poll, lapses>>,
           req' = [req EXCEPT ![r] =
                     [op |-> op, db |-> d, known |-> known, limits |-> l, pc |-> pc]],
           known = TRUE => prov[d] = "done",
           pc = "docker" => known = TRUE,
           op = "delete" /\ pc = "write" => known = FALSE
    PROVE  Inv'
<1>1. PICK e : e = [op |-> op, db |-> d, known |-> known, limits |-> l, pc |-> pc]
  OBVIOUS
<1>2. req' = [req EXCEPT ![r] = e]
  BY <1>1
<1>3. /\ e \in Request /\ e.op = op /\ e.db = d /\ e.known = known /\ e.pc = pc
  BY <1>1 DEF Request
<1>4. TypeOK'
  BY <1>2, <1>3 DEF Inv, TypeOK
<1>5. req'[r] = e /\ \A q \in Requests : q # r => req'[q] = req[q]
  BY <1>2 DEF Inv, TypeOK
<1>6. HeldAt(r)'
  BY <1>3, <1>5 DEF HeldAt, At
<1>7. ASSUME NEW o, NEW p, NEW b \in Databases PROVE Busy(o, p, b) => Busy(o, p, b)'
  BY <1>5, BusyStays
<1>8. QED
  BY <1>4, <1>5, <1>6, <1>7, QuietKeeps

LEMMA BeginKeeps ==
    ASSUME Inv, NEW r \in Requests, NEW op \in Operations, NEW d \in Databases,
           NEW l \in Limits \union {None}, Begin(r, op, d, l)
    PROVE  Inv'
<1>1. /\ req[r] = Idle /\ row[d] # None /\ started' = started + 1 /\ mishaps' \in Nat
      /\ UNCHANGED <<row, docker, limited, name, prov, poll, lapses>>
  BY DEF Begin, hostVars, Inv, TypeOK
<1>2. row[d].known \in BOOLEAN
  BY <1>1 DEF Inv, TypeOK, Row
<1>3. PICK known \in BOOLEAN : known = row[d].known
  BY <1>2
<1>4. PICK pc \in {"docker", "write"} :
         /\ pc = IF known /\ op # "limits" THEN "docker" ELSE "write"
  OBVIOUS
<1>5. req' = [req EXCEPT ![r] =
                [op |-> op, db |-> d, known |-> known, limits |-> l, pc |-> pc]]
  BY <1>3, <1>4 DEF Begin
<1>6. known = TRUE => prov[d] = "done"
  BY <1>1, <1>3 DEF Inv, Told, OwnedAt
<1>7. (pc = "docker" => known = TRUE) /\ (op = "delete" /\ pc = "write" => known = FALSE)
  BY <1>4
<1>8. QED
  BY <1>1, <1>5, <1>6, <1>7, ArrivesKeeps

(* A delete that could not read the row knows no container.                *)
LEMMA BeginDeleteKeeps ==
    ASSUME Inv, NEW r \in Requests, NEW d \in Databases, BeginDelete(r, d)
    PROVE  Inv'
<1>1. "delete" \in Operations /\ None \in Limits \union {None}
  BY DEF Operations
<1>2. CASE Begin(r, "delete", d, None)
  BY <1>1, <1>2, BeginKeeps
<1>3. CASE /\ req[r] = Idle /\ row[d] # None /\ Fails /\ started' = started + 1
           /\ req' = [req EXCEPT ![r] = [op |-> "delete", db |-> d, known |-> FALSE,
                                         limits |-> None, pc |-> "write"]]
           /\ UNCHANGED <<row, hostVars, prov, poll, lapses>>
  <2>1. UNCHANGED <<row, docker, limited, name, prov, poll, lapses>> /\ mishaps' \in Nat
    BY <1>3 DEF hostVars, Fails, Inv, TypeOK
  <2>2. QED
    BY <1>1, <1>3, <2>1, ArrivesKeeps
<1>4. QED
  BY <1>2, <1>3 DEF BeginDelete

LEMMA PowerCallKeeps ==
    ASSUME Inv, NEW r \in Requests, NEW d \in Databases, StartCall(r, d) \/ StopCall(r, d)
    PROVE  Inv'
<1>1. /\ req[r] # Idle /\ req[r].db = d /\ req[r].op \in {"start", "stop"}
      /\ Proceed(r) /\ UNCHANGED <<row, limited, name, prov, poll, started, lapses>>
      /\ mishaps' = mishaps \/ mishaps' = mishaps + 1
  BY AtWork DEF StartCall, StopCall, Operations, Works, Fails, At
<1>2. /\ req' \in [Requests -> Request] /\ req'[r].pc = "write" /\ req'[r] # Idle
      /\ req'[r].op = req[r].op /\ req'[r].db = req[r].db /\ req'[r].known = req[r].known
      /\ \A q \in Requests : q # r => req'[q] = req[q]
  BY <1>1, Proceeds DEF Proceed, Inv
<1>3. /\ docker' \in [Databases -> Existing \union {"none", "gone"}]
      /\ \A e \in Databases : e # d => docker'[e] = docker[e]
      /\ docker'[d] \in Existing <=> docker[d] \in Existing
  BY DEF StartCall, StopCall, Inv, TypeOK, Existing
<1>4. TypeOK'
  BY <1>1, <1>2, <1>3 DEF Inv, TypeOK
<1>5. HeldAt(r)'
  BY <1>1, <1>2 DEF Inv, HeldAt, At
<1>6. ~At(r, "delete", "write") /\ ~At(r, "limits", "docker")
  BY <1>1 DEF At
<1>7. Told(d)'
  <2>1. /\ Busy("delete", "write", d) => Busy("delete", "write", d)'
        /\ Busy("limits", "docker", d) => Busy("limits", "docker", d)'
    BY <1>2, <1>6, OthersBusy
  <2>2. OwnedAt(d)' /\ OrphanAt(d)'
    BY <1>1, <1>3 DEF Inv, Told, OwnedAt, OrphanAt
  <2>3. ExistsAt(d)' /\ LimitedAt(d)'
    BY <1>1, <1>3, <2>1 DEF Inv, Told, ExistsAt, LimitedAt
  <2>4. QED
    BY <2>2, <2>3 DEF Told
<1>8. QED
  BY <1>1, <1>2, <1>3, <1>4, <1>5, <1>7, RequestKeeps

LEMMA StatusWriteKeeps ==
    ASSUME Inv, NEW r \in Requests, NEW d \in Databases, StatusWrite(r, d)
    PROVE  Inv'
<1>1. /\ req[r].op \in {"start", "stop"} /\ Return(r)
      /\ UNCHANGED <<docker, limited, name, prov, poll, started, lapses>>
      /\ mishaps' = mishaps \/ mishaps' = mishaps + 1
  BY DEF StatusWrite, hostVars, Works, Fails, At
<1>2. /\ req' \in [Requests -> Request] /\ HeldAt(r)'
      /\ \A q \in Requests : q # r => req'[q] = req[q]
  BY <1>1, Returns DEF Inv
<1>3. PICK s \in Status : s = IF req[r].op = "start" THEN "running" ELSE "stopped"
  BY DEF Status
<1>4. /\ row' \in [Databases -> Row \union {None}]
      /\ \A e \in Databases : /\ row'[e] = None <=> row[e] = None
                              /\ row'[e].known = row[e].known \/ row[e] = None
                              /\ row'[e].limits = row[e].limits \/ row[e] = None
  <2>1. CASE UpdateStatus(d, s)
    BY <2>1, StatusStep DEF Inv
  <2>2. CASE UNCHANGED row
    BY <2>2 DEF Inv, TypeOK
  <2>3. QED
    BY <1>3, <2>1, <2>2 DEF StatusWrite
<1>5. TypeOK'
  BY <1>1, <1>2, <1>4 DEF Inv, TypeOK
<1>6. ~At(r, "delete", "write") /\ ~At(r, "limits", "docker")
  BY <1>1 DEF At
<1>7. \A e \in Databases :
         /\ Busy("delete", "write", e) => Busy("delete", "write", e)'
         /\ Busy("limits", "docker", e) => Busy("limits", "docker", e)'
  BY <1>2, <1>6, OthersBusy
<1>8. QED
  BY <1>1, <1>2, <1>4, <1>5, <1>7, QuietKeeps

(* A delete takes the container or says that it has not.                   *)
LEMMA DeleteCallKeeps ==
    ASSUME Inv, NEW r \in Requests, NEW d \in Databases, DeleteCall(r, d)
    PROVE  Inv'
<1>1. /\ req[r] # Idle /\ req[r].db = d /\ req[r].op = "delete" /\ req[r].pc = "docker"
      /\ Proceed(r) /\ UNCHANGED <<row, limited, name, prov, poll, started>>
      /\ mishaps' = mishaps \/ mishaps' = mishaps + 1
      /\ lapses \subseteq lapses' /\ lapses' \subseteq lapses \union {<<"orphan", d>>}
  BY AtWork DEF DeleteCall, Operations, Works, Fails, Lapse
<1>2. /\ req' \in [Requests -> Request] /\ req'[r].pc = "write" /\ req'[r] # Idle
      /\ req'[r].op = "delete" /\ req'[r].db = d /\ req'[r].known = req[r].known
      /\ \A q \in Requests : q # r => req'[q] = req[q]
  BY <1>1, Proceeds DEF Proceed, Inv
<1>3. /\ docker' \in [Databases -> Existing \union {"none", "gone"}]
      /\ \A e \in Databases : e # d => docker'[e] = docker[e]
      /\ docker[d] \notin Existing => docker'[d] \notin Existing
      /\ docker'[d] \notin Existing \/ <<"orphan", d>> \in lapses'
  BY DEF DeleteCall, Inv, TypeOK, Existing, Lapse
<1>4. TypeOK'
  BY <1>1, <1>2, <1>3 DEF Inv, TypeOK, Lapses
<1>5. prov[d] = "done"
  BY <1>1 DEF Inv, HeldAt
<1>6. HeldAt(r)'
  BY <1>1, <1>2, <1>3, <1>5 DEF HeldAt
<1>7. Told(d)'
  <2>1. Busy("delete", "write", d)'
    BY <1>2 DEF Busy, At
  <2>2. ~At(r, "limits", "docker")
    BY <1>1 DEF At
  <2>3. Busy("limits", "docker", d) => Busy("limits", "docker", d)'
    BY <1>2, <2>2, OthersBusy
  <2>4. OwnedAt(d)' /\ OrphanAt(d)' /\ ExistsAt(d)'
    BY <1>1, <1>3, <1>5, <2>1 DEF OwnedAt, OrphanAt, ExistsAt
  <2>5. LimitedAt(d)'
    BY <1>1, <2>3 DEF Inv, Told, LimitedAt
  <2>6. QED
    BY <2>4, <2>5 DEF Told
<1>8. QED
  BY <1>1, <1>2, <1>3, <1>4, <1>6, <1>7, RequestKeeps

LEMMA DeleteRowKeeps ==
    ASSUME Inv, NEW r \in Requests, NEW d \in Databases, DeleteRow(r, d)
    PROVE  Inv'
<1>1. /\ req[r] # Idle /\ req[r].db = d /\ At(r, "delete", "write") /\ Return(r)
      /\ UNCHANGED <<docker, limited, name, prov, poll, started>>
      /\ mishaps' = mishaps \/ mishaps' = mishaps + 1
      /\ lapses \subseteq lapses'
      /\ lapses' \subseteq lapses \union {<<"orphan", d>>, <<"halfdeleted", d>>}
  BY AtWork DEF DeleteRow, Operations, Works, Fails, Lapse, LapseIf, hostVars
<1>2. /\ req' \in [Requests -> Request] /\ HeldAt(r)'
      /\ \A q \in Requests : q # r => req'[q] = req[q]
  BY <1>1, Returns DEF Inv
<1>3. req[r].known \in BOOLEAN /\ (row[d] # None => row[d].known \in BOOLEAN)
  BY <1>1, ReqFacts DEF Inv, TypeOK, Row
<1>4. Told(d) /\ HeldAt(r)
  BY DEF Inv
<1>5. Busy("limits", "docker", d) => Busy("limits", "docker", d)'
  <2>1. ~At(r, "limits", "docker")
    BY <1>1 DEF At
  <2>2. QED
    BY <1>2, <2>1, OthersBusy
<1>6. CASE /\ row' = [row EXCEPT ![d] = None]
           /\ LapseIf(~req[r].known /\ row[d] # None /\ row[d].known, "orphan", d)
  <2>1. /\ row' \in [Databases -> Row \union {None}] /\ row'[d] = None
        /\ \A e \in Databases : e # d => row'[e] = row[e]
    BY <1>6 DEF Inv, TypeOK
  <2>2. docker[d] \in Existing => prov[d] \in InHand \/ <<"orphan", d>> \in lapses'
    <3>1. CASE req[r].known = TRUE
      BY <1>1, <1>4, <3>1 DEF HeldAt
    <3>2. CASE req[r].known = FALSE /\ row[d] # None /\ row[d].known = TRUE
      BY <1>6, <3>2 DEF LapseIf
    <3>3. CASE row[d] = None \/ row[d].known = FALSE
      BY <1>1, <1>4, <3>3 DEF Told, OrphanAt
    <3>4. QED
      BY <1>3, <3>1, <3>2, <3>3
  <2>3. TypeOK'
    BY <1>1, <1>2, <2>1 DEF Inv, TypeOK, Lapses
  <2>4. Told(d)'
    BY <1>1, <1>4, <2>1, <2>2 DEF Told, OwnedAt, OrphanAt, ExistsAt, LimitedAt
  <2>5. QED
    BY <1>1, <1>2, <2>1, <2>3, <2>4, RequestKeeps
<1>7. CASE UNCHANGED row /\ Lapse("halfdeleted", d)
  <2>1. TypeOK'
    BY <1>1, <1>2, <1>7 DEF Inv, TypeOK, Lapses
  <2>2. <<"halfdeleted", d>> \in lapses'
    BY <1>7 DEF Lapse
  <2>3. OwnedAt(d)' /\ OrphanAt(d)'
    BY <1>1, <1>4, <1>7 DEF Told, OwnedAt, OrphanAt
  <2>4. ExistsAt(d)' /\ LimitedAt(d)'
    BY <1>1, <1>4, <1>5, <1>7, <2>2 DEF Told, ExistsAt, LimitedAt
  <2>5. Told(d)'
    BY <2>3, <2>4 DEF Told
  <2>6. QED
    BY <1>1, <1>2, <1>7, <2>1, <2>5, RequestKeeps
<1>8. QED
  BY <1>6, <1>7 DEF DeleteRow

-----------------------------------------------------------------------------
(* The limits: the row first, then the container.                          *)
LEMMA LimitsWriteKeeps ==
    ASSUME Inv, NEW r \in Requests, NEW d \in Databases, LimitsWrite(r, d)
    PROVE  Inv'
<1>1. /\ req[r] # Idle /\ req[r].db = d /\ req[r].op = "limits" /\ req[r].pc = "write"
      /\ UNCHANGED <<docker, limited, name, prov, poll, started>>
      /\ mishaps' = mishaps \/ mishaps' = mishaps + 1
      /\ lapses \subseteq lapses' /\ lapses' \subseteq lapses \union {<<"drift", d>>}
  BY AtWork DEF LimitsWrite, Operations, Works, Fails, Lapse, hostVars
<1>2. Told(d) /\ HeldAt(r) /\ TypeOK
  BY DEF Inv
<1>3. req[r].known \in BOOLEAN /\ req[r].limits \in Limits \union {None}
  BY <1>1, <1>2, ReqFacts
<1>4. ~At(r, "delete", "write") /\ ~At(r, "limits", "docker")
  BY <1>1 DEF At
<1>5. CASE Return(r) /\ UNCHANGED <<row, lapses>>
  <2>1. /\ req' \in [Requests -> Request] /\ HeldAt(r)'
        /\ \A q \in Requests : q # r => req'[q] = req[q]
    BY <1>2, <1>5, Returns
  <2>2. TypeOK'
    BY <1>1, <1>2, <1>5, <2>1 DEF TypeOK
  <2>3. /\ Busy("delete", "write", d) => Busy("delete", "write", d)'
        /\ Busy("limits", "docker", d) => Busy("limits", "docker", d)'
    BY <1>4, <2>1, OthersBusy
  <2>4. Told(d)'
    BY <1>1, <1>2, <1>5, <2>3, Elsewhere
  <2>5. QED
    BY <1>1, <1>5, <2>1, <2>2, <2>4, RequestKeeps
<1>6. CASE /\ Update(d, [row[d] EXCEPT !.limits = req[r].limits])
           /\ IF req[r].known
              THEN req' = [req EXCEPT ![r].pc = "docker"] /\ UNCHANGED lapses
              ELSE Return(r) /\ Lapse("drift", d)
  <2>1. PICK new : new = [row[d] EXCEPT !.limits = req[r].limits]
    OBVIOUS
  <2>2. row[d] # None => new \in Row /\ new.known = row[d].known /\ new # None
    BY <1>2, <1>3, <2>1 DEF TypeOK, Row, Inv
  <2>3. /\ row' \in [Databases -> Row \union {None}]
        /\ \A e \in Databases : e # d => row'[e] = row[e]
        /\ row[d] = None => row'[d] = None
        /\ row[d] # None => row'[d] = new
    BY <1>2, <1>6, <2>1, <2>2, UpdateRow
  <2>4. /\ req' \in [Requests -> Request] /\ HeldAt(r)'
        /\ \A q \in Requests : q # r => req'[q] = req[q]
        /\ Busy("limits", "docker", d)' \/ <<"drift", d>> \in lapses'
    <3>1. CASE req[r].known = TRUE
      <4>1. req' = [req EXCEPT ![r].pc = "docker"] /\ UNCHANGED lapses
        BY <1>6, <3>1
      <4>2. /\ req' \in [Requests -> Request] /\ req'[r].pc = "docker" /\ req'[r] # Idle
            /\ req'[r].op = "limits" /\ req'[r].db = d /\ req'[r].known = TRUE
            /\ \A q \in Requests : q # r => req'[q] = req[q]
        BY <1>1, <1>2, <3>1, <4>1, Proceeds
      <4>3. HeldAt(r)'
        BY <1>1, <1>2, <3>1, <4>2 DEF HeldAt, At
      <4>4. Busy("limits", "docker", d)'
        BY <4>2 DEF Busy, At
      <4>5. QED
        BY <4>2, <4>3, <4>4
    <3>2. CASE req[r].known = FALSE
      BY <1>2, <1>6, <3>2, Returns DEF Lapse
    <3>3. QED
      BY <1>3, <3>1, <3>2
  <2>5. TypeOK'
    BY <1>1, <1>2, <2>3, <2>4 DEF TypeOK, Lapses
  <2>6. Busy("delete", "write", d) => Busy("delete", "write", d)'
    BY <1>4, <2>4, OthersBusy
  <2>7. OwnedAt(d)' /\ OrphanAt(d)'
    BY <1>1, <1>2, <2>2, <2>3 DEF Told, OwnedAt, OrphanAt
  <2>8. ExistsAt(d)' /\ LimitedAt(d)'
    BY <1>1, <1>2, <2>2, <2>3, <2>4, <2>6 DEF Told, ExistsAt, LimitedAt
  <2>9. Told(d)'
    BY <2>7, <2>8 DEF Told
  <2>10. QED
    BY <1>1, <2>3, <2>4, <2>5, <2>9, RequestKeeps
<1>7. QED
  BY <1>5, <1>6 DEF LimitsWrite

(* The last update of a database that is under way puts the container as   *)
(* the row has it or notes that it has not.                                *)
LEMMA LimitsCallKeeps ==
    ASSUME Inv, NEW r \in Requests, NEW d \in Databases, LimitsCall(r, d)
    PROVE  Inv'
<1>1. /\ req[r] # Idle /\ req[r].db = d /\ req[r].op = "limits" /\ req[r].pc = "docker"
      /\ Return(r) /\ UNCHANGED <<row, docker, name, prov, poll, started>>
      /\ mishaps' = mishaps \/ mishaps' = mishaps + 1
      /\ lapses \subseteq lapses' /\ lapses' \subseteq lapses \union {<<"drift", d>>}
  BY AtWork DEF LimitsCall, Operations, Works, Fails, Lapse, LapseIf
<1>2. Told(d) /\ HeldAt(r) /\ TypeOK
  BY DEF Inv
<1>3. req[r].limits \in Limits \union {None} /\ prov[d] = "done"
  BY <1>1, <1>2, ReqFacts DEF HeldAt
<1>4. /\ req' \in [Requests -> Request] /\ HeldAt(r)'
      /\ \A q \in Requests : q # r => req'[q] = req[q]
  BY <1>1, <1>2, Returns
<1>5. /\ limited' \in [Databases -> Limits \union {None}]
      /\ \A e \in Databases : e # d => limited'[e] = limited[e]
      /\ \/ <<"drift", d>> \in lapses'
         \/ limited'[d] = req[r].limits /\ ~Crossed(r, d)
  BY <1>2, <1>3 DEF LimitsCall, LiveUpdate, TypeOK, Lapse, LapseIf
<1>6. TypeOK'
  BY <1>1, <1>2, <1>4, <1>5 DEF TypeOK, Lapses
<1>7. Told(d)'
  <2>1. ~At(r, "delete", "write")
    BY <1>1 DEF At
  <2>2. Busy("delete", "write", d) => Busy("delete", "write", d)'
    BY <1>4, <2>1, OthersBusy
  <2>3. OwnedAt(d)' /\ OrphanAt(d)' /\ ExistsAt(d)'
    BY <1>1, <1>2, <1>3, <2>2 DEF Told, OwnedAt, OrphanAt, ExistsAt
  <2>4. LimitedAt(d)'
    <3>1. CASE <<"drift", d>> \in lapses'
      BY <3>1 DEF LimitedAt
    <3>2. CASE /\ limited'[d] = req[r].limits
               /\ row[d] = None \/ row[d].limits = req[r].limits
      BY <1>1, <3>2 DEF LimitedAt
    <3>3. ASSUME NEW q \in Requests, q # r, req[q] # Idle, At(q, "limits", "docker"),
                 req[q].db = d
          PROVE  LimitedAt(d)'
      <4>1. Busy("limits", "docker", d)'
        BY <1>4, <3>3 DEF Busy, At
      <4>2. QED
        BY <4>1 DEF LimitedAt
    <3>4. QED
      BY <1>5, <3>1, <3>2, <3>3 DEF Crossed
  <2>5. QED
    BY <2>3, <2>4 DEF Told
<1>8. QED
  BY <1>1, <1>4, <1>5, <1>6, <1>7, RequestKeeps
-----------------------------------------------------------------------------
(* The poll writes a status and nothing else.                              *)
LEMMA PollKeeps ==
    ASSUME Inv, NEW d \in Databases, PollRead(d) \/ PollInspect(d) \/ PollWrite(d)
    PROVE  Inv'
<1>1. /\ UNCHANGED <<docker, limited, name, prov, req, started, lapses>>
      /\ mishaps' = mishaps \/ mishaps' = mishaps + 1
  BY DEF PollRead, PollInspect, PollWrite, hostVars, boundVars, Works, Fails
<1>2. poll[d] \in Poll /\ poll \in [Databases -> Poll]
  BY DEF Inv, TypeOK
<1>3. /\ poll' \in [Databases -> Poll] /\ row' \in [Databases -> Row \union {None}]
      /\ \A e \in Databases : /\ row'[e] = None <=> row[e] = None
                              /\ row'[e].known = row[e].known \/ row[e] = None
                              /\ row'[e].limits = row[e].limits \/ row[e] = None
  <2>1. CASE PollRead(d)
    <3>1. row[d].status \in Status
      BY <2>1 DEF PollRead, Inv, TypeOK, Row
    <3>2. [pc |-> "inspect", status |-> row[d].status] \in Poll
      BY <3>1 DEF Poll
    <3>3. UNCHANGED row /\ poll' = [poll EXCEPT ![d] = [pc |-> "inspect", status |-> row[d].status]]
      BY <2>1 DEF PollRead
    <3>4. QED
      BY <1>2, <3>2, <3>3 DEF Inv, TypeOK
  <2>2. CASE PollInspect(d)
    <3>1. PICK e : /\ e = [pc |-> "write", status |-> Inspected(d)]
      OBVIOUS
    <3>2. e \in Poll /\ NoPoll \in Poll
      BY <3>1 DEF Poll, Inspected, Status
    <3>3. /\ UNCHANGED row
          /\ poll' = [poll EXCEPT ![d] = e] \/ poll' = [poll EXCEPT ![d] = NoPoll]
      BY <2>2, <3>1 DEF PollInspect
    <3>4. QED
      BY <1>2, <3>2, <3>3 DEF Inv, TypeOK
  <2>3. CASE PollWrite(d)
    <3>1. poll' = [poll EXCEPT ![d] = NoPoll] /\ poll[d].pc = "write"
      BY <2>3 DEF PollWrite
    <3>2. poll' \in [Databases -> Poll]
      BY <1>2, <3>1 DEF Poll
    <3>3. PICK s : s = poll[d].status
      OBVIOUS
    <3>4. s \in Status
      BY <1>2, <3>1, <3>3 DEF Poll, NoPoll
    <3>5. CASE UpdateStatus(d, s)
      BY <3>2, <3>4, <3>5, StatusStep DEF Inv
    <3>6. CASE UNCHANGED row
      BY <3>2, <3>6 DEF Inv, TypeOK
    <3>7. QED
      BY <2>3, <3>3, <3>5, <3>6 DEF PollWrite
  <2>4. QED
    BY <2>1, <2>2, <2>3
<1>4. TypeOK'
  BY <1>1, <1>3 DEF Inv, TypeOK
<1>5. ASSUME NEW op, NEW pc, NEW e PROVE Busy(op, pc, e) => Busy(op, pc, e)'
  BY <1>1, BusyStays
<1>6. QED
  BY <1>1, <1>3, <1>4, <1>5, QuietKeeps

LEMMA ExitsKeeps ==
    ASSUME Inv, NEW d \in Databases, ContainerExits(d)
    PROVE  Inv'
<1>1. /\ UNCHANGED <<row, limited, name, prov, req, poll, started, lapses>>
      /\ mishaps' = mishaps + 1
      /\ docker[d] = "running" /\ docker' = [docker EXCEPT ![d] = "exited"]
  BY DEF ContainerExits, Fails
<1>2. TypeOK'
  BY <1>1 DEF Inv, TypeOK, Existing
<1>3. \A e \in Databases : docker'[e] \in Existing <=> docker[e] \in Existing
  BY <1>1 DEF Inv, TypeOK, Existing
<1>4. ASSUME NEW op, NEW pc, NEW e PROVE Busy(op, pc, e) <=> Busy(op, pc, e)'
  BY <1>1 DEF Busy, At
<1>5. ASSUME NEW e \in Databases PROVE Told(e)'
  <2>1. OwnedAt(e)' /\ OrphanAt(e)'
    BY <1>1, <1>3 DEF Inv, Told, OwnedAt, OrphanAt
  <2>2. ExistsAt(e)' /\ LimitedAt(e)'
    BY <1>1, <1>3, <1>4 DEF Inv, Told, ExistsAt, LimitedAt
  <2>3. QED
    BY <2>1, <2>2 DEF Told
<1>6. ASSUME NEW r \in Requests PROVE HeldAt(r)'
  BY <1>1, <1>3, HeldStays DEF Inv
<1>7. QED
  BY <1>2, <1>5, <1>6 DEF Inv

(* The process dies: what was in hand is noted.                            *)
LEMMA CrashKeeps == ASSUME Inv, Crash PROVE Inv'
<1>1. /\ UNCHANGED <<row, docker, limited, name, started>> /\ mishaps' = mishaps + 1
      /\ prov' = [d \in Databases |-> IF prov[d] \in {"none", "done"} THEN prov[d] ELSE "lost"]
      /\ req' = [r \in Requests |-> Idle]
      /\ poll' = [d \in Databases |-> NoPoll]
  BY DEF Crash, hostVars, Fails
<1>2. lapses \subseteq lapses'
  BY DEF Crash
<1>3. ASSUME NEW d \in Databases
      PROVE  /\ prov[d] \in InHand => <<"orphan", d>> \in lapses'
             /\ Busy("delete", "write", d) => <<"halfdeleted", d>> \in lapses'
             /\ Busy("limits", "docker", d) => <<"drift", d>> \in lapses'
  BY DEF Crash, Interrupted, Busy
<1>4. lapses' \subseteq Lapses \X Databases
  BY DEF Crash, Inv, TypeOK, Lapses, Interrupted
<1>5. TypeOK'
  BY <1>1, <1>4 DEF Inv, TypeOK, ProvPcs, Request, Poll
<1>6. ASSUME NEW d \in Databases PROVE Told(d)'
  <2>1. OwnedAt(d) /\ OrphanAt(d) /\ ExistsAt(d) /\ LimitedAt(d)
    BY DEF Inv, Told
  <2>2. /\ prov[d] = "none" => prov'[d] = "none"
        /\ prov[d] = "done" => prov'[d] = "done"
        /\ prov[d] \notin {"none", "done"} => prov'[d] = "lost"
    BY <1>1
  <2>3. OwnedAt(d)'
    BY <1>1, <2>1, <2>2 DEF OwnedAt
  <2>4. OrphanAt(d)'
    BY <1>1, <1>2, <1>3, <2>1 DEF OrphanAt
  <2>5. ExistsAt(d)' /\ LimitedAt(d)'
    BY <1>1, <1>2, <1>3, <2>1 DEF ExistsAt, LimitedAt
  <2>6. QED
    BY <2>3, <2>4, <2>5 DEF Told
<1>7. ASSUME NEW r \in Requests PROVE HeldAt(r)'
  BY <1>1 DEF HeldAt
<1>8. QED
  BY <1>5, <1>6, <1>7 DEF Inv
-----------------------------------------------------------------------------
LEMMA InvIsInductive == Inv /\ [Next]_vars => Inv'
<1> SUFFICES ASSUME Inv, [Next]_vars PROVE Inv'
  OBVIOUS
<1>1. CASE UNCHANGED vars
  <2>1. UNCHANGED <<row, docker, limited, name, prov, req, poll, started, mishaps, lapses>>
    BY <1>1 DEF vars, hostVars, boundVars
  <2>2. TypeOK'
    BY <2>1 DEF Inv, TypeOK
  <2>3. ASSUME NEW op, NEW pc, NEW e PROVE Busy(op, pc, e) => Busy(op, pc, e)'
    BY <2>1, BusyStays
  <2>4. QED
    BY <2>1, <2>2, <2>3, QuietKeeps
<1>2. ASSUME NEW d \in Databases, Insert(d) \/ Provision(d) \/ ContainerExits(d)
      PROVE  Inv'
  <2>1. CASE Provision(d)
    BY <2>1, RemoveNamedKeeps, ContainerKeeps, RecordFailureKeeps, RecordContainerKeeps
       DEF Provision
  <2>2. QED
    BY <1>2, <2>1, InsertKeeps, ExitsKeeps
<1>3. ASSUME NEW d \in Databases, PollRead(d) \/ PollInspect(d) \/ PollWrite(d)
      PROVE  Inv'
  BY <1>3, PollKeeps
<1>4. ASSUME NEW r \in Requests, NEW d \in Databases,
             BeginStart(r, d) \/ BeginStop(r, d) \/ BeginDelete(r, d)
      PROVE  Inv'
  BY <1>4, BeginKeeps, BeginDeleteKeeps DEF BeginStart, BeginStop, Operations
<1>5. ASSUME NEW r \in Requests, NEW d \in Databases, NEW l \in Limits \union {None},
             BeginLimits(r, d, l)
      PROVE  Inv'
  BY <1>5, BeginKeeps DEF BeginLimits, Operations
<1>6. ASSUME NEW r \in Requests, Handle(r)
      PROVE  Inv'
  <2>1. PICK d \in Databases :
           \/ StartCall(r, d) \/ StopCall(r, d) \/ StatusWrite(r, d)
           \/ DeleteCall(r, d) \/ DeleteRow(r, d)
           \/ LimitsWrite(r, d) \/ LimitsCall(r, d)
    BY <1>6 DEF Handle
  <2>2. QED
    BY <2>1, PowerCallKeeps, StatusWriteKeeps, DeleteCallKeeps, DeleteRowKeeps,
       LimitsWriteKeeps, LimitsCallKeeps
<1>7. CASE Crash
  BY <1>7, CrashKeeps
<1>8. QED
  BY <1>1, <1>2, <1>3, <1>4, <1>5, <1>6, <1>7 DEF Next

LEMMA Initially == DatabasesAssumption /\ Init => Inv
<1> SUFFICES ASSUME DatabasesAssumption, Init PROVE Inv
  OBVIOUS
<1>1. TypeOK
  BY DEF Init, TypeOK, ProvPcs, Request, Poll
<1>2. ASSUME NEW d \in Databases PROVE Told(d)
  <2>1. row[d] = None /\ docker[d] \notin Existing /\ limited[d] = None /\ prov[d] = "none"
    BY DEF Init, Existing
  <2>2. QED
    BY <2>1 DEF Told, OwnedAt, OrphanAt, ExistsAt, LimitedAt
<1>3. ASSUME NEW r \in Requests PROVE HeldAt(r)
  BY DEF Init, HeldAt
<1>4. QED
  BY <1>1, <1>2, <1>3 DEF Inv, DatabasesAssumption

(* The state of the databases stays in its type.                           *)
THEOREM TypesHold == DatabasesAssumption => (Spec => []TypeOK)
<1> SUFFICES ASSUME DatabasesAssumption PROVE Spec => []TypeOK
  OBVIOUS
<1>1. Init => Inv
  BY Initially
<1>2. Inv => TypeOK
  BY DEF Inv
<1>3. QED
  BY <1>1, <1>2, InvIsInductive, PTL DEF Spec

(* The goroutine of Create, Start, Stop, Delete, UpdateResourceLimits and  *)
(* Status in any order, with databases of one name, failing calls and      *)
(* crashes: a container that no row names is in hand or a known orphan,    *)
(* the container a row names exists and has the limits the row shows, but  *)
(* for the named lapses (databases/handler.go).                            *)
THEOREM RowsTellHolds == DatabasesAssumption => (Spec => []RowsTell)
<1> SUFFICES ASSUME DatabasesAssumption PROVE Spec => []RowsTell
  OBVIOUS
<1>1. Init => Inv
  BY Initially
<1>2. Inv => RowsTell
  <2> SUFFICES ASSUME Inv PROVE RowsTell
    OBVIOUS
  <2>1. ASSUME NEW d \in Databases
        PROVE  OrphanAt(d) /\ ExistsAt(d) /\ LimitedAt(d)
               /\ (row[d] # None => row[d].known \in BOOLEAN)
    BY DEF Inv, Told, TypeOK, Row
  <2>2. NoOrphans
    BY <2>1 DEF NoOrphans, OrphanAt
  <2>3. RecordedExists
    BY <2>1 DEF RecordedExists, ExistsAt
  <2>4. LimitsInForce
    BY <2>1 DEF LimitsInForce, LimitedAt
  <2>5. QED
    BY <2>2, <2>3, <2>4 DEF RowsTell
<1>3. QED
  BY <1>1, <1>2, InvIsInductive, PTL DEF Spec

-----------------------------------------------------------------------------
Writing == {"again", "load", "dial"}

(* Callers past the wait hold the lock, those about to dial have seen that *)
(* the pool has nothing, and those with a client have a tunnel.            *)
Locked ==
    /\ \A c \in Callers : caller[c].pc \in Writing => lock = c
    /\ \A c \in Callers : caller[c].pc \in {"load", "dial"} => pooled[P!Of(c)] = 0
    /\ \A c \in Callers : P!At(c, "use") => caller[c].client # 0

Asking == \A c \in Callers : ~ P!At(c, "idle") => P!Of(c) \in Servers

PoolTypes ==
    /\ server \in [Servers -> P!Statuses \union {"none", "deleted"}]
    /\ pooled \in [Servers -> 0..MaxTunnels] /\ tunnels \in [Servers -> 0..MaxTunnels]
    /\ alive \in [Servers -> SUBSET P!Tunnel]
    /\ caller \in [Callers -> P!Caller]

PoolInv == PoolTypes /\ Asking /\ Locked /\ OneTunnel

-----------------------------------------------------------------------------
(* ClientPool: one caller takes a step that leaves the pool as it is, and  *)
(* holds the lock afterwards if it needs it.                               *)
Quietly(c) ==
    /\ UNCHANGED <<pooled, tunnels>>
    /\ server' \in [Servers -> P!Statuses \union {"none", "deleted"}]
    /\ alive' \in [Servers -> SUBSET P!Tunnel]
    /\ \E new \in P!Caller :
        /\ caller' = [caller EXCEPT ![c] = new]
        /\ new.pc # "idle" => new.server \in Servers
        /\ new.pc \in Writing => lock' = c
        /\ new.pc \in {"load", "dial"} => pooled[new.server] = 0
        /\ new.pc = "use" => new.client # 0 /\ new.client = pooled[new.server]
    /\ lock' = lock \/ lock = None \/ lock = c

LEMMA QuietlyStep ==
    ASSUME P!PoolAssumption, PoolInv, NEW c \in Callers, Quietly(c)
    PROVE  PoolInv'
<1> USE DEF PoolInv, PoolTypes
<1>1. PICK new \in P!Caller :
        /\ caller' = [caller EXCEPT ![c] = new]
        /\ new.pc # "idle" => new.server \in Servers
        /\ new.pc \in Writing => lock' = c
        /\ new.pc \in {"load", "dial"} => pooled[new.server] = 0
        /\ new.pc = "use" => new.client # 0 /\ new.client = pooled[new.server]
  BY DEF Quietly
<1>2. caller'[c] = new /\ \A d \in Callers : d # c => caller'[d] = caller[d]
  BY <1>1
<1>3. PoolTypes'
  BY <1>1 DEF Quietly
<1>4. Asking'
  BY <1>1, <1>2 DEF Asking, P!At, P!Of
<1>5. Locked'
  BY <1>1, <1>2 DEF Quietly, Locked, P!At, P!Of, Writing, P!PoolAssumption
<1>6. OneTunnel'
  BY <1>1, <1>2 DEF Quietly, OneTunnel, P!OneTunnel, P!At, P!Of
<1>7. QED
  BY <1>3, <1>4, <1>5, <1>6

(* The callers' records.                                                   *)
LEMMA Records ==
    ASSUME P!PoolAssumption, PoolInv, NEW c \in Callers
    PROVE  /\ P!Idle \in P!Caller /\ caller[c] \in P!Caller
           /\ \A pc \in {"idle", "row", "read", "wait", "again", "load", "dial", "use", "status"} :
                 [caller[c] EXCEPT !.pc = pc] \in P!Caller
           /\ \A k \in 0..MaxTunnels :
                 [caller[c] EXCEPT !.pc = "use", !.client = k] \in P!Caller
           /\ \A ok \in BOOLEAN :
                 [caller[c] EXCEPT !.pc = "status", !.ok = ok] \in P!Caller
<1> USE DEF PoolInv, PoolTypes, P!Caller
<1>1. P!Idle \in P!Caller
  BY DEF P!Idle, P!PoolAssumption
<1>2. caller[c] \in P!Caller
  OBVIOUS
<1>3. \A pc \in {"idle", "row", "read", "wait", "again", "load", "dial", "use", "status"} :
          [caller[c] EXCEPT !.pc = pc] \in P!Caller
  OBVIOUS
<1>4. \A k \in 0..MaxTunnels : [caller[c] EXCEPT !.pc = "use", !.client = k] \in P!Caller
  OBVIOUS
<1>5. \A ok \in BOOLEAN : [caller[c] EXCEPT !.pc = "status", !.ok = ok] \in P!Caller
  OBVIOUS
<1>6. QED
  BY <1>1, <1>2, <1>3, <1>4, <1>5

(* A caller that gives up or has its answer needs nothing.                 *)
LEMMA AnswerIsQuiet ==
    ASSUME P!PoolAssumption, PoolInv, NEW c \in Callers, NEW ok \in BOOLEAN, P!Answer(c, ok), ~ P!At(c, "idle")
    PROVE  \E new \in P!Caller :
              /\ caller' = [caller EXCEPT ![c] = new]
              /\ new.pc \notin Writing \union {"use"}
              /\ new.pc # "idle" => new.server \in Servers
<1> USE DEF PoolInv, PoolTypes
<1>1. CASE caller[c].kind = "test"
  <2>1. [caller[c] EXCEPT !.pc = "status", !.ok = ok] \in P!Caller
    BY Records
  <2>2. QED
    BY <1>1, <2>1 DEF P!Answer, P!Caller, Writing, Asking, P!Of, P!At
<1>2. CASE caller[c].kind # "test"
  BY <1>2, Records DEF P!Answer, P!Idle, Writing
<1>3. QED
  BY <1>1, <1>2

LEMMA MovesIsQuiet ==
    ASSUME P!PoolAssumption, PoolInv, NEW c \in Callers, ~ P!At(c, "idle"),
           NEW pc \in {"read", "wait", "again", "load", "dial"}, P!Moves(c, pc)
    PROVE  \E new \in P!Caller :
              /\ caller' = [caller EXCEPT ![c] = new]
              /\ new.pc = pc /\ new.server = P!Of(c) /\ new.server \in Servers
<1>1. [caller[c] EXCEPT !.pc = pc] \in P!Caller
  BY Records
<1>2. QED
  BY <1>1 DEF PoolInv, PoolTypes, P!Moves, Asking, P!Of, P!Caller

LEMMA GivenIsQuiet ==
    ASSUME P!PoolAssumption, PoolInv, NEW c \in Callers, ~ P!At(c, "idle"),
           NEW k \in 1..MaxTunnels, P!Given(c, k)
    PROVE  \E new \in P!Caller :
              /\ caller' = [caller EXCEPT ![c] = new]
              /\ new.pc = "use" /\ new.client = k
              /\ new.server = P!Of(c) /\ new.server \in Servers
<1>1. k \in 0..MaxTunnels
  BY DEF P!PoolAssumption
<1>2. [caller[c] EXCEPT !.pc = "use", !.client = k] \in P!Caller
  BY <1>1, Records
<1>3. QED
  BY <1>2 DEF PoolInv, PoolTypes, P!Given, Asking, P!Of, P!Caller

-----------------------------------------------------------------------------
(* The steps of a caller but for the dial that opens a tunnel.             *)
LEMMA CallerIsQuiet ==
    ASSUME P!PoolAssumption, PoolInv, NEW c \in Callers,
           \/ P!Test(c) \/ P!ReadPool(c) \/ P!Lock(c) \/ P!DoubleCheck(c) \/ P!LoadServer(c)
           \/ P!Use(c) \/ P!UpdateStatus(c)
    PROVE  Quietly(c)
<1> USE DEF PoolInv, PoolTypes
<1>1. CASE P!Test(c)
  <2>1. ~ P!At(c, "idle")
    BY <1>1 DEF P!Test, P!At
  <2>2. CASE P!Moves(c, "read")
    BY <1>1, <2>1, <2>2, MovesIsQuiet DEF P!Test, Quietly, P!poolVars, Writing
  <2>3. CASE caller' = [caller EXCEPT ![c] = P!Idle]
    BY <1>1, <2>3, Records DEF P!Test, Quietly, P!poolVars, Writing, P!Idle
  <2>4. QED
    BY <1>1, <2>2, <2>3 DEF P!Test
<1>2. CASE P!ReadPool(c)
  <2>1. ~ P!At(c, "idle")
    BY <1>2 DEF P!ReadPool, P!At
  <2>2. P!Of(c) \in Servers
    BY <2>1 DEF Asking
  <2>3. CASE pooled[P!Of(c)] # 0
    <3>1. P!Given(c, pooled[P!Of(c)]) /\ pooled[P!Of(c)] \in 1..MaxTunnels
      BY <1>2, <2>2, <2>3 DEF P!ReadPool
    <3>2. QED
      BY <1>2, <2>1, <3>1, GivenIsQuiet DEF P!ReadPool, Quietly, P!poolVars, Writing
  <2>4. CASE pooled[P!Of(c)] = 0
    BY <1>2, <2>1, <2>4, MovesIsQuiet DEF P!ReadPool, Quietly, P!poolVars, Writing
  <2>5. QED
    BY <2>3, <2>4
<1>3. CASE P!Lock(c)
  <2>1. ~ P!At(c, "idle")
    BY <1>3 DEF P!Lock, P!At
  <2>2. QED
    BY <1>3, <2>1, MovesIsQuiet DEF P!Lock, Quietly, Writing
<1>4. CASE P!DoubleCheck(c)
  <2>1. ~ P!At(c, "idle") /\ lock = c
    BY <1>4 DEF P!DoubleCheck, P!At, Locked, Writing
  <2>2. P!Of(c) \in Servers
    BY <2>1 DEF Asking
  <2>3. CASE pooled[P!Of(c)] # 0
    <3>1. P!Given(c, pooled[P!Of(c)]) /\ pooled[P!Of(c)] \in 1..MaxTunnels
      BY <1>4, <2>2, <2>3 DEF P!DoubleCheck
    <3>2. QED
      BY <1>4, <2>1, <3>1, GivenIsQuiet DEF P!DoubleCheck, Quietly, Writing
  <2>4. CASE pooled[P!Of(c)] = 0
    BY <1>4, <2>1, <2>4, MovesIsQuiet DEF P!DoubleCheck, Quietly, Writing
  <2>5. QED
    BY <2>3, <2>4
<1>5. CASE P!LoadServer(c)
  <2>1. ~ P!At(c, "idle") /\ lock = c /\ pooled[P!Of(c)] = 0
    BY <1>5 DEF P!LoadServer, P!At, Locked, Writing
  <2>2. CASE P!Moves(c, "dial") /\ UNCHANGED lock
    BY <1>5, <2>1, <2>2, MovesIsQuiet DEF P!LoadServer, Quietly, Writing
  <2>3. CASE P!Answer(c, FALSE)
    BY <1>5, <2>1, <2>3, AnswerIsQuiet DEF P!LoadServer, Quietly, Writing
  <2>4. QED
    BY <1>5, <2>2, <2>3 DEF P!LoadServer
<1>6. CASE P!Use(c)
  <2>1. ~ P!At(c, "idle")
    BY <1>6 DEF P!Use, P!At
  <2>2. PICK ok \in BOOLEAN : P!Answer(c, ok)
    <3>1. (caller[c].client \in alive[P!Of(c)]) \in BOOLEAN
      OBVIOUS
    <3>2. QED
      BY <1>6, <3>1 DEF P!Use
  <2>3. QED
    BY <1>6, <2>1, <2>2, AnswerIsQuiet DEF P!Use, Quietly, Writing, P!poolVars
<1>7. CASE P!UpdateStatus(c)
  <2>1. server' \in [Servers -> P!Statuses \union {"none", "deleted"}]
    BY <1>7 DEF P!UpdateStatus, P!Statuses
  <2>2. QED
    BY <1>7, <2>1, Records DEF P!UpdateStatus, Quietly, P!poolVars, Writing, P!Idle
<1>8. QED
  BY <1>1, <1>2, <1>3, <1>4, <1>5, <1>6, <1>7

(* The dial: what it opens is the first tunnel to its server, and the pool *)
(* has it from then on.                                                    *)
LEMMA DialStep ==
    ASSUME P!PoolAssumption, PoolInv, NEW c \in Callers, P!DialRemoteDocker(c)
    PROVE  PoolInv'
<1> USE DEF PoolInv, PoolTypes
<1>1. PICK s \in Servers : s = P!Of(c)
  BY DEF P!DialRemoteDocker, P!At, Asking
<1>2. ~ P!At(c, "idle") /\ lock = c /\ pooled[s] = 0 /\ tunnels[s] = 0
  BY <1>1 DEF P!DialRemoteDocker, P!At, Locked, Writing, OneTunnel, P!OneTunnel
<1>3. CASE P!Answer(c, FALSE) /\ UNCHANGED <<pooled, tunnels, alive>>
  <2>1. Quietly(c)
    BY <1>2, <1>3, AnswerIsQuiet DEF P!DialRemoteDocker, Quietly, Writing
  <2>2. QED
    BY <2>1, QuietlyStep
<1>4. CASE /\ tunnels[s] < MaxTunnels
           /\ tunnels' = [tunnels EXCEPT ![s] = @ + 1]
           /\ pooled' = [pooled EXCEPT ![s] = tunnels[s] + 1]
           /\ alive' = [alive EXCEPT ![s] = @ \union {tunnels[s] + 1}]
           /\ P!Given(c, tunnels[s] + 1)
  <2>1. 1 \in 1..MaxTunnels
    BY <1>2, <1>4 DEF P!PoolAssumption
  <2>2. PICK new \in P!Caller : /\ caller' = [caller EXCEPT ![c] = new]
                              /\ new.pc = "use" /\ new.client = 1 /\ new.server = s
    BY <1>1, <1>2, <1>4, <2>1, GivenIsQuiet
  <2>3. caller'[c] = new /\ \A d \in Callers : d # c => caller'[d] = caller[d]
    BY <2>2
  <2>4. pooled' = [pooled EXCEPT ![s] = 1] /\ tunnels' = [tunnels EXCEPT ![s] = 1]
    BY <1>2, <1>4
  <2>5. PoolTypes'
    BY <1>2, <1>4, <2>1, <2>2, <2>4 DEF P!DialRemoteDocker, P!Tunnel, P!PoolAssumption
  <2>6. Asking'
    BY <2>2, <2>3 DEF Asking, P!At, P!Of
  <2>7. \A d \in Callers : P!At(d, "use") => P!Of(d) # s
    BY <1>2 DEF OneTunnel, P!OneTunnel, Locked
  <2>8. \A d \in Callers : caller[d].pc \in Writing => d = c
    BY <1>2 DEF Locked
  <2>9. Locked'
    BY <2>2, <2>3, <2>8 DEF Locked, Writing, P!At, P!Of
  <2>10. OneTunnel'
    BY <2>2, <2>3, <2>4, <2>7 DEF OneTunnel, P!OneTunnel, P!At, P!Of
  <2>11. QED
    BY <2>5, <2>6, <2>9, <2>10
<1>5. QED
  BY <1>1, <1>3, <1>4 DEF P!DialRemoteDocker

-----------------------------------------------------------------------------
(* ClientPool: the invariant holds at first,                               *)
LEMMA PoolInitially ==
    ASSUME P!PoolAssumption, P!Init
    PROVE  PoolInv
<1>1. PoolTypes
  BY DEF P!Init, PoolTypes, P!Idle, P!Caller, P!PoolAssumption
<1>2. QED
  BY <1>1 DEF P!Init, PoolInv, Asking, Locked, OneTunnel, P!OneTunnel, P!Idle, P!At, P!Of, Writing

(* and every step keeps it.                                                *)
LEMMA PoolKeeps ==
    ASSUME P!PoolAssumption, PoolInv, [P!Next]_(P!vars)
    PROVE  PoolInv'
<1> USE DEF PoolInv
<1>1. ASSUME NEW s \in Servers, P!Create(s) \/ P!Delete(s)
      PROVE  PoolInv'
  <2>1. server' \in [Servers -> P!Statuses \union {"none", "deleted"}]
    BY <1>1 DEF P!Create, P!Delete, PoolTypes, P!Statuses
  <2>2. QED
    BY <1>1, <2>1 DEF P!Create, P!Delete, P!poolVars, PoolTypes, Asking, Locked, OneTunnel, P!OneTunnel, P!At, P!Of
<1>2. ASSUME NEW s \in Servers, P!TunnelDies(s)
      PROVE  PoolInv'
  <2>1. alive' \in [Servers -> SUBSET P!Tunnel]
    BY <1>2 DEF P!TunnelDies, PoolTypes
  <2>2. QED
    BY <1>2, <2>1 DEF P!TunnelDies, PoolTypes, Asking, Locked, OneTunnel, P!OneTunnel, P!At, P!Of
<1>3. ASSUME NEW c \in Callers, NEW k \in {"deploy", "test"}, NEW s \in Servers,
             P!Call(c, k, s)
      PROVE  PoolInv'
  <2>1. PICK pc \in {"row", "read"} : caller' = [caller EXCEPT ![c] =
            [pc |-> pc, kind |-> k, server |-> s, client |-> 0, ok |-> TRUE]]
    BY <1>3 DEF P!Call
  <2>2. [pc |-> pc, kind |-> k, server |-> s, client |-> 0, ok |-> TRUE] \in P!Caller
    BY DEF P!Caller, P!PoolAssumption
  <2>3. Quietly(c)
    BY <1>3, <2>1, <2>2 DEF P!Call, Quietly, P!poolVars, PoolTypes, Writing
  <2>4. QED
    BY <2>3, QuietlyStep
<1>4. ASSUME NEW c \in Callers, P!Step(c)
      PROVE  PoolInv'
  <2>1. CASE P!DialRemoteDocker(c)
    BY <2>1, DialStep
  <2>2. CASE ~ P!DialRemoteDocker(c)
    BY <1>4, <2>2, CallerIsQuiet, QuietlyStep DEF P!Step
  <2>3. QED
    BY <2>1, <2>2
<1>5. CASE P!Crash
  <2>1. PoolTypes'
    BY <1>5 DEF P!Crash, PoolTypes, P!Idle, P!Caller, P!PoolAssumption
  <2>2. QED
    BY <1>5, <2>1 DEF P!Crash, Asking, Locked, OneTunnel, P!OneTunnel, P!Idle, P!At, P!Of, Writing
<1>6. CASE UNCHANGED P!vars
  BY <1>6 DEF P!vars, P!poolVars, PoolTypes, Asking, Locked, OneTunnel, P!OneTunnel, P!At, P!Of
<1>7. QED
  BY <1>1, <1>2, <1>3, <1>4, <1>5, <1>6 DEF P!Next

(* ClientPool: however many callers look for a server's client at once,    *)
(* and whatever fails, one tunnel is dialed to it and every caller is given*)
(* that one (docker/pool.go, GetClient).                                   *)
THEOREM OneTunnelHolds ==
    ASSUME P!PoolAssumption
    PROVE  P!Spec => []OneTunnel
<1>1. P!Init => PoolInv
  BY PoolInitially
<1>2. PoolInv /\ [P!Next]_(P!vars) => PoolInv'
  BY PoolKeeps
<1>3. PoolInv => OneTunnel
  BY DEF PoolInv
<1>4. QED
  BY <1>1, <1>2, <1>3, PTL DEF P!Spec

(* The lock is held by a caller or by nobody, and the bounds are kept.     *)
PoolBounds ==
    /\ lock \in Callers \union {None}
    /\ calls \in 0..MaxCalls /\ failures \in 0..MaxMishaps

LEMMA PoolBoundsKept ==
    ASSUME P!PoolAssumption, PoolBounds, [P!Next]_(P!vars)
    PROVE  PoolBounds'
<1>1. P!Fails => failures' \in 0..MaxMishaps
  BY DEF P!Fails, PoolBounds, P!PoolAssumption
<1>2. P!Works => failures' \in 0..MaxMishaps
  BY DEF P!Works, PoolBounds
<1>3. ASSUME NEW s \in Servers, P!Create(s) \/ P!Delete(s) \/ P!TunnelDies(s)
      PROVE  PoolBounds'
  BY <1>1, <1>3 DEF P!Create, P!Delete, P!TunnelDies, P!poolVars, PoolBounds
<1>4. ASSUME NEW c \in Callers, NEW k \in {"deploy", "test"}, NEW s \in Servers,
             P!Call(c, k, s)
      PROVE  PoolBounds'
  BY <1>4 DEF P!Call, P!poolVars, PoolBounds, P!PoolAssumption
<1>5. ASSUME NEW c \in Callers, P!Step(c)
      PROVE  PoolBounds'
  <2>1. CASE P!Test(c) \/ P!ReadPool(c) \/ P!Use(c) \/ P!UpdateStatus(c)
    BY <1>1, <1>2, <2>1 DEF P!Test, P!ReadPool, P!Use, P!UpdateStatus, P!poolVars, PoolBounds
  <2>2. CASE P!Lock(c) \/ P!DoubleCheck(c)
    BY <2>2 DEF P!Lock, P!DoubleCheck, PoolBounds
  <2>3. CASE P!LoadServer(c)
    BY <1>1, <1>2, <2>3 DEF P!LoadServer, PoolBounds
  <2>4. CASE P!DialRemoteDocker(c)
    BY <1>1, <1>2, <2>4 DEF P!DialRemoteDocker, PoolBounds
  <2>5. QED
    BY <1>5, <2>1, <2>2, <2>3, <2>4 DEF P!Step
<1>6. CASE P!Crash
  BY <1>1, <1>6 DEF P!Crash, PoolBounds
<1>7. CASE UNCHANGED P!vars
  BY <1>7 DEF P!vars, P!poolVars, PoolBounds
<1>8. QED
  BY <1>3, <1>4, <1>5, <1>6, <1>7 DEF P!Next

-----------------------------------------------------------------------------
(* ContainerStreams: while the log's copier is in its write, some of it has*)
(* not been taken yet.                                                     *)
StreamInv == S!TypeOK /\ (~S!Terminal /\ copier = "write" => pieces # 0)

LEMMA StreamKeeps ==
    ASSUME S!StreamsAssumption, StreamInv, [S!Next]_(S!vars)
    PROVE  StreamInv'
<1> USE DEF StreamInv, S!TypeOK, S!Terminal, S!StreamsAssumption
<1>1. CASE S!Arrive \/ S!Leave \/ S!Notice \/ S!ContainerEnds \/ S!ShellStalls \/ S!Type
  BY <1>1 DEF S!Arrive, S!Leave, S!Notice, S!ContainerEnds, S!ShellStalls, S!Type
<1>2. CASE S!CopierReads
  BY <1>2 DEF S!CopierReads
<1>3. CASE S!CopierEOF \/ S!CopierSends
  BY <1>3 DEF S!CopierEOF, S!CopierSends, S!CopierReturns
<1>4. CASE S!Attach \/ S!ReadFails \/ S!WriteStdin
  BY <1>4 DEF S!Attach, S!ReadFails, S!WriteStdin
<1>5. CASE S!Scan
  BY <1>5 DEF S!Scan
<1>6. CASE S!ScanEOF \/ S!SendEvent
  BY <1>6 DEF S!ScanEOF, S!SendEvent
<1>7. CASE UNCHANGED S!vars
  BY <1>7 DEF S!vars
<1>8. QED
  BY <1>1, <1>2, <1>3, <1>4, <1>5, <1>6, <1>7 DEF S!Next

-----------------------------------------------------------------------------
(* Services: databases, pool and pages keep their types whatever order the *)
(* steps of the three come in.                                             *)
THEOREM StateTypesHold == ServicesAssumption => (ServicesSpec => []StateTypeOK)
<1> SUFFICES ASSUME ServicesAssumption PROVE ServicesSpec => []StateTypeOK
  OBVIOUS
<1> DEFINE All == Inv /\ PoolInv /\ PoolBounds /\ StreamInv
<1>1. ServicesInit => All
  <2> SUFFICES ASSUME ServicesInit PROVE All
    OBVIOUS
  <2>1. Inv /\ PoolInv
    BY Initially, PoolInitially DEF ServicesInit, ServicesAssumption
  <2>2. PoolBounds
    BY DEF ServicesInit, ServicesAssumption, P!Init, P!PoolAssumption, PoolBounds
  <2>3. StreamInv
    <3>1. pieces \in 0..MaxPieces /\ copier = "none"
      BY DEF ServicesInit, ServicesAssumption, S!Init, S!StreamsAssumption
    <3>2. S!TypeOK
      BY <3>1 DEF ServicesInit, S!Init, S!TypeOK
    <3>3. QED
      BY <3>1, <3>2 DEF StreamInv
  <2>4. QED
    BY <2>1, <2>2, <2>3
<1>2. All /\ [ServicesNext]_servicesVars => All'
  <2> SUFFICES ASSUME All, [ServicesNext]_servicesVars PROVE All'
    OBVIOUS
  <2>1. [Next]_vars /\ [P!Next]_(P!vars) /\ [S!Next]_(S!vars)
    BY DEF ServicesNext, DatabasesStep, PoolStep, StreamStep, servicesVars,
           poolVars, P!vars, P!poolVars, streamVars, S!vars
  <2>2. Inv'
    BY <2>1, InvIsInductive
  <2>3. PoolInv' /\ PoolBounds'
    BY <2>1, PoolKeeps, PoolBoundsKept DEF ServicesAssumption
  <2>4. StreamInv'
    BY <2>1, StreamKeeps DEF ServicesAssumption
  <2>5. QED
    BY <2>2, <2>3, <2>4
<1>3. All => StateTypeOK
  BY DEF Inv, PoolInv, PoolTypes, PoolBounds, StreamInv, P!TypeOK, StateTypeOK
<1>4. QED
  BY <1>1, <1>2, <1>3, PTL DEF ServicesSpec
=============================================================================
