-------------------------- MODULE ApplicationsProofs ------------------------
(***************************************************************************)
(* Proofs about Applications and CronJobs together, for any number of      *)
(* deployments, requests, goroutines and mishaps: what the row says of     *)
(* limits and domain is what Docker and Caddy hold, or a lapse the code    *)
(* knows nothing of has been recorded; and RunJob waits for one command of *)
(* a job at most.                                                          *)
(***************************************************************************)
EXTENDS CronJobs, SequenceTheorems, NaturalsInduction, WellFoundedInduction, TLAPS

Route == [domain : Domains, upstream : Upstreams]

(* The type, and what the two handlers that call Caddy know of the domain. *)
Typed ==
    /\ TypeOK
    /\ \A r \in Requests : req[r].op = "auth" => req[r].domain # None
    /\ job.pc \in {"delete", "post"} => job.domain # None

(* A container is new from Deploy until its job runs it, and nobody else's *)
(* until the row records it.                                               *)
Candidate == {"gate", "delete", "post", "record"}
Known(c) == c # None => container[c] # "absent"
New ==
    /\ queue \subseteq asked
    /\ \A d \in Deployments : d \in queue \/ d \notin asked => container[d] = "absent"
    /\ Known(row.container)
    /\ \A r \in Requests : req[r] # Idle => Known(req[r].container)
    /\ job # NoJob => job.d \in asked \ queue /\ Known(job.old) /\ job.old # job.d
    /\ job.pc \in {"build", "run"} => container[job.d] = "absent"
    /\ job.pc \in Candidate \union {"remove"} => Exists(job.d)
    /\ job.pc \in Candidate =>
          /\ row.container # job.d /\ limited[job.d] = job.limits
          /\ \A r \in Requests : req[r] # Idle => req[r].container # job.d

(* The limits of the recorded container, whether it runs or not.           *)
Limited ==
    row.container # None =>
        \/ limited[row.container] = row.limits
        \/ "drift" \in lapses
        \/ \E r \in Requests : At(r, "limits", "docker")

(* Without a lapse the recorded container exists and is the first of its   *)
(* domain, and the switch finds what it left.                              *)
Leads == "route" \notin lapses =>
    /\ row.container # None => Exists(row.container)
    /\ row.domain # None /\ Serving(row.domain) # None =>
          \/ Serving(row.domain) = row.container
          \/ JobAt("record") /\ Serving(row.domain) = job.d
    /\ JobAt("post") => RoutesOf(job.domain) = {}
    /\ JobAt("record") /\ job.domain # None => AllLeadTo(job.domain, job.d)
    /\ JobAt("remove") => row.container = job.d

Inv == Typed /\ New /\ Limited /\ Leads

-----------------------------------------------------------------------------
(* A set of numbers has a least one.                                       *)
LEMMA LeastOf ==
    ASSUME NEW S, S \subseteq Nat, S # {}
    PROVE  \E i \in S : \A j \in S : i <= j
<1>1. PICK m \in S : \A k \in S : ~ (<<k, m>> \in OpToRel(<, Nat))
  BY WFMin, NatLessThanWellFounded
<1>2. ASSUME NEW k \in S PROVE m <= k
  <2>1. <<k, m>> \in Nat \X Nat /\ ~ (<<k, m>> \in OpToRel(<, Nat))
    BY <1>1
  <2>2. ~ (k < m)
    BY <2>1 DEF OpToRel
  <2>3. QED
    BY <2>2
<1>3. QED
  BY <1>2

(* The first route of a domain.                                            *)
LEMMA FirstIsFirst ==
    ASSUME routes \in Seq(Route), NEW m, RoutesOf(m) # {}
    PROVE  FirstOf(m) \in RoutesOf(m) /\ \A j \in RoutesOf(m) : FirstOf(m) <= j
<1>1. RoutesOf(m) \subseteq Nat
  BY DEF RoutesOf
<1>2. \E i \in RoutesOf(m) : \A j \in RoutesOf(m) : i <= j
  BY <1>1, LeastOf
<1>3. QED
  BY <1>2 DEF FirstOf

LEMMA FirstIsFirstNext ==
    ASSUME routes' \in Seq(Route), NEW m, RoutesOf(m)' # {}
    PROVE  /\ FirstOf(m)' \in RoutesOf(m)'
           /\ \A j \in RoutesOf(m)' : FirstOf(m)' <= j
<1>1. RoutesOf(m)' \subseteq Nat
  BY DEF RoutesOf
<1>2. \E i \in RoutesOf(m)' : \A j \in RoutesOf(m)' : i <= j
  BY <1>1, LeastOf
<1>3. QED
  BY <1>2 DEF FirstOf

(* A route that is removed takes nothing from other domains; without a     *)
(* lapse it was the only one of its own.                                   *)
LEMMA RemoveStep ==
    ASSUME routes \in Seq(Route), NEW m, RemoveRoute(m)
    PROVE  /\ routes' \in Seq(Route)
           /\ mishaps' = mishaps \/ mishaps' = mishaps + 1
           /\ lapses \subseteq lapses' /\ lapses' \subseteq lapses \union {"route"}
           /\ "route" \notin lapses' => RoutesOf(m)' = {}
           /\ \A n : n # m => Serving(n)' = Serving(n)
           /\ \A n : RoutesOf(n) = {} => RoutesOf(n)' = {}
           /\ \A n, c : AllLeadTo(n, c) => AllLeadTo(n, c)'
<1>1. CASE UNCHANGED routes /\ (RoutesOf(m) = {} \/ "route" \in lapses')
  <2>1. \A n : RoutesOf(n)' = RoutesOf(n) /\ Serving(n)' = Serving(n)
    BY <1>1 DEF RoutesOf, Serving, FirstOf
  <2>2. \A n, c : AllLeadTo(n, c) => AllLeadTo(n, c)'
    BY <1>1, <2>1 DEF AllLeadTo
  <2>3. QED
    BY <1>1, <2>1, <2>2 DEF RemoveRoute, Works, Fails, LapseIf
<1>2. ASSUME NEW i \in RoutesOf(m),
             routes' = SubSeq(routes, 1, i - 1) \o SubSeq(routes, i + 1, Len(routes)),
             Works, LapseIf(\E k, j \in RoutesOf(m) : k # j, "route")
      PROVE  /\ routes' \in Seq(Route)
             /\ mishaps' = mishaps \/ mishaps' = mishaps + 1
             /\ lapses \subseteq lapses' /\ lapses' \subseteq lapses \union {"route"}
             /\ "route" \notin lapses' => RoutesOf(m)' = {}
             /\ \A n : n # m => Serving(n)' = Serving(n)
             /\ \A n : RoutesOf(n) = {} => RoutesOf(n)' = {}
             /\ \A n, c : AllLeadTo(n, c) => AllLeadTo(n, c)'
  <2>1. /\ i \in 1..Len(routes) /\ Len(routes) \in Nat /\ routes[i].domain = m
    BY <1>2 DEF RoutesOf
  <2>2. /\ routes' \in Seq(Route) /\ Len(routes') = Len(routes) - 1
        /\ \A j \in 1..Len(routes) - 1 : routes'[j] = routes[IF j < i THEN j ELSE j + 1]
    <3> DEFINE a == SubSeq(routes, 1, i - 1)
               b == SubSeq(routes, i + 1, Len(routes))
    <3>1. /\ a \in Seq(Route) /\ Len(a) = i - 1
          /\ \A j \in 1..i - 1 : a[j] = routes[j]
      BY <2>1
    <3>2. /\ b \in Seq(Route) /\ Len(b) = Len(routes) - i
          /\ \A j \in 1..Len(routes) - i : b[j] = routes[j + i]
      BY <2>1
    <3>3. routes' = a \o b
      BY <1>2
    <3> HIDE DEF a, b
    <3>4. /\ routes' \in Seq(Route) /\ Len(routes') = Len(a) + Len(b)
          /\ \A j \in 1..Len(a) + Len(b) :
                routes'[j] = IF j <= Len(a) THEN a[j] ELSE b[j - Len(a)]
      BY <3>1, <3>2, <3>3, ConcatProperties
    <3>5. ASSUME NEW j \in 1..Len(routes) - 1
          PROVE  routes'[j] = routes[IF j < i THEN j ELSE j + 1]
      <4>0. PICK p, q \in Int : p = Len(a) /\ q = Len(b) /\ p = i - 1 /\ q = Len(routes) - i
        <5>1. i - 1 \in Int /\ Len(routes) - i \in Int
          BY <2>1
        <5>2. Len(a) = i - 1 /\ Len(b) = Len(routes) - i
          BY <3>1, <3>2
        <5>3. QED
          BY <5>1, <5>2
      <4>5. j \in 1..p + q /\ (j <= p <=> j < i)
        BY <2>1, <4>0
      <4>6. routes'[j] = IF j <= p THEN a[j] ELSE b[j - p]
        BY <3>4, <4>0, <4>5
      <4>1. CASE j < i
        <5>1. j \in 1..i - 1
          BY <2>1, <4>1
        <5>2. QED
          BY <3>1, <4>1, <4>5, <4>6, <5>1
      <4>2. CASE ~ (j < i)
        <5>1. routes'[j] = b[j - p] /\ j - p \in 1..Len(routes) - i
          BY <2>1, <4>0, <4>2, <4>5, <4>6
        <5>2. j - p + i = j + 1
          BY <2>1, <4>0
        <5>3. QED
          BY <3>2, <4>2, <5>1, <5>2
      <4>3. QED
        BY <4>1, <4>2
    <3>6. QED
      BY <2>1, <3>1, <3>2, <3>4, <3>5
  <2> DEFINE to(j) == IF j < i THEN j ELSE j + 1
  <2>3. \A n : \A j \in RoutesOf(n)' : to(j) \in RoutesOf(n) /\ to(j) # i /\ routes'[j] = routes[to(j)]
    BY <2>1, <2>2 DEF RoutesOf
  <2>4. \A n : \A k \in RoutesOf(n) : k # i =>
           \E j \in RoutesOf(n)' : to(j) = k
    <3> SUFFICES ASSUME NEW n, NEW k \in RoutesOf(n), k # i
                 PROVE  \E j \in RoutesOf(n)' : to(j) = k
      OBVIOUS
    <3>1. k \in 1..Len(routes) /\ routes[k].domain = n
      BY DEF RoutesOf
    <3>2. CASE k < i
      BY <2>1, <2>2, <3>1, <3>2 DEF RoutesOf
    <3>3. CASE k > i
      <4>1. k - 1 \in 1..Len(routes) - 1 /\ to(k - 1) = k
        BY <2>1, <3>1, <3>3
      <4>2. k - 1 \in RoutesOf(n)'
        BY <2>2, <3>1, <4>1 DEF RoutesOf
      <4>3. QED
        BY <4>1, <4>2
    <3>4. QED
      BY <2>1, <3>1, <3>2, <3>3
  <2>5. \A n, c : AllLeadTo(n, c) => AllLeadTo(n, c)'
    BY <2>3 DEF AllLeadTo
  <2>6. \A n : RoutesOf(n) = {} => RoutesOf(n)' = {}
    BY <2>3
  <2>7. "route" \notin lapses' => RoutesOf(m)' = {}
    <3> SUFFICES ASSUME "route" \notin lapses', NEW j \in RoutesOf(m)' PROVE FALSE
      OBVIOUS
    <3>1. to(j) \in RoutesOf(m) /\ to(j) # i
      BY <2>3
    <3>2. QED
      BY <1>2, <3>1 DEF LapseIf
  <2>8. ASSUME NEW n, n # m PROVE Serving(n)' = Serving(n)
    <3>1. CASE RoutesOf(n) = {}
      BY <2>6, <3>1 DEF Serving
    <3>2. CASE RoutesOf(n) # {}
      <4>1. i \notin RoutesOf(n)
        BY <2>1, <2>8 DEF RoutesOf
      <4> DEFINE f == FirstOf(n)
                 g == FirstOf(n)'
      <4>2. f \in RoutesOf(n) /\ \A j \in RoutesOf(n) : f <= j
        BY <3>2, FirstIsFirst
      <4>3. PICK j \in RoutesOf(n)' : to(j) = f
        BY <2>4, <4>1, <4>2
      <4>4. g \in RoutesOf(n)' /\ \A k \in RoutesOf(n)' : g <= k
        BY <2>2, <4>3, FirstIsFirstNext
      <4>5. to(g) \in RoutesOf(n) /\ routes'[g] = routes[to(g)] /\ f <= to(g) /\ g <= j
        BY <2>3, <4>2, <4>3, <4>4
      <4>6. to(g) = f
        <5>1. g \in Nat /\ j \in Nat /\ f \in Nat
          BY <2>2, <4>2, <4>3, <4>4 DEF RoutesOf
        <5> HIDE DEF f, g
        <5>2. QED
          BY <2>1, <4>3, <4>5, <5>1
      <4>7. Serving(n)' = routes'[g].upstream /\ Serving(n) = routes[f].upstream
        BY <3>2, <4>3 DEF Serving
      <4>8. QED
        BY <4>5, <4>6, <4>7
    <3>3. QED
      BY <3>1, <3>2
  <2>9. QED
    BY <1>2, <2>2, <2>5, <2>6, <2>7, <2>8 DEF Works, LapseIf
<1>3. QED
  BY <1>1, <1>2 DEF RemoveRoute, LapseIf

(* A route that is added serves a domain that had none.                    *)
LEMMA AddStep ==
    ASSUME routes \in Seq(Route), NEW m \in Domains, NEW c \in Upstreams, AddRoute(m, c)
    PROVE  /\ routes' \in Seq(Route)
           /\ \A n : n # m => RoutesOf(n)' = RoutesOf(n) /\ Serving(n)' = Serving(n)
           /\ RoutesOf(m) = {} => AllLeadTo(m, c)' /\ Serving(m)' = c
<1> DEFINE t == [domain |-> m, upstream |-> c]
           l == Len(routes) + 1
<1>1. /\ t \in Route /\ t.domain = m /\ t.upstream = c /\ routes' = Append(routes, t)
  BY DEF Route, AddRoute
<1> HIDE DEF t
<1>2. /\ routes' \in Seq(Route) /\ Len(routes) \in Nat /\ Len(routes') = l
      /\ routes'[l] = t /\ \A i \in 1..Len(routes) : routes'[i] = routes[i]
      /\ DOMAIN routes = 1..Len(routes) /\ DOMAIN routes' = 1..l
  BY <1>1
<1>3. ASSUME NEW n, n # m
      PROVE  RoutesOf(n)' = RoutesOf(n) /\ Serving(n)' = Serving(n)
  <2>1. RoutesOf(n)' = RoutesOf(n)
    BY <1>1, <1>2, <1>3 DEF RoutesOf
  <2>2. FirstOf(n)' = FirstOf(n)
    BY <2>1 DEF FirstOf
  <2>3. CASE RoutesOf(n) # {}
    <3>1. FirstOf(n) \in 1..Len(routes)
      BY <1>2, <2>3, FirstIsFirst DEF RoutesOf
    <3>2. QED
      BY <1>2, <2>1, <2>2, <3>1 DEF Serving
  <2>4. QED
    BY <2>1, <2>3 DEF Serving
<1>4. ASSUME RoutesOf(m) = {} PROVE AllLeadTo(m, c)' /\ Serving(m)' = c
  <2>1. RoutesOf(m)' = {l}
    BY <1>1, <1>2, <1>4 DEF RoutesOf
  <2>2. FirstOf(m)' = l
    BY <1>2, <2>1, FirstIsFirstNext
  <2>3. QED
    BY <1>1, <1>2, <2>1, <2>2 DEF AllLeadTo, Serving
<1>5. QED
  BY <1>2, <1>3, <1>4

(* What leads to a container when all routes of its domain do.             *)
LEMMA AllServe ==
    ASSUME routes \in Seq(Route), NEW m, NEW c, AllLeadTo(m, c)
    PROVE  Serving(m) \in {None, c}
BY FirstIsFirst DEF Serving, AllLeadTo

-----------------------------------------------------------------------------
(* What the deployment and the requests hold.                              *)
LEMMA JobFacts ==
    ASSUME TypeOK, job.pc \in JobPcs
    PROVE  /\ job # NoJob /\ job.d \in Deployments /\ job.old \in Deployments \union {None}
           /\ job.domain \in Domains \union {None} /\ job.limits \in Limits \union {None}
BY DEF TypeOK, Job, NoJob, JobPcs

LEMMA JobMoves ==
    ASSUME TypeOK, job.pc \in JobPcs, NEW pc \in JobPcs, JobGoto(pc)
    PROVE  /\ job' \in Job /\ job' # NoJob /\ job'.pc = pc /\ job'.d = job.d
           /\ job'.old = job.old /\ job'.domain = job.domain /\ job'.limits = job.limits
<1>1. job \in [pc : JobPcs, d : Deployments, old : Deployments \union {None},
               domain : Domains \union {None}, limits : Limits \union {None}]
  BY DEF TypeOK, Job, NoJob, JobPcs
<1>2. /\ job' \in [pc : JobPcs, d : Deployments, old : Deployments \union {None},
                   domain : Domains \union {None}, limits : Limits \union {None}]
      /\ job'.pc = pc /\ job'.d = job.d
      /\ job'.old = job.old /\ job'.domain = job.domain /\ job'.limits = job.limits
  BY <1>1 DEF JobGoto
<1>3. job'.pc # "none"
  BY <1>2 DEF JobPcs
<1>4. QED
  BY <1>2, <1>3 DEF Job, NoJob

LEMMA RequestFacts ==
    ASSUME TypeOK, NEW r \in Requests, req[r].op \in Operations
    PROVE  /\ req[r] # Idle /\ req[r].container \in Deployments \union {None}
           /\ req[r].domain \in Domains \union {None} /\ req[r].limits \in Limits \union {None}
BY DEF TypeOK, Request, Idle, Operations

LEMMA GotoMoves ==
    ASSUME TypeOK, NEW r \in Requests, req[r].op \in Operations,
           NEW pc \in {"docker", "start", "write", "delete", "post"}, Goto(r, pc)
    PROVE  /\ req' \in [Requests -> Request]
           /\ req'[r].op = req[r].op /\ req'[r].pc = pc /\ req'[r].container = req[r].container
           /\ req'[r].domain = req[r].domain /\ req'[r].limits = req[r].limits
           /\ \A q \in Requests : q # r => req'[q] = req[q]
<1> DEFINE R == [op : Operations, pc : {"docker", "start", "write", "delete", "post"},
                 container : Deployments \union {None}, domain : Domains \union {None},
                 limits : Limits \union {None}]
           e == [req[r] EXCEPT !.pc = pc]
<1>1. req[r] \in R
  BY DEF TypeOK, Request, Idle, Operations
<1>2. /\ e \in R /\ e.op = req[r].op /\ e.pc = pc /\ e.container = req[r].container
      /\ e.domain = req[r].domain /\ e.limits = req[r].limits
  BY <1>1
<1>3. req' = [req EXCEPT ![r] = e]
  BY DEF Goto
<1>4. R \subseteq Request
  BY DEF Request
<1> HIDE DEF e, R
<1>5. QED
  BY <1>2, <1>3, <1>4 DEF TypeOK

LEMMA ReturnMoves ==
    ASSUME TypeOK, NEW r \in Requests, Return(r)
    PROVE  /\ req' \in [Requests -> Request] /\ req'[r] = Idle
           /\ \A q \in Requests : q # r => req'[q] = req[q]
BY DEF TypeOK, Return, Request

LEMMA ArriveMoves ==
    ASSUME TypeOK, NEW r \in Requests, NEW op \in Operations,
           NEW pc \in {"docker", "start", "write", "delete", "post"},
           NEW l \in Limits \union {None},
           Arrive(r, op, pc, l)
    PROVE  /\ req' \in [Requests -> Request] /\ req[r] = Idle
           /\ req'[r].op = op /\ req'[r].container = row.container
           /\ req'[r].domain = row.domain
           /\ \A q \in Requests : q # r => req'[q] = req[q]
<1> DEFINE e == [op |-> op, pc |-> pc, container |-> row.container,
                 domain |-> row.domain, limits |-> l]
<1>1. e \in Request /\ e.op = op /\ e.container = row.container /\ e.domain = row.domain
  BY DEF TypeOK, Request
<1>2. req' = [req EXCEPT ![r] = e] /\ req[r] = Idle
  BY DEF Arrive
<1> HIDE DEF e
<1>3. QED
  BY <1>1, <1>2 DEF TypeOK

-----------------------------------------------------------------------------
(* Steps that let the row's container, its limits and the requests at      *)
(* Docker be, and steps that let the routes be.                            *)
LEMMA LimitedStays ==
    ASSUME Limited, row'.container = row.container, row'.limits = row.limits,
           lapses \subseteq lapses',
           row.container # None => limited'[row.container] = limited[row.container],
           \A r \in Requests : At(r, "limits", "docker") =>
              At(r, "limits", "docker")' \/ "drift" \in lapses'
    PROVE  Limited'
BY DEF Limited

LEMMA LeadsStays ==
    ASSUME Leads, UNCHANGED routes, row'.container = row.container, row'.domain = row.domain,
           lapses \subseteq lapses',
           \/ "route" \in lapses'
           \/ /\ row.container # None /\ Exists(row.container) => Exists(row.container)'
              /\ \/ UNCHANGED job
                 \/ /\ job.pc # "record" /\ job'.pc \notin {"post", "remove"}
                    /\ job'.pc = "record" => job'.domain = None
    PROVE  Leads'
<1> SUFFICES ASSUME "route" \notin lapses' PROVE Leads'
  BY DEF Leads
<1>1. /\ \A m : RoutesOf(m)' = RoutesOf(m) /\ Serving(m)' = Serving(m)
      /\ \A m, c : AllLeadTo(m, c)' = AllLeadTo(m, c)
  BY DEF RoutesOf, Serving, FirstOf, AllLeadTo
<1>2. row.container # None /\ Exists(row.container) => Exists(row.container)'
  OBVIOUS
<1>3. CASE UNCHANGED job
  BY <1>1, <1>2, <1>3 DEF Leads, JobAt, Exists
<1>4. CASE /\ job.pc # "record" /\ job'.pc \notin {"post", "remove"}
           /\ job'.pc = "record" => job'.domain = None
  BY <1>1, <1>2, <1>4 DEF Leads, JobAt, Exists
<1>5. QED
  BY <1>3, <1>4

(* What is known of containers stays known as long as none comes and goes. *)
LEMMA NewStays ==
    ASSUME Typed, New, UNCHANGED <<asked, queue, job>>, row'.container = row.container,
           \A d \in Deployments : container'[d] # container[d] =>
              container[d] \in {"running", "stopped"} /\ container'[d] \in {"running", "stopped"},
           \A d \in Deployments : job.pc \in Candidate /\ d = job.d => limited'[d] = limited[d],
           \A r \in Requests : req'[r] # Idle =>
              \/ req[r] # Idle /\ req'[r].container = req[r].container
              \/ req'[r].container = row.container
    PROVE  New'
<1>1. \A d \in Deployments : /\ (container[d] = "absent") <=> (container'[d] = "absent")
                             /\ Exists(d) => Exists(d)'
  BY DEF Exists
<1>2. /\ row.container \in Deployments \union {None}
      /\ \A r \in Requests : req[r] # Idle => req[r].container \in Deployments \union {None}
      /\ job # NoJob => job.d \in Deployments /\ job.old \in Deployments \union {None}
      /\ job.pc \in JobPcs => job # NoJob
  BY DEF Typed, TypeOK, Request, Job, NoJob, JobPcs
<1>3. \A c \in Deployments \union {None} : Known(c) => Known(c)'
  BY <1>1 DEF Known
<1>4. /\ job.pc \in {"build", "run"} => job # NoJob
      /\ job.pc \in Candidate \union {"remove"} => job # NoJob
      /\ job.pc \in Candidate => job # NoJob
  BY <1>2 DEF Candidate, JobPcs
<1>5. Known(row.container)' /\ \A r \in Requests : req'[r] # Idle => Known(req[r].container)'
  BY <1>1, <1>2 DEF New, Known
<1>6. /\ job.pc \in {"build", "run"} => container'[job.d] = "absent"
      /\ job.pc \in Candidate \union {"remove"} => Exists(job.d)'
  BY <1>1, <1>2, <1>4 DEF New
<1>7. job.pc \in Candidate =>
          /\ row'.container # job.d /\ limited'[job.d] = job.limits
          /\ \A r \in Requests : req'[r] # Idle => req'[r].container # job.d
  BY <1>2, <1>4 DEF New
<1>8. QED
  BY <1>1, <1>2, <1>3, <1>5, <1>6, <1>7 DEF New

-----------------------------------------------------------------------------
(* Steps that change a status, a poll or the progress of a request only.   *)
SameRow == /\ row'.domain = row.domain /\ row'.limits = row.limits
           /\ row'.container = row.container
RowType == [domain : Domains \union {None}, limits : Limits \union {None},
            container : Deployments \union {None}, status : Status]
ContainerStates == {"absent", "running", "stopped", "removed"}

LEMMA StatusSet ==
    ASSUME TypeOK, NEW s \in Status, row' = [row EXCEPT !.status = s]
    PROVE  row' \in RowType /\ SameRow
BY DEF TypeOK, RowType, SameRow

LEMMA QuietKeeps ==
    ASSUME Inv, UNCHANGED <<limited, routes, asked, queue, job, lapses>>,
           row' \in RowType, SameRow,
           container' \in [Deployments -> ContainerStates],
           \A d \in Deployments : container'[d] # container[d] =>
              container[d] \in {"running", "stopped"} /\ container'[d] \in {"running", "stopped"},
           req' \in [Requests -> Request],
           \A r \in Requests : req'[r] # Idle =>
              \/ req[r] # Idle /\ req'[r].container = req[r].container
              \/ req'[r].container = row.container,
           \A r \in Requests : req'[r].op = "auth" => req'[r].domain # None,
           \A r \in Requests : At(r, "limits", "docker") => At(r, "limits", "docker")',
           poll' \in Poll, served' \in Nat, mishaps' \in Nat
    PROVE  Inv'
<1>1. Typed'
  BY DEF Inv, Typed, TypeOK, RowType, ContainerStates
<1>2. New'
  BY NewStays DEF Inv, SameRow
<1>3. Limited'
  BY LimitedStays DEF Inv, SameRow
<1>4. row.container # None /\ Exists(row.container) => Exists(row.container)'
  <2>1. row.container \in Deployments \union {None} /\ row'.container = row.container
    BY DEF Inv, Typed, TypeOK, SameRow
  <2>2. QED
    BY <2>1 DEF Exists
<1>5. Leads'
  BY <1>4, LeadsStays DEF Inv, SameRow
<1>6. QED
  BY <1>1, <1>2, <1>3, <1>5 DEF Inv

(* A request goes on or ends, with what that does to its container.        *)
LEMMA RequestGoes ==
    ASSUME Inv, NEW r \in Requests, req[r].op \in Operations, ~ At(r, "limits", "docker"),
           \/ Return(r) \/ \E pc \in {"docker", "start", "write", "delete", "post"} : Goto(r, pc),
           UNCHANGED <<limited, routes, asked, queue, job, lapses, poll, served>>,
           row' \in RowType, SameRow,
           mishaps' = mishaps \/ mishaps' = mishaps + 1,
           container' \in [Deployments -> ContainerStates],
           \A d \in Deployments : container'[d] # container[d] =>
              container[d] \in {"running", "stopped"} /\ container'[d] \in {"running", "stopped"}
    PROVE  Inv'
<1>1. TypeOK
  BY DEF Inv, Typed
<1>2. /\ req' \in [Requests -> Request] /\ \A q \in Requests : q # r => req'[q] = req[q]
      /\ req'[r] # Idle => /\ req'[r].op = req[r].op /\ req'[r].container = req[r].container
                           /\ req'[r].domain = req[r].domain
      /\ Idle.op = "none"
  BY <1>1, GotoMoves, ReturnMoves DEF Idle
<1>3. req[r] # Idle
  BY <1>1, RequestFacts
<1>4. \A q \in Requests : At(q, "limits", "docker") => At(q, "limits", "docker")'
  BY <1>2 DEF At
<1>5. \A q \in Requests : req'[q].op = "auth" => req'[q].domain # None
  BY <1>2 DEF Inv, Typed
<1>6. mishaps' \in Nat
  BY <1>1 DEF TypeOK
<1>7. poll' \in Poll /\ served' \in Nat
  BY <1>1 DEF TypeOK
<1>8. QED
  BY <1>2, <1>3, <1>4, <1>5, <1>6, <1>7, QuietKeeps

LEMMA ControlKeeps ==
    ASSUME Inv, NEW r \in Requests,
           StartCall(r) \/ StopCall(r) \/ RestartStop(r) \/ RestartStart(r) \/ StatusWrite(r)
    PROVE  Inv'
<1>1. /\ \E op \in {"start", "stop", "restart"} : \E pc : At(r, op, pc)
      /\ UNCHANGED <<limited, routes, asked, queue, job, lapses, poll, served>>
      /\ mishaps' = mishaps \/ mishaps' = mishaps + 1
      /\ Return(r) \/ \E pc \in {"docker", "start", "write", "delete", "post"} : Goto(r, pc)
  BY DEF StartCall, StopCall, RestartStop, RestartStart, StatusWrite, hostVars, deployVars,
         Works, Fails
<1>2. req[r].op \in Operations /\ ~ At(r, "limits", "docker")
  BY <1>1 DEF At, Operations
<1>3. TypeOK /\ req[r].container \in Deployments \union {None}
  BY <1>2, RequestFacts DEF Inv, Typed
<1>4. row' \in RowType /\ SameRow
  <2>1. CASE UNCHANGED row
    BY <1>3, <2>1 DEF TypeOK, RowType, SameRow
  <2>2. CASE \E s \in Status : row' = [row EXCEPT !.status = s]
    BY <1>3, <2>2, StatusSet
  <2>3. QED
    BY <2>1, <2>2 DEF StartCall, StopCall, RestartStop, RestartStart, StatusWrite, Status
<1>5. /\ container' \in [Deployments -> ContainerStates]
      /\ \A d \in Deployments : container'[d] # container[d] =>
            container[d] \in {"running", "stopped"} /\ container'[d] \in {"running", "stopped"}
  <2>1. CASE UNCHANGED container
    BY <1>3, <2>1 DEF TypeOK, ContainerStates
  <2>2. CASE \E s \in {"running", "stopped"} : /\ Exists(req[r].container)
                /\ container' = [container EXCEPT ![req[r].container] = s]
    BY <1>3, <2>2 DEF TypeOK, ContainerStates, Exists
  <2>3. QED
    BY <2>1, <2>2 DEF StartCall, StopCall, RestartStop, RestartStart, StatusWrite, hostVars,
                      Running, Exists
<1>6. QED
  BY <1>1, <1>2, <1>4, <1>5, RequestGoes

LEMMA BeginsKeeps ==
    ASSUME Inv, NEW r \in Requests, Begins(r)
    PROVE  Inv'
<1>1. PICK op \in Operations, pc \in {"docker", "start", "write", "delete", "post"},
           l \in Limits \union {None} :
           Arrive(r, op, pc, l) /\ (op = "auth" => row.domain # None)
  BY DEF Begins, BeginControl, Operations
<1>2. TypeOK
  BY DEF Inv, Typed
<1>3. /\ req' \in [Requests -> Request] /\ req[r] = Idle
      /\ req'[r].op = op /\ req'[r].container = row.container
      /\ req'[r].domain = row.domain
      /\ \A q \in Requests : q # r => req'[q] = req[q]
  BY <1>1, <1>2, ArriveMoves
<1>4. /\ UNCHANGED <<row, container, limited, routes, asked, queue, job, lapses, poll, mishaps>>
      /\ served' = served + 1
  BY <1>1 DEF Arrive, hostVars, deployVars
<1>5. \A q \in Requests : At(q, "limits", "docker") => At(q, "limits", "docker")'
  BY <1>3 DEF At
<1>6. \A q \in Requests : req'[q].op = "auth" => req'[q].domain # None
  BY <1>1, <1>3 DEF Inv, Typed
<1>7. row' \in RowType /\ SameRow /\ container' \in [Deployments -> ContainerStates]
      /\ poll' \in Poll /\ served' \in Nat /\ mishaps' \in Nat
  BY <1>2, <1>4 DEF TypeOK, RowType, SameRow, ContainerStates
<1>8. QED
  BY <1>3, <1>4, <1>5, <1>6, <1>7, QuietKeeps

LEMMA PollKeeps ==
    ASSUME Inv,
           \/ PollRead \/ PollInspect \/ PollWrite
           \/ \E d \in Deployments : ContainerExits(d)
           \/ UNCHANGED <<row, hostVars, deployVars, req, poll, served, lapses>>
                /\ (mishaps' = mishaps \/ mishaps' = mishaps + 1)
    PROVE  Inv'
<1>1. TypeOK
  BY DEF Inv, Typed
<1>2. /\ UNCHANGED <<limited, routes, asked, queue, job, lapses, req, served>>
      /\ mishaps' = mishaps \/ mishaps' = mishaps + 1
  BY DEF PollRead, PollInspect, PollWrite, ContainerExits, hostVars, deployVars, boundVars,
         Works, Fails
<1>3. poll' \in Poll
  <2>1. CASE PollRead
    BY <1>1, <2>1 DEF TypeOK, PollRead, Poll
  <2>2. CASE PollInspect
    <3>1. CASE poll' = NoPoll
      BY <3>1 DEF Poll
    <3>2. CASE poll' = [poll EXCEPT !.pc = "write", !.status = Inspected(poll.container)]
      <4>1. Inspected(poll.container) \in Status
        BY DEF Inspected, Status
      <4>2. poll \in [pc : {"inspect", "write"}, container : Deployments, status : Status]
        BY <1>1, <2>2 DEF TypeOK, PollInspect, Poll, NoPoll
      <4>3. QED
        BY <3>2, <4>1, <4>2 DEF Poll
    <3>3. QED
      BY <2>2, <3>1, <3>2 DEF PollInspect
  <2>3. CASE poll' = poll \/ poll' = NoPoll
    BY <1>1, <2>3 DEF TypeOK, Poll
  <2>4. QED
    BY <2>1, <2>2, <2>3 DEF PollWrite, ContainerExits
<1>4. row' \in RowType /\ SameRow
  <2>1. CASE UNCHANGED row
    BY <1>1, <2>1 DEF TypeOK, RowType, SameRow
  <2>2. CASE PollWrite /\ row' = [row EXCEPT !.status = poll.status]
    <3>1. poll.status \in Status
      BY <1>1, <2>2 DEF PollWrite, TypeOK, Poll, NoPoll
    <3>2. QED
      BY <1>1, <2>2, <3>1, StatusSet
  <2>3. QED
    BY <2>1, <2>2 DEF PollRead, PollInspect, PollWrite, ContainerExits
<1>5. /\ container' \in [Deployments -> ContainerStates]
      /\ \A d \in Deployments : container'[d] # container[d] =>
            container[d] \in {"running", "stopped"} /\ container'[d] \in {"running", "stopped"}
  BY <1>1 DEF TypeOK, ContainerStates, PollRead, PollInspect, PollWrite, ContainerExits, hostVars
<1>6. /\ req' \in [Requests -> Request] /\ served' \in Nat /\ mishaps' \in Nat
      /\ \A q \in Requests : At(q, "limits", "docker") => At(q, "limits", "docker")'
      /\ \A q \in Requests : req'[q].op = "auth" => req'[q].domain # None
      /\ \A q \in Requests : req'[q] = req[q]
  BY <1>1, <1>2 DEF TypeOK, At, Inv, Typed
<1>7. QED
  BY <1>2, <1>3, <1>4, <1>5, <1>6, QuietKeeps

(* The limits: the row first, then the container.                          *)
LEMMA LimitsWriteKeeps ==
    ASSUME Inv, NEW r \in Requests, LimitsWrite(r)
    PROVE  Inv'
<1>1. /\ TypeOK /\ req[r].op = "limits" /\ req[r].op \in Operations /\ req[r].pc = "write"
      /\ UNCHANGED <<container, limited, routes, asked, queue, job, poll, served>>
      /\ mishaps' = mishaps \/ mishaps' = mishaps + 1
      /\ lapses \subseteq lapses' /\ lapses' \subseteq lapses \union {"drift"}
  BY DEF LimitsWrite, At, Operations, hostVars, deployVars, Works, Fails, Inv, Typed, LapseIf
<1>2. /\ req[r] # Idle /\ req[r].limits \in Limits \union {None}
      /\ req[r].container \in Deployments \union {None}
  BY <1>1, RequestFacts
<1>3. /\ req' \in [Requests -> Request] /\ \A q \in Requests : q # r => req'[q] = req[q]
      /\ req'[r] # Idle => /\ req'[r].op = req[r].op /\ req'[r].container = req[r].container
                           /\ req'[r].domain = req[r].domain /\ req'[r].pc = "docker"
      /\ Idle.op = "none"
      /\ Return(r) => req'[r] = Idle
      /\ Goto(r, "docker") => req'[r].op = "limits" /\ req'[r].pc = "docker"
  BY <1>1, GotoMoves, ReturnMoves DEF Idle, LimitsWrite
<1>4. /\ row' \in RowType /\ row'.container = row.container /\ row'.domain = row.domain
      /\ \/ row' = row
         \/ Goto(r, "docker")
         \/ row.container = None \/ "drift" \in lapses'
  <2>1. CASE row' = [row EXCEPT !.limits = req[r].limits]
    BY <1>1, <1>2, <2>1 DEF LimitsWrite, TypeOK, RowType, LapseIf
  <2>2. CASE UNCHANGED row
    BY <1>1, <2>2 DEF TypeOK, RowType
  <2>3. QED
    BY <2>1, <2>2 DEF LimitsWrite
<1>5. Typed'
  BY <1>1, <1>3, <1>4 DEF Inv, Typed, TypeOK, RowType
<1>6. New'
  BY <1>1, <1>2, <1>3, <1>4, NewStays DEF Inv
<1>7. Limited'
  <2>1. \A q \in Requests : At(q, "limits", "docker") => At(q, "limits", "docker")'
    BY <1>1, <1>3 DEF At
  <2>2. CASE row' = row
    BY <1>1, <2>1, <2>2, LimitedStays DEF Inv
  <2>3. CASE Goto(r, "docker")
    BY <1>3, <2>3 DEF Limited, At
  <2>4. CASE row.container = None \/ "drift" \in lapses'
    BY <1>4, <2>4 DEF Limited
  <2>5. QED
    BY <1>4, <2>2, <2>3, <2>4
<1>8. Leads'
  BY <1>1, <1>4, LeadsStays DEF Inv, Exists
<1>9. QED
  BY <1>5, <1>6, <1>7, <1>8 DEF Inv

LEMMA LimitsCallKeeps ==
    ASSUME Inv, NEW r \in Requests, LimitsCall(r)
    PROVE  Inv'
<1>1. /\ TypeOK /\ req[r].op \in Operations /\ req[r].op = "limits"
      /\ UNCHANGED <<row, container, routes, asked, queue, job, poll, served>>
      /\ mishaps' = mishaps \/ mishaps' = mishaps + 1
      /\ lapses \subseteq lapses' /\ lapses' \subseteq lapses \union {"drift"}
      /\ Return(r)
  BY DEF LimitsCall, At, Operations, deployVars, Works, Fails, Inv, Typed, LapseIf
<1>2. /\ req[r] # Idle /\ req[r].limits \in Limits \union {None}
      /\ req[r].container \in Deployments \union {None}
  BY <1>1, RequestFacts
<1>3. /\ req' \in [Requests -> Request] /\ req'[r] = Idle /\ Idle.op = "none"
      /\ \A q \in Requests : q # r => req'[q] = req[q]
  BY <1>1, ReturnMoves DEF Idle
<1>4. /\ limited' \in [Deployments -> Limits \union {None}]
      /\ \A d \in Deployments : d # req[r].container => limited'[d] = limited[d]
      /\ \/ "drift" \in lapses'
         \/ req[r].container = row.container /\ limited'[row.container] = row.limits
  BY <1>1, <1>2 DEF LimitsCall, TypeOK, LapseIf, Running
<1>5. Typed'
  BY <1>1, <1>3, <1>4 DEF Inv, Typed, TypeOK
<1>6. New'
  <2>1. \A d \in Deployments : job.pc \in Candidate /\ d = job.d => limited'[d] = limited[d]
    BY <1>2, <1>4 DEF Inv, New
  <2>2. QED
    BY <1>1, <1>3, <2>1, NewStays DEF Inv
<1>7. Limited'
  BY <1>1, <1>4 DEF Limited
<1>8. Leads'
  BY <1>1, LeadsStays DEF Inv, Exists
<1>9. QED
  BY <1>5, <1>6, <1>7, <1>8 DEF Inv

-----------------------------------------------------------------------------
(* The basic auth: its route goes, and comes back with the wrong upstream. *)
LEMMA AuthKeeps ==
    ASSUME Inv, NEW r \in Requests, AuthDelete(r) \/ AuthPost(r)
    PROVE  Inv'
<1>1. /\ TypeOK /\ routes \in Seq(Route) /\ req[r].op = "auth" /\ req[r].op \in Operations
      /\ UNCHANGED <<row, container, limited, asked, queue, job, poll, served>>
      /\ Return(r) \/ Goto(r, "post")
  BY DEF AuthDelete, AuthPost, At, Operations, deployVars, Inv, Typed, TypeOK, Route
<1>2. /\ req[r] # Idle /\ req[r].domain \in Domains
      /\ req[r].container \in Deployments \union {None}
  BY <1>1, RequestFacts DEF Inv, Typed
<1>3. /\ req' \in [Requests -> Request] /\ \A q \in Requests : q # r => req'[q] = req[q]
      /\ req'[r] # Idle => /\ req'[r].op = "auth" /\ req'[r].container = req[r].container
                           /\ req'[r].domain = req[r].domain
      /\ Idle.op = "none"
  BY <1>1, GotoMoves, ReturnMoves DEF Idle
<1>10. PICK m, o : m = req[r].domain /\ o = row.domain
  OBVIOUS
<1>4. /\ routes' \in Seq(Route) /\ (mishaps' = mishaps \/ mishaps' = mishaps + 1)
      /\ lapses \subseteq lapses' /\ lapses' \subseteq lapses \union {"route"}
      /\ "route" \notin lapses' =>
            /\ RoutesOf(m)' = {}
            /\ \A n : n # m => Serving(n)' = Serving(n)
            /\ \A n : RoutesOf(n) = {} => RoutesOf(n)' = {}
            /\ \A n, c : AllLeadTo(n, c) => AllLeadTo(n, c)'
  <2>1. CASE AuthDelete(r)
    BY <1>1, <1>10, <2>1, RemoveStep DEF AuthDelete
  <2>2. CASE AuthPost(r)
    <3>1. /\ mishaps' = mishaps \/ mishaps' = mishaps + 1
          /\ lapses' = lapses \union {"route"}
      BY <2>2 DEF AuthPost, Works, Fails, LapseIf
    <3>2. routes' \in Seq(Route)
      <4>1. CASE AddRoute(req[r].domain, Configured)
        BY <1>1, <1>2, <4>1, AddStep DEF Upstreams
      <4>2. QED
        BY <1>1, <2>2, <4>1 DEF AuthPost
    <3>3. QED
      BY <3>1, <3>2
  <2>3. QED
    BY <2>1, <2>2
<1>5. Typed'
  <2>1. TypeOK /\ mishaps \in Nat /\ lapses \subseteq {"route", "drift"}
    BY DEF Inv, Typed, TypeOK
  <2>2. mishaps' \in Nat /\ lapses' \subseteq {"route", "drift"}
    BY <1>4, <2>1
  <2>3. TypeOK'
    BY <1>1, <1>3, <1>4, <2>1, <2>2 DEF TypeOK, Route
  <2>4. \A q \in Requests : req'[q].op = "auth" => req'[q].domain # None
    <3>1. \A q \in Requests : req[q].op = "auth" => req[q].domain # None
      BY DEF Inv, Typed
    <3>2. CASE req'[r] = Idle
      BY <1>3, <3>1, <3>2
    <3>3. CASE req'[r] # Idle
      <4>1. req[r].domain # None /\ req'[r].domain = req[r].domain
        BY <1>1, <1>3, <3>1, <3>3
      <4>2. QED
        BY <1>3, <3>1, <4>1
    <3>4. QED
      BY <3>2, <3>3
  <2>5. QED
    BY <1>1, <2>3, <2>4 DEF Inv, Typed
<1>6. New'
  BY <1>1, <1>2, <1>3, NewStays DEF Inv
<1>7. Limited'
  <2>1. \A q \in Requests : At(q, "limits", "docker") => At(q, "limits", "docker")'
    BY <1>1, <1>3 DEF At
  <2>2. QED
    BY <1>1, <1>4, <2>1, LimitedStays DEF Inv
<1>8. Leads'
  <2> SUFFICES ASSUME "route" \notin lapses' PROVE Leads'
    BY DEF Leads
  <2>3. Serving(o)' \in {None, Serving(o)}
    BY <1>4 DEF Serving
  <2>1. Serving(row.domain)' \in {None, Serving(row.domain)}
    BY <1>1, <1>10, <2>3
  <2>2. QED
    BY <1>1, <1>4, <2>1 DEF Inv, Leads, JobAt, Exists
<1>9. QED
  BY <1>5, <1>6, <1>7, <1>8 DEF Inv

(* The domain: the row alone.                                              *)
LEMMA DomainKeeps ==
    ASSUME Inv, RemoveDomain \/ \E m \in Domains : SetDomain(m)
    PROVE  Inv'
<1>1. PICK m \in Domains \union {None} :
         /\ row' = [row EXCEPT !.domain = m] /\ served' = served + 1
         /\ UNCHANGED <<container, limited, routes, asked, queue, job, req, poll, mishaps>>
         /\ lapses \subseteq lapses' /\ lapses' \subseteq lapses \union {"route"}
         /\ m # None => Serving(m) \in {None, row.container} \/ "route" \in lapses'
  BY DEF RemoveDomain, SetDomain, UpdateCustomDomain, Ask, hostVars, deployVars, LapseIf
<1>2. /\ row' \in RowType /\ row'.domain = m
      /\ row'.container = row.container /\ row'.limits = row.limits
  BY <1>1 DEF Inv, Typed, TypeOK, RowType
<1>3. Typed'
  BY <1>1, <1>2 DEF Inv, Typed, TypeOK, RowType
<1>4. New'
  BY <1>1, <1>2, NewStays DEF Inv
<1>5. Limited'
  BY <1>1, <1>2, LimitedStays DEF Inv, At
<1>6. Leads'
  <2>1. \A n : RoutesOf(n)' = RoutesOf(n) /\ Serving(n)' = Serving(n)
    BY <1>1 DEF RoutesOf, Serving, FirstOf
  <2>2. \A n, c : AllLeadTo(n, c)' = AllLeadTo(n, c)
    BY <1>1, <2>1 DEF AllLeadTo
  <2>3. QED
    BY <1>1, <1>2, <2>1, <2>2 DEF Inv, Leads, JobAt, Exists
<1>7. QED
  BY <1>3, <1>4, <1>5, <1>6 DEF Inv

-----------------------------------------------------------------------------
(* The deployment up to its switch.                                        *)
LEMMA DeployKeeps ==
    ASSUME Inv, NEW d \in Deployments, Deploy(d)
    PROVE  Inv'
<1>1. /\ TypeOK /\ d \notin asked /\ asked' = asked \union {d}
      /\ queue \subseteq queue' /\ queue' \subseteq queue \union {d}
      /\ UNCHANGED <<container, limited, routes, job, req, poll, served, lapses>>
      /\ mishaps' = mishaps \/ mishaps' = mishaps + 1
  BY DEF Deploy, hostVars, Works, Fails, Inv, Typed
<1>2. row' \in RowType /\ SameRow
  <2>1. CASE UNCHANGED row
    BY <1>1, <2>1 DEF TypeOK, RowType, SameRow
  <2>2. CASE row' = [row EXCEPT !.status = "building"]
    BY <1>1, <2>2, StatusSet DEF Status
  <2>3. QED
    BY <2>1, <2>2 DEF Deploy
<1>3. Typed'
  BY <1>1, <1>2 DEF Inv, Typed, TypeOK, RowType
<1>4. New'
  BY <1>1, <1>2 DEF Inv, New, SameRow, Known, Exists
<1>5. Limited'
  BY <1>1, <1>2, LimitedStays DEF Inv, SameRow, At
<1>6. Leads'
  BY <1>1, <1>2, LeadsStays DEF Inv, SameRow, Exists
<1>7. QED
  BY <1>3, <1>4, <1>5, <1>6 DEF Inv

(* Steps of the job that leave the row and the requests as they are.       *)
JobStep == UNCHANGED <<row, asked, req, poll, served>>

LEMMA BeginKeeps ==
    ASSUME Inv, NEW d \in Deployments, Begin(d)
    PROVE  Inv'
<1>1. /\ TypeOK /\ job = NoJob /\ d \in queue /\ queue' = queue \ {d} /\ JobStep
      /\ UNCHANGED <<container, limited, routes, lapses, mishaps>>
  BY DEF Begin, hostVars, boundVars, JobStep, Inv, Typed
<1>2. /\ job' \in Job /\ job' # NoJob /\ job'.pc = "build" /\ job'.d = d /\ job'.old = None
      /\ job'.domain = None
  BY DEF Begin, Job, JobPcs, NoJob
<1>3. Typed'
  BY <1>1, <1>2 DEF Inv, Typed, TypeOK, JobStep
<1>4. New'
  BY <1>1, <1>2, ApplicationsAssumption DEF Inv, New, Known, Candidate, JobStep
<1>5. Limited'
  BY <1>1, LimitedStays DEF Inv, JobStep, At
<1>6. Leads'
  <2>1. job.pc = "none"
    BY <1>1 DEF NoJob
  <2>2. QED
    BY <1>1, <1>2, <2>1, LeadsStays DEF Inv, JobStep, Exists
<1>7. QED
  BY <1>3, <1>4, <1>5, <1>6 DEF Inv

LEMMA ReadRowKeeps ==
    ASSUME Inv, ReadRow
    PROVE  Inv'
<1>1. /\ TypeOK /\ job.pc = "build" /\ job.pc \in JobPcs /\ "run" \in JobPcs /\ JobStep
      /\ UNCHANGED <<container, limited, routes, queue, lapses>>
      /\ mishaps' = mishaps \/ mishaps' = mishaps + 1
  BY DEF ReadRow, JobAt, JobPcs, hostVars, JobStep, Works, Fails, Inv, Typed
<1>2. /\ job # NoJob /\ job.d \in Deployments
      /\ job' \in Job /\ job' # NoJob /\ job'.pc = "run" /\ job'.d = job.d
      /\ job'.old \in {job.old, row.container}
  <2>1. CASE JobGoto("run")
    BY <1>1, <2>1, JobFacts, JobMoves
  <2>2. CASE job' = [job EXCEPT !.pc = "run", !.old = row.container,
                                !.domain = row.domain, !.limits = row.limits]
    <3>1. job \in [pc : JobPcs, d : Deployments, old : Deployments \union {None},
                   domain : Domains \union {None}, limits : Limits \union {None}]
      BY <1>1 DEF TypeOK, Job, NoJob, JobPcs
    <3>2. /\ row.container \in Deployments \union {None} /\ row.domain \in Domains \union {None}
          /\ row.limits \in Limits \union {None}
      BY <1>1 DEF TypeOK
    <3>3. /\ job' \in [pc : JobPcs, d : Deployments, old : Deployments \union {None},
                       domain : Domains \union {None}, limits : Limits \union {None}]
          /\ job'.pc = "run" /\ job'.d = job.d /\ job'.old = row.container
      BY <1>1, <2>2, <3>1, <3>2
    <3>4. job' # NoJob
      BY <3>3 DEF NoJob
    <3>5. QED
      BY <1>1, <3>3, <3>4, JobFacts DEF Job
  <2>3. QED
    BY <2>1, <2>2 DEF ReadRow
<1>3. Typed'
  BY <1>1, <1>2 DEF Inv, Typed, TypeOK, JobStep
<1>4. New'
  <2>1. job'.old # job.d /\ Known(job.old)'
    <3>1. container[job.d] = "absent" /\ Known(job.old) /\ Known(row.container) /\ job.old # job.d
      BY <1>1, <1>2 DEF Inv, New
    <3>2. job.d # None
      BY <1>2, ApplicationsAssumption
    <3>3. QED
      BY <1>1, <1>2, <3>1, <3>2 DEF Known
  <2>2. QED
    BY <1>1, <1>2, <2>1 DEF Inv, New, Known, Candidate, JobStep
<1>5. Limited'
  BY <1>1, LimitedStays DEF Inv, JobStep, At
<1>6. Leads'
  BY <1>1, <1>2, LeadsStays DEF Inv, JobStep, Exists
<1>7. QED
  BY <1>3, <1>4, <1>5, <1>6 DEF Inv

(* A job that ends before it switches.                                     *)
LEMMA JobEnds ==
    ASSUME Inv, JobStep, job' = NoJob, UNCHANGED <<limited, routes, queue>>,
           mishaps' = mishaps \/ mishaps' = mishaps + 1,
           container' \in [Deployments -> ContainerStates],
           \A d \in Deployments : (container'[d] = "absent") <=> (container[d] = "absent"),
           lapses \subseteq lapses', lapses' \subseteq lapses \union {"route"},
           \/ "route" \in lapses'
           \/ /\ job.pc # "record"
              /\ row.container # None /\ Exists(row.container) => Exists(row.container)'
    PROVE  Inv'
<1>1. TypeOK /\ job'.pc = "none" /\ job' \in Job
  BY DEF NoJob, Job, Inv, Typed
<1>2. Typed'
  BY <1>1 DEF Inv, Typed, TypeOK, JobStep, ContainerStates
<1>3. New'
  <2>1. /\ row.container \in Deployments \union {None}
        /\ \A r \in Requests : req[r] # Idle => req[r].container \in Deployments \union {None}
    BY <1>1 DEF TypeOK, Request
  <2>2. /\ Known(row.container)'
        /\ \A r \in Requests : req'[r] # Idle => Known(req[r].container)'
    BY <2>1 DEF Inv, New, Known, JobStep
  <2>3. QED
    BY <1>1, <2>2 DEF Inv, New, JobStep, Candidate
<1>4. Limited'
  BY LimitedStays DEF Inv, JobStep, At
<1>5. Leads'
  BY <1>1, LeadsStays DEF Inv, JobStep
<1>6. QED
  BY <1>2, <1>3, <1>4, <1>5 DEF Inv

LEMMA BuildFailsKeeps ==
    ASSUME Inv, BuildFails \/ RunFails
    PROVE  Inv'
<1>1. /\ JobStep /\ job' = NoJob /\ UNCHANGED <<limited, routes, queue>>
      /\ mishaps' = mishaps /\ job.pc \in {"build", "run"}
  BY DEF BuildFails, RunFails, JobAt, JobStep, hostVars, Works
<1>2. /\ lapses \subseteq lapses' /\ lapses' \subseteq lapses \union {"route"}
      /\ UNCHANGED container \/ "route" \in lapses'
  BY DEF BuildFails, RunFails, LapseIf, hostVars
<1>3. /\ container' \in [Deployments -> ContainerStates]
      /\ \A d \in Deployments : (container'[d] = "absent") <=> (container[d] = "absent")
  <2>1. container \in [Deployments -> ContainerStates]
    BY DEF Inv, Typed, TypeOK, ContainerStates
  <2>2. CASE UNCHANGED container
    BY <2>1, <2>2
  <2>3. CASE /\ Exists(row.container)
             /\ container' = [container EXCEPT ![row.container] = "removed"]
    BY <2>1, <2>3 DEF Exists, ContainerStates
  <2>4. QED
    BY <2>2, <2>3 DEF BuildFails, RunFails, hostVars
<1>4. QED
  BY <1>1, <1>2, <1>3, JobEnds DEF Exists, JobStep

-----------------------------------------------------------------------------
(* The candidate runs with the limits the job has read.                    *)
LEMMA RunCandidateKeeps ==
    ASSUME Inv, RunCandidate
    PROVE  Inv'
<1>1. /\ TypeOK /\ job.pc = "run" /\ job.pc \in JobPcs /\ "gate" \in JobPcs
      /\ JobStep /\ JobGoto("gate") /\ UNCHANGED <<routes, queue, lapses, mishaps>>
      /\ container' = [container EXCEPT ![job.d] = "running"]
      /\ limited' = [limited EXCEPT ![job.d] = job.limits]
  BY DEF RunCandidate, JobAt, JobPcs, JobStep, Works, Inv, Typed
<1>2. /\ job # NoJob /\ job.d \in Deployments /\ job.limits \in Limits \union {None}
      /\ job' \in Job /\ job' # NoJob /\ job'.pc = "gate" /\ job'.d = job.d
      /\ job'.old = job.old /\ job'.limits = job.limits
  BY <1>1, JobFacts, JobMoves
<1>3. /\ container' \in [Deployments -> ContainerStates] /\ container'[job.d] = "running"
      /\ limited' \in [Deployments -> Limits \union {None}] /\ limited'[job.d] = job.limits
      /\ \A c \in Deployments : c # job.d => /\ container'[c] = container[c]
                                             /\ limited'[c] = limited[c]
  BY <1>1, <1>2 DEF TypeOK, ContainerStates
<1>4. /\ job.d \in asked \ queue /\ container[job.d] = "absent" /\ job.d # None
      /\ Known(row.container) /\ row.container \in Deployments \union {None}
      /\ Known(job.old) /\ job.old \in Deployments \union {None} /\ job.old # job.d
  BY <1>1, <1>2, JobFacts, ApplicationsAssumption DEF Inv, New, TypeOK
<1>5. /\ row.container # job.d
      /\ \A r \in Requests : req[r] # Idle => /\ req[r].container # job.d
                                              /\ req[r].container \in Deployments \union {None}
  BY <1>1, <1>4 DEF Inv, New, Known, TypeOK, Request
<1>6. Typed'
  BY <1>1, <1>2, <1>3 DEF Inv, Typed, TypeOK, JobStep, ContainerStates
<1>7. New'
  <2>1. /\ queue' \subseteq asked'
        /\ \A d \in Deployments : d \in queue' \/ d \notin asked' => container'[d] = "absent"
    BY <1>1, <1>3, <1>4 DEF Inv, New, JobStep
  <2>2. Known(row.container)' /\ Known(job.old)'
    BY <1>1, <1>2, <1>3, <1>4, <1>5 DEF Known, JobStep
  <2>3. \A r \in Requests : req'[r] # Idle => Known(req[r].container)' /\ req'[r].container # job.d
    BY <1>1, <1>3, <1>5 DEF Inv, New, Known, JobStep
  <2>4. Exists(job.d)'
    BY <1>2, <1>3, <1>4 DEF Exists
  <2>5. QED
    BY <1>1, <1>2, <1>3, <1>4, <1>5, <2>1, <2>2, <2>3, <2>4 DEF New, JobStep
<1>8. Limited'
  BY <1>1, <1>3, <1>4, <1>5, LimitedStays DEF Inv, JobStep, At
<1>9. row.container # None /\ Exists(row.container) => Exists(row.container)'
  BY <1>1, <1>3, <1>4, <1>5 DEF Exists, JobStep
<1>10. Leads'
  BY <1>1, <1>2, <1>9, LeadsStays DEF Inv, JobStep
<1>11. QED
  BY <1>6, <1>7, <1>8, <1>10 DEF Inv

(* The gate lets the candidate through, or it goes.                        *)
LEMMA GateKeeps ==
    ASSUME Inv, Gate
    PROVE  Inv'
<1>1. /\ TypeOK /\ job.pc = "gate" /\ job.pc \in JobPcs /\ {"delete", "record"} \subseteq JobPcs
      /\ JobStep /\ UNCHANGED <<limited, routes, queue, lapses>>
      /\ mishaps' = mishaps \/ mishaps' = mishaps + 1
  BY DEF Gate, JobAt, JobPcs, JobStep, Works, Fails, Inv, Typed
<1>2. /\ job # NoJob /\ job.d \in Deployments /\ job.d # None
      /\ container \in [Deployments -> ContainerStates]
  BY <1>1, JobFacts, ApplicationsAssumption DEF TypeOK, ContainerStates
<1>3. CASE UNCHANGED container /\ JobGoto(IF job.domain # None THEN "delete" ELSE "record")
  <2>1. /\ job' \in Job /\ job' # NoJob /\ job'.pc \in {"delete", "record"} /\ job'.d = job.d
        /\ job'.old = job.old /\ job'.limits = job.limits /\ job'.domain = job.domain
        /\ job'.pc = "delete" => job.domain # None
        /\ job'.pc = "record" => job.domain = None
    <3>1. CASE job.domain # None
      BY <1>1, <1>3, <3>1, JobMoves
    <3>2. CASE job.domain = None
      BY <1>1, <1>3, <3>2, JobMoves
    <3>3. QED
      BY <3>1, <3>2
  <2>2. Typed'
    BY <1>1, <1>3, <2>1 DEF Inv, Typed, TypeOK, JobStep
  <2>3. New'
    BY <1>1, <1>2, <1>3, <2>1 DEF Inv, New, JobStep, Candidate, Known, Exists
  <2>4. Limited'
    BY <1>1, LimitedStays DEF Inv, JobStep, At
  <2>5. Leads'
    BY <1>1, <1>3, <2>1, LeadsStays DEF Inv, JobStep, Exists
  <2>6. QED
    BY <2>2, <2>3, <2>4, <2>5 DEF Inv
<1>4. CASE job' = NoJob /\ (UNCHANGED container \/ container' = [container EXCEPT ![job.d] = "removed"])
  <2>1. /\ container' \in [Deployments -> ContainerStates]
        /\ \A c \in Deployments : c # job.d => container'[c] = container[c]
        /\ container'[job.d] # "absent" /\ container[job.d] # "absent"
    BY <1>1, <1>2, <1>4 DEF ContainerStates, Inv, New, Candidate, Exists
  <2>2. row.container # job.d /\ row.container \in Deployments \union {None}
    BY <1>1 DEF Inv, New, Candidate, TypeOK
  <2>3. row.container # None /\ Exists(row.container) => Exists(row.container)'
    BY <1>1, <2>1, <2>2 DEF Exists, JobStep
  <2>4. QED
    BY <1>1, <1>4, <2>1, <2>3, JobEnds
<1>5. QED
  BY <1>3, <1>4 DEF Gate

(* The switch: the domain's route goes, and comes back with the candidate. *)
LEMMA SwitchKeeps ==
    ASSUME Inv, DeleteRoute \/ PostRoute
    PROVE  Inv'
<1>1. /\ TypeOK /\ routes \in Seq(Route)
      /\ job.pc \in {"delete", "post"} /\ job.pc \in JobPcs /\ {"post", "record"} \subseteq JobPcs
      /\ JobStep /\ UNCHANGED <<container, limited, queue>>
      /\ DeleteRoute => job.pc = "delete" /\ JobGoto("post") /\ RemoveRoute(job.domain)
      /\ PostRoute => job.pc = "post" /\ JobGoto("record")
  BY DEF DeleteRoute, PostRoute, JobAt, JobPcs, JobStep, Inv, Typed, TypeOK, Route
<1>2. PICK m \in Domains, o \in Domains \union {None} : m = job.domain /\ o = row.domain
  BY <1>1, JobFacts DEF Inv, Typed, TypeOK
<1>3. /\ job # NoJob /\ job.d \in Deployments /\ job.d # None
      /\ job' \in Job /\ job' # NoJob /\ job'.pc \in {"post", "record"} /\ job'.d = job.d
      /\ DeleteRoute => job'.pc = "post"
      /\ PostRoute => job'.pc = "record"
      /\ job'.old = job.old /\ job'.limits = job.limits /\ job'.domain = job.domain
      /\ m # None
  BY <1>1, <1>2, JobFacts, JobMoves, ApplicationsAssumption
<1>4. /\ routes' \in Seq(Route) /\ (mishaps' = mishaps \/ mishaps' = mishaps + 1)
      /\ lapses \subseteq lapses' /\ lapses' \subseteq lapses \union {"route"}
      /\ "route" \notin lapses' =>
            /\ \A n : n # m => Serving(n)' = Serving(n)
            /\ DeleteRoute => RoutesOf(m)' = {}
            /\ PostRoute => AllLeadTo(m, job.d)' /\ Serving(m)' = job.d
  <2>1. CASE DeleteRoute
    BY <1>1, <1>2, <2>1, RemoveStep DEF PostRoute, DeleteRoute, JobAt
  <2>2. CASE PostRoute
    <3>1. PICK c \in Upstreams : c = job.d
      BY <1>3 DEF Upstreams
    <3>2. CASE AddRoute(job.domain, job.d) /\ Works /\ LapseIf(RoutesOf(job.domain) # {}, "route")
      <4>1. AddRoute(m, c) /\ LapseIf(RoutesOf(m) # {}, "route")
        BY <1>2, <3>1, <3>2
      <4>2. /\ routes' \in Seq(Route) /\ \A n : n # m => Serving(n)' = Serving(n)
            /\ RoutesOf(m) = {} => AllLeadTo(m, c)' /\ Serving(m)' = c
        BY <1>1, <4>1, AddStep
      <4>3. AllLeadTo(m, c)' => AllLeadTo(m, job.d)'
        BY <1>3, <3>1 DEF AllLeadTo
      <4>4. ~ DeleteRoute
        BY <1>1, <2>2
      <4>5. QED
        BY <3>1, <3>2, <4>1, <4>2, <4>3, <4>4 DEF Works, LapseIf
    <3>3. CASE Fails /\ LapseIf(TRUE, "route") /\ UNCHANGED routes
      BY <1>1, <3>3 DEF Fails, LapseIf
    <3>4. QED
      BY <2>2, <3>2, <3>3 DEF PostRoute
  <2>3. QED
    BY <2>1, <2>2
<1>5. Typed'
  BY <1>1, <1>2, <1>3, <1>4 DEF Inv, Typed, TypeOK, JobStep, Route
<1>6. New'
  BY <1>1, <1>3 DEF Inv, New, JobStep, Candidate, Known, Exists
<1>7. Limited'
  BY <1>1, <1>4, LimitedStays DEF Inv, JobStep, At
<1>8. Leads'
  <2> SUFFICES ASSUME "route" \notin lapses' PROVE Leads'
    BY DEF Leads
  <2>1. /\ row.container # None => Exists(row.container)
        /\ o # None /\ Serving(o) # None => Serving(o) = row.container
    BY <1>1, <1>2, <1>4 DEF Inv, Leads, JobAt
  <2>2. o # None /\ Serving(o)' # None =>
           \/ Serving(o)' = row.container
           \/ job'.pc = "record" /\ Serving(o)' = job.d
    <3>1. CASE o # m
      BY <1>4, <2>1, <3>1
    <3>2. CASE o = m /\ DeleteRoute
      BY <1>4, <3>2 DEF Serving
    <3>3. CASE o = m /\ PostRoute
      BY <1>3, <1>4, <3>3
    <3>4. QED
      BY <3>1, <3>2, <3>3
  <2>3. Serving(row.domain)' = Serving(o)' /\ RoutesOf(job.domain)' = RoutesOf(m)'
    BY <1>1, <1>2, <1>3 DEF JobStep
  <2>4. AllLeadTo(job.domain, job.d)' = AllLeadTo(m, job.d)'
    BY <1>2, <1>3
  <2>5. /\ job'.pc = "post" => RoutesOf(m)' = {}
        /\ job'.pc = "record" => AllLeadTo(m, job.d)'
    BY <1>3, <1>4
  <2>6. QED
    BY <1>1, <1>2, <1>3, <2>1, <2>2, <2>3, <2>4, <2>5 DEF Leads, JobAt, JobStep, Exists
<1>9. QED
  BY <1>5, <1>6, <1>7, <1>8 DEF Inv

(* The record, after which everything is as the row says or is a lapse.    *)
LEMMA RecordKeeps ==
    ASSUME Inv, Record
    PROVE  Inv'
<1>1. /\ TypeOK /\ job.pc = "record" /\ job.pc \in JobPcs /\ "remove" \in JobPcs
      /\ JobGoto("remove") /\ lapses' \subseteq {"route", "drift"}
      /\ UNCHANGED <<container, limited, routes, asked, queue, req, poll, served>>
      /\ mishaps' = mishaps \/ mishaps' = mishaps + 1
  BY DEF Record, JobAt, JobPcs, hostVars, Works, Fails, LapseIf, Inv, Typed, TypeOK
<1>2. /\ job # NoJob /\ job.d \in Deployments /\ job.d # None
      /\ job' \in Job /\ job' # NoJob /\ job'.pc = "remove" /\ job'.d = job.d
      /\ job'.old = job.old /\ job'.domain = job.domain
      /\ Exists(job.d) /\ limited[job.d] = job.limits /\ routes \in Seq(Route)
  BY <1>1, JobFacts, JobMoves, ApplicationsAssumption DEF Inv, New, Candidate, TypeOK, Route
<1>3. /\ row' \in RowType /\ row'.domain = row.domain /\ row'.limits = row.limits
      /\ \/ /\ row'.container = job.d
            /\ job.limits = row.limits \/ "drift" \in lapses'
            /\ \/ "route" \in lapses'
               \/ job.domain = row.domain /\ "route" \notin lapses
               \/ AllLeadTo(row.domain, job.d)
         \/ UNCHANGED row /\ "route" \in lapses' /\ lapses \subseteq lapses'
  <2>1. CASE row' = [row EXCEPT !.container = job.d, !.status = "running"]
    BY <1>1, <1>2, <2>1 DEF Record, LapseIf, TypeOK, RowType, Status
  <2>2. CASE UNCHANGED row /\ LapseIf(TRUE, "route")
    BY <1>1, <2>2 DEF LapseIf, TypeOK, RowType
  <2>3. QED
    BY <2>1, <2>2 DEF Record
<1>4. Typed'
  BY <1>1, <1>2, <1>3 DEF Inv, Typed, TypeOK, RowType
<1>5. New'
  <2>1. Known(row.container)'
    BY <1>1, <1>2, <1>3 DEF Inv, New, Known, Exists
  <2>2. QED
    BY <1>1, <1>2, <2>1 DEF Inv, New, Known, Exists, Candidate
<1>6. Limited'
  <2>1. CASE row'.container = job.d /\ (job.limits = row.limits \/ "drift" \in lapses')
    BY <1>1, <1>2, <1>3, <2>1 DEF Limited
  <2>2. CASE UNCHANGED row /\ lapses \subseteq lapses'
    BY <1>1, <2>2, LimitedStays DEF Inv, At
  <2>3. QED
    BY <1>3, <2>1, <2>2
<1>7. Leads'
  <2> SUFFICES ASSUME "route" \notin lapses' PROVE Leads'
    BY DEF Leads
  <2>1. row'.container = job.d
    BY <1>3
  <2>2. PICK o : o = row.domain
    OBVIOUS
  <2>3. o # None => AllLeadTo(o, job.d)
    BY <1>1, <1>3, <2>2 DEF Inv, Leads, JobAt
  <2>4. o # None => Serving(o) \in {None, job.d}
    BY <1>2, <2>3, AllServe
  <2>5. Serving(o)' = Serving(o)
    BY <1>1 DEF Serving, FirstOf, RoutesOf
  <2>6. Serving(row.domain)' = Serving(o)'
    BY <1>3, <2>2
  <2>7. QED
    BY <1>1, <1>2, <1>3, <2>1, <2>2, <2>4, <2>5, <2>6 DEF Leads, JobAt, Exists
<1>8. QED
  BY <1>4, <1>5, <1>6, <1>7 DEF Inv

(* The predecessor goes, which the row names no more.                      *)
LEMMA RemoveOldKeeps ==
    ASSUME Inv, RemoveOld
    PROVE  Inv'
<1>1. /\ TypeOK /\ job.pc = "remove" /\ job.pc \in JobPcs /\ job' = NoJob
      /\ JobStep /\ UNCHANGED <<limited, routes, queue, lapses>>
      /\ mishaps' = mishaps \/ mishaps' = mishaps + 1
  BY DEF RemoveOld, JobAt, JobPcs, JobStep, Works, Fails, Inv, Typed
<1>2. /\ job # NoJob /\ job.old \in Deployments \union {None} /\ Known(job.old)
      /\ job.old # job.d
      /\ container \in [Deployments -> ContainerStates]
  BY <1>1, JobFacts DEF TypeOK, ContainerStates, Inv, New
<1>3. /\ container' \in [Deployments -> ContainerStates]
      /\ \A c \in Deployments : c # job.old => container'[c] = container[c]
      /\ \A c \in Deployments : (container'[c] = "absent") <=> (container[c] = "absent")
  <2>1. CASE UNCHANGED container
    BY <1>2, <2>1
  <2>2. CASE job.old # None /\ container' = [container EXCEPT ![job.old] = "removed"]
    BY <1>2, <2>2 DEF ContainerStates, Known
  <2>3. QED
    BY <2>1, <2>2 DEF RemoveOld
<1>4. "route" \notin lapses => row.container # job.old
  BY <1>1, <1>2 DEF Inv, Leads, JobAt
<1>5. \/ "route" \in lapses'
      \/ row.container # None /\ Exists(row.container) => Exists(row.container)'
  BY <1>1, <1>3, <1>4 DEF Exists, JobStep, TypeOK
<1>6. QED
  BY <1>1, <1>3, <1>5, JobEnds

(* The process dies: only what Docker and Caddy hold is left.              *)
LEMMA CrashKeeps ==
    ASSUME Inv, Crash
    PROVE  Inv'
<1>1. /\ TypeOK /\ queue' = {} /\ job' = NoJob /\ poll' = NoPoll /\ mishaps' = mishaps + 1
      /\ req' = [r \in Requests |-> Idle]
      /\ UNCHANGED <<row, container, limited, routes, asked, served>>
      /\ lapses \subseteq lapses' /\ lapses' \subseteq lapses \union {"route", "drift"}
      /\ job.pc = "record" => "route" \in lapses'
      /\ \A r \in Requests : At(r, "limits", "docker") => "drift" \in lapses'
  BY DEF Crash, hostVars, Fails, Inv, Typed
<1>2. /\ job'.pc = "none" /\ job' \in Job /\ poll' \in Poll
      /\ req' \in [Requests -> Request] /\ \A r \in Requests : req'[r] = Idle /\ req'[r].op = "none"
  BY <1>1 DEF NoJob, Job, Poll, Request, Idle
<1>3. Typed'
  BY <1>1, <1>2 DEF Inv, Typed, TypeOK
<1>4. New'
  BY <1>1, <1>2 DEF Inv, New, Known, Candidate
<1>5. Limited'
  BY <1>1, LimitedStays DEF Inv
<1>6. Leads'
  BY <1>1, <1>2, LeadsStays DEF Inv, Exists
<1>7. QED
  BY <1>3, <1>4, <1>5, <1>6 DEF Inv

-----------------------------------------------------------------------------
LEMMA ServeKeeps == ASSUME Inv, Serve PROVE Inv'
<1>1. ASSUME Pipeline PROVE Inv'
  BY <1>1, BeginKeeps, ReadRowKeeps, BuildFailsKeeps, RunCandidateKeeps, GateKeeps,
     SwitchKeeps, RecordKeeps, RemoveOldKeeps DEF Pipeline
<1>2. ASSUME NEW r \in Requests, Begins(r) \/ Handle(r) PROVE Inv'
  BY <1>2, BeginsKeeps, ControlKeeps, LimitsWriteKeeps, LimitsCallKeeps, AuthKeeps DEF Handle
<1>3. QED
  BY <1>1, <1>2, DeployKeeps, DomainKeeps, PollKeeps DEF Serve

LEMMA Initially == Init => Inv
<1> SUFFICES ASSUME Init PROVE Inv
  OBVIOUS
<1>1. /\ routes \in Seq(Route) /\ \A m : RoutesOf(m) = {}
  BY DEF Init, RoutesOf
<1>2. Typed
  BY <1>1 DEF Init, Typed, TypeOK, Status, Job, NoJob, Request, Idle, Poll, Route
<1>3. New
  BY DEF Init, New, Known, NoJob, Candidate, Idle
<1>4. Limited /\ Leads
  BY <1>1 DEF Init, Limited, Leads, Serving, JobAt, NoJob
<1>5. QED
  BY <1>2, <1>3, <1>4 DEF Inv

(* The invariant gives the properties.                                     *)
LEMMA InvSuffices == Inv => TypeOK /\ LimitsInForce /\ RouteLeads
<1> SUFFICES ASSUME Inv PROVE TypeOK /\ LimitsInForce /\ RouteLeads
  OBVIOUS
<1>1. TypeOK
  BY DEF Inv, Typed
<1>2. LimitsInForce
  BY DEF Inv, Limited, LimitsInForce, Running
<1>3. RouteLeads
  BY DEF Inv, Leads, RouteLeads
<1>4. QED
  BY <1>1, <1>2, <1>3

-----------------------------------------------------------------------------
Late == {"read", "exec", "wait", "record"}

(* Whatever else a run holds, it is a record with a pc.                    *)
Shape ==
    /\ run = [r \in Runs |-> run[r]]
    /\ \A r \in Runs : "pc" \in DOMAIN run[r]

(* runningJobs: the mark is there for the one run that is past the guard.  *)
Marked ==
    \A r \in Runs : run[r].pc \in Late
        => mark = TRUE /\ \A s \in Runs : run[s].pc \in Late => s = r

Guarded == Shape /\ Marked

-----------------------------------------------------------------------------
(* A step that moves one run and leaves the others where they are.         *)
LEMMA OneMoves ==
    ASSUME Guarded, NEW r \in Runs, NEW e, run' = [run EXCEPT ![r] = e], "pc" \in DOMAIN e
    PROVE  Shape' /\ run'[r] = e /\ \A s \in Runs : s # r => run'[s] = run[s]
BY DEF Guarded, Shape

LEMMA RunMoves ==
    ASSUME Guarded, NEW r \in Runs, NEW pc, RunGoto(r, pc)
    PROVE  Shape' /\ run'[r].pc = pc /\ \A s \in Runs : s # r => run'[s] = run[s]
BY DEF Guarded, Shape, RunGoto

LEMMA LeaveMoves ==
    ASSUME Guarded, NEW r \in Runs, Leave(r)
    PROVE  Shape' /\ run'[r].pc = "none" /\ \A s \in Runs : s # r => run'[s] = run[s]
<1>1. run' = [run EXCEPT ![r] = NoRun] /\ "pc" \in DOMAIN NoRun /\ NoRun.pc = "none"
  BY DEF Leave, NoRun
<1>2. Shape' /\ run'[r] = NoRun /\ \A s \in Runs : s # r => run'[s] = run[s]
  BY <1>1, OneMoves
<1>3. QED
  BY <1>1, <1>2

(* A run that is past the guard goes on, and the mark stays.               *)
LEMMA GoesOn ==
    ASSUME Guarded, NEW r \in Runs, run[r].pc \in Late, mark' = mark, Shape',
           \A s \in Runs : s # r => run'[s] = run[s]
    PROVE  Guarded'
BY DEF Guarded, Marked

(* A run that is past the guard leaves, and takes the mark with it.        *)
LEMMA GoesOut ==
    ASSUME Guarded, NEW r \in Runs, run[r].pc \in Late, run'[r].pc \notin Late, Shape',
           \A s \in Runs : s # r => run'[s] = run[s]
    PROVE  Guarded'
BY DEF Guarded, Marked

(* A run that is not past the guard is not past it afterwards either.      *)
LEMMA StaysOut ==
    ASSUME Guarded, NEW r \in Runs, run'[r].pc \notin Late, mark' = mark, Shape',
           \A s \in Runs : s # r => run'[s] = run[s]
    PROVE  Guarded'
BY DEF Guarded, Marked

LEMMA Unmoved == Guarded /\ UNCHANGED <<run, mark>> => Guarded'
BY DEF Guarded, Shape, Marked

LEMMA SpawnKeeps ==
    ASSUME Guarded, NEW r \in Runs, NEW manual, Spawn(r, manual)
    PROVE  Guarded'
<1> DEFINE e == [pc |-> "begin", manual |-> manual, ctx |-> TRUE,
                 container |-> None, status |-> "failed"]
<1>1. run' = [run EXCEPT ![r] = e] /\ mark' = mark
  BY DEF Spawn
<1>2. "pc" \in DOMAIN e /\ e.pc \notin Late
  BY DEF Late
<1> HIDE DEF e
<1>3. Shape' /\ run'[r] = e /\ \A s \in Runs : s # r => run'[s] = run[s]
  BY <1>1, <1>2, OneMoves
<1>4. QED
  BY <1>1, <1>2, <1>3, StaysOut

(* LoadOrStore: only where there is no mark does a run get past the guard. *)
LEMMA GuardKeeps ==
    ASSUME Guarded, NEW r \in Runs, Guard(r)
    PROVE  Guarded'
<1>1. CASE mark
  <2>1. Leave(r) /\ mark' = mark
    BY <1>1 DEF Guard
  <2>2. QED
    BY <2>1, LeaveMoves, StaysOut DEF Late
<1>2. CASE ~mark
  <2>1. RunGoto(r, "read") /\ mark' = TRUE
    BY <1>2 DEF Guard
  <2>2. \A s \in Runs : run[s].pc \notin Late
    BY <1>2 DEF Guarded, Marked
  <2>3. QED
    BY <2>1, <2>2, RunMoves DEF Guarded, Marked
<1>3. QED
  BY <1>1, <1>2

LEMMA ReadJobKeeps ==
    ASSUME Guarded, NEW r \in Runs, ReadJob(r)
    PROVE  Guarded'
<1>1. run[r].pc \in Late
  BY DEF ReadJob, RunAt, Late
<1>2. CASE Leave(r)
  BY <1>1, <1>2, LeaveMoves, GoesOut DEF Late
<1>3. CASE RunGoto(r, "record") /\ UNCHANGED mark
  BY <1>1, <1>3, RunMoves, GoesOn
<1>4. CASE /\ run' = [run EXCEPT
                ![r].pc = IF Running(row.container) THEN "exec" ELSE "record",
                ![r].container = row.container]
           /\ UNCHANGED mark
  <2>1. PICK pc : pc = IF Running(row.container) THEN "exec" ELSE "record"
    OBVIOUS
  <2>2. run' = [run EXCEPT ![r].pc = pc, ![r].container = row.container]
    BY <1>4, <2>1
  <2>3. Shape' /\ \A s \in Runs : s # r => run'[s] = run[s]
    BY <2>2 DEF Guarded, Shape
  <2>4. QED
    BY <1>1, <1>4, <2>3, GoesOn
<1>5. QED
  BY <1>2, <1>3, <1>4 DEF ReadJob

LEMMA WaitKeeps ==
    ASSUME Guarded, NEW r \in Runs, Wait(r)
    PROVE  Guarded'
<1>1. run[r].pc \in Late /\ mark' = mark
  BY DEF Wait, RunAt, Late
<1>2. PICK s : run' = [run EXCEPT ![r].pc = "record", ![r].status = s]
  BY DEF Wait
<1>3. Shape' /\ \A q \in Runs : q # r => run'[q] = run[q]
  BY <1>2 DEF Guarded, Shape
<1>4. QED
  BY <1>1, <1>3, GoesOn

(* The end of a context moves nobody.                                      *)
LEMMA ContextEnds ==
    ASSUME Guarded, mark' = mark, Shape', \A r \in Runs : run'[r].pc = run[r].pc
    PROVE  Guarded'
BY DEF Guarded, Marked

LEMMA CancelRunKeeps ==
    ASSUME Guarded, NEW r \in Runs, CancelRun(r)
    PROVE  Guarded'
<1>1. run' = [run EXCEPT ![r].ctx = FALSE] /\ mark' = mark
  BY DEF CancelRun
<1>2. Shape' /\ \A s \in Runs : run'[s].pc = run[s].pc
  BY <1>1 DEF Guarded, Shape
<1>3. QED
  BY <1>1, <1>2, ContextEnds

LEMMA StopSchedulerKeeps ==
    ASSUME Guarded, StopScheduler
    PROVE  Guarded'
<1>1. /\ run' = [r \in Runs |-> IF run[r] = NoRun \/ run[r].manual THEN run[r]
                                ELSE [run[r] EXCEPT !.ctx = FALSE]]
      /\ mark' = mark
  BY DEF StopScheduler
<1>2. Shape' /\ \A s \in Runs : run'[s].pc = run[s].pc
  BY <1>1 DEF Guarded, Shape
<1>3. QED
  BY <1>1, <1>2, ContextEnds

LEMMA CronCrashKeeps ==
    ASSUME Guarded, CronCrash
    PROVE  Guarded'
<1>1. run' = [r \in Runs |-> NoRun]
  BY DEF CronCrash
<1>2. QED
  BY <1>1 DEF Guarded, Shape, Marked, Late, NoRun

LEMMA GuardedIsInductive == Guarded /\ [CronNext]_allVars => Guarded'
<1> SUFFICES ASSUME Guarded, [CronNext]_allVars PROVE Guarded'
  OBVIOUS
<1>0. CASE UNCHANGED allVars
  BY <1>0, Unmoved DEF allVars, cronVars
<1>1. CASE UNCHANGED cronVars
  BY <1>1, Unmoved DEF cronVars
<1>2. CASE CronCrash
  BY <1>2, CronCrashKeeps
<1>3. CASE Create \/ Delete \/ ToggleRead \/ ToggleWrite
  BY <1>3, Unmoved DEF Create, Delete, ToggleRead, ToggleWrite
<1>4. CASE StopScheduler
  BY <1>4, StopSchedulerKeeps
<1>5. ASSUME NEW r \in Runs, Tick(r) \/ RunNow(r)
      PROVE  Guarded'
  BY <1>5, SpawnKeeps DEF Tick, RunNow
<1>6. ASSUME NEW r \in Runs, Guard(r)
      PROVE  Guarded'
  BY <1>6, GuardKeeps
<1>7. ASSUME NEW r \in Runs, ReadJob(r)
      PROVE  Guarded'
  BY <1>7, ReadJobKeeps
<1>8. ASSUME NEW r \in Runs, Exec(r)
      PROVE  Guarded'
  <2>1. run[r].pc \in Late /\ mark' = mark
    BY <1>8 DEF Exec, RunAt, Late
  <2>2. RunGoto(r, "wait") \/ RunGoto(r, "record")
    BY <1>8 DEF Exec
  <2>3. QED
    BY <2>1, <2>2, RunMoves, GoesOn
<1>9. ASSUME NEW r \in Runs, ExecFails(r)
      PROVE  Guarded'
  <2>1. run[r].pc \in Late /\ mark' = mark /\ RunGoto(r, "record")
    BY <1>9 DEF ExecFails, RunAt, Late
  <2>2. QED
    BY <2>1, RunMoves, GoesOn
<1>10. ASSUME NEW r \in Runs, CommandEnds(r)
       PROVE  Guarded'
  BY <1>10, Unmoved DEF CommandEnds
<1>11. ASSUME NEW r \in Runs, Wait(r)
       PROVE  Guarded'
  BY <1>11, WaitKeeps
<1>12. ASSUME NEW r \in Runs, RecordRun(r)
       PROVE  Guarded'
  <2>1. run[r].pc \in Late /\ Leave(r)
    BY <1>12 DEF RecordRun, RunAt, Late
  <2>2. QED
    BY <2>1, LeaveMoves, GoesOut DEF Late
<1>13. ASSUME NEW r \in Runs, CancelRun(r)
       PROVE  Guarded'
  BY <1>13, CancelRunKeeps
<1>14. CASE CronStep
  BY <1>3, <1>4, <1>5, <1>6, <1>7, <1>8, <1>9, <1>10, <1>11, <1>12, <1>13, <1>14 DEF CronStep
<1>15. QED
  BY <1>0, <1>1, <1>2, <1>14 DEF CronNext

(* Ticks, requests, deployments that take the container away, Stop and     *)
(* crashes: of two commands of a job that run at once RunJob waits for one *)
(* at most (cron_scheduler.go, runningJobs).                               *)
THEOREM CommandExclusiveHolds == CronSpec => []CommandExclusive
<1>1. CronInit => Guarded
  BY DEF CronInit, Guarded, Shape, Marked, Late, NoRun
<1>2. Guarded => CommandExclusive
  BY DEF Guarded, Marked, CommandExclusive, RunAt, Late
<1>3. QED
  BY <1>1, <1>2, GuardedIsInductive, PTL DEF CronSpec

-----------------------------------------------------------------------------
(* The goroutines in their type.                                           *)
BusyRun ==
    [pc : RunPcs, manual : BOOLEAN, ctx : BOOLEAN,
     container : Deployments \union {None}, status : Outcomes]

LEMMA BusyIs ==
    ASSUME CronTypeOK, NEW r \in Runs, run[r] # NoRun
    PROVE  run[r] \in BusyRun
BY DEF CronTypeOK, RunState, BusyRun

LEMMA RunTyped ==
    ASSUME CronTypeOK, NEW r \in Runs, NEW e \in BusyRun \union {NoRun},
           run' = [run EXCEPT ![r] = e]
    PROVE  run' \in [Runs -> RunState]
BY DEF CronTypeOK, RunState, BusyRun

LEMMA LeaveTyped ==
    ASSUME CronTypeOK, NEW r \in Runs, Leave(r)
    PROVE  run' \in [Runs -> RunState]
BY RunTyped DEF Leave

LEMMA GotoTyped ==
    ASSUME CronTypeOK, NEW r \in Runs, run[r] # NoRun, NEW pc \in RunPcs, RunGoto(r, pc)
    PROVE  run' \in [Runs -> RunState]
<1>1. [run[r] EXCEPT !.pc = pc] \in BusyRun
  BY BusyIs DEF BusyRun
<1>2. run' = [run EXCEPT ![r] = [run[r] EXCEPT !.pc = pc]]
  BY DEF RunGoto
<1> HIDE DEF BusyRun
<1>3. QED
  BY <1>1, <1>2, RunTyped

LEMMA BusyAt ==
    ASSUME NEW r \in Runs, NEW pc \in RunPcs, RunAt(r, pc)
    PROVE  run[r] # NoRun
BY DEF RunAt, NoRun, RunPcs

LEMMA CronTypeKept ==
    ASSUME TypeOK, CronTypeOK, CronStep \/ CronCrash \/ UNCHANGED cronVars
    PROVE  CronTypeOK'
<1>0. /\ cron \in {None} \union [enabled : BOOLEAN, last : Outcomes \union {None}]
      /\ scheduler \in BOOLEAN /\ mark \in BOOLEAN /\ run \in [Runs -> RunState]
      /\ command \in [Runs -> Deployments \union {None}]
      /\ toggle \in BOOLEAN \union {None} /\ starts \in Nat
  BY DEF CronTypeOK
<1>1. CASE UNCHANGED cronVars
  BY <1>0, <1>1 DEF CronTypeOK, cronVars
<1>2. CASE CronCrash
  <2>1. run' \in [Runs -> RunState]
    BY <1>2 DEF CronCrash, RunState
  <2>2. scheduler' \in BOOLEAN /\ mark' \in BOOLEAN /\ toggle' \in BOOLEAN \union {None}
    BY <1>2 DEF CronCrash
  <2>3. cron' = cron /\ command' = command /\ starts' = starts
    BY <1>2 DEF CronCrash
  <2>4. /\ cron' \in {None} \union [enabled : BOOLEAN, last : Outcomes \union {None}]
        /\ command' \in [Runs -> Deployments \union {None}] /\ starts' \in Nat
    BY <1>0, <2>3
  <2>5. QED
    BY <2>1, <2>2, <2>4, Zenon DEF CronTypeOK
<1>3. CASE Create \/ Delete
  <2>1. cron' = [enabled |-> TRUE, last |-> None] \/ cron' = None
    BY <1>3 DEF Create, Delete
  <2>2. [enabled |-> TRUE, last |-> None] \in [enabled : BOOLEAN, last : Outcomes \union {None}]
    OBVIOUS
  <2>3. cron' \in {None} \union [enabled : BOOLEAN, last : Outcomes \union {None}]
    BY <2>1, <2>2
  <2>4. QED
    BY <1>0, <1>3, <2>3 DEF Create, Delete, CronTypeOK
<1>4. CASE ToggleRead
  <2>1. toggle' \in BOOLEAN \union {None}
    BY <1>0, <1>4 DEF ToggleRead
  <2>2. QED
    BY <1>0, <1>4, <2>1 DEF ToggleRead, CronTypeOK
<1>5. CASE ToggleWrite
  <2>1. cron' \in {None} \union [enabled : BOOLEAN, last : Outcomes \union {None}]
    BY <1>0, <1>5 DEF ToggleWrite
  <2>2. QED
    BY <1>0, <1>5, <2>1 DEF ToggleWrite, CronTypeOK
<1>6. CASE StopScheduler
  <2>1. ASSUME NEW r \in Runs
        PROVE  (IF run[r] = NoRun \/ run[r].manual THEN run[r]
                ELSE [run[r] EXCEPT !.ctx = FALSE]) \in RunState
    <3>1. CASE run[r] = NoRun \/ run[r].manual
      BY <1>0, <3>1
    <3>2. CASE ~(run[r] = NoRun \/ run[r].manual)
      <4>1. [run[r] EXCEPT !.ctx = FALSE] \in BusyRun
        BY <3>2, BusyIs DEF BusyRun
      <4>2. QED
        BY <3>2, <4>1 DEF RunState, BusyRun
    <3>3. QED
      BY <3>1, <3>2
  <2>2. run' \in [Runs -> RunState]
    BY <1>6, <2>1 DEF StopScheduler
  <2>3. QED
    BY <1>0, <1>6, <2>2 DEF StopScheduler, CronTypeOK
<1>7. ASSUME NEW r \in Runs, Tick(r) \/ RunNow(r)
      PROVE  CronTypeOK'
  <2>1. PICK manual \in BOOLEAN : Spawn(r, manual)
    BY <1>7 DEF Tick, RunNow
  <2> DEFINE e == [pc |-> "begin", manual |-> manual, ctx |-> TRUE,
                   container |-> None, status |-> "failed"]
  <2>2. e \in BusyRun
    BY DEF BusyRun, RunPcs, Outcomes
  <2>3. run' = [run EXCEPT ![r] = e] /\ starts' = starts + 1
    BY <2>1 DEF Spawn
  <2> HIDE DEF e
  <2>4. run' \in [Runs -> RunState]
    BY <2>2, <2>3, RunTyped
  <2>5. starts' \in Nat
    BY <1>0, <2>3
  <2>6. QED
    BY <1>0, <2>1, <2>4, <2>5 DEF Spawn, CronTypeOK
<1>8. ASSUME NEW r \in Runs, Guard(r)
      PROVE  CronTypeOK'
  <2>1. "begin" \in RunPcs /\ "read" \in RunPcs
    BY DEF RunPcs
  <2>2. run' \in [Runs -> RunState] /\ mark' \in BOOLEAN
    BY <1>0, <1>8, <2>1, BusyAt, LeaveTyped, GotoTyped DEF Guard
  <2>3. QED
    BY <1>0, <1>8, <2>2 DEF Guard, CronTypeOK
<1>9. ASSUME NEW r \in Runs, ReadJob(r)
      PROVE  CronTypeOK'
  <2>1. /\ run[r] # NoRun /\ run[r] \in BusyRun /\ mark' \in BOOLEAN
        /\ UNCHANGED <<cron, scheduler, command, toggle, starts>>
    BY <1>0, <1>9, BusyAt, BusyIs DEF ReadJob, RunPcs
  <2>2. CASE Leave(r)
    BY <1>0, <2>1, <2>2, LeaveTyped DEF CronTypeOK
  <2>3. CASE RunGoto(r, "record")
    <3>1. "record" \in RunPcs
      BY DEF RunPcs
    <3>2. QED
      BY <1>0, <2>1, <2>3, <3>1, GotoTyped DEF CronTypeOK
  <2>4. CASE run' = [run EXCEPT
                ![r].pc = IF Running(row.container) THEN "exec" ELSE "record",
                ![r].container = row.container]
    <3>1. PICK e : e = [run[r] EXCEPT
                !.pc = IF Running(row.container) THEN "exec" ELSE "record",
                !.container = row.container]
      OBVIOUS
    <3>2. run' = [run EXCEPT ![r] = e]
      BY <2>4, <3>1
    <3>3. row.container \in Deployments \union {None}
      BY DEF TypeOK
    <3>4. e \in BusyRun
      BY <2>1, <3>1, <3>3 DEF BusyRun, RunPcs
    <3>5. QED
      BY <1>0, <2>1, <3>2, <3>4, RunTyped DEF CronTypeOK
  <2>5. QED
    BY <1>9, <2>2, <2>3, <2>4 DEF ReadJob
<1>10. ASSUME NEW r \in Runs, Exec(r) \/ ExecFails(r)
       PROVE  CronTypeOK'
  <2>1. /\ run[r] # NoRun /\ run[r] \in BusyRun
        /\ UNCHANGED <<cron, scheduler, mark, toggle, starts>>
        /\ RunGoto(r, "wait") \/ RunGoto(r, "record")
    BY <1>10, BusyAt, BusyIs DEF Exec, ExecFails, RunPcs
  <2>2. "wait" \in RunPcs /\ "record" \in RunPcs
    BY DEF RunPcs
  <2>3. run' \in [Runs -> RunState]
    BY <2>1, <2>2, GotoTyped
  <2>4. run[r].container \in Deployments \union {None}
    BY <2>1 DEF BusyRun
  <2>5. command' = command \/ command' = [command EXCEPT ![r] = run[r].container]
    BY <1>10 DEF Exec, ExecFails
  <2>6. command' \in [Runs -> Deployments \union {None}]
    BY <1>0, <2>4, <2>5
  <2>7. QED
    BY <1>0, <2>1, <2>3, <2>6 DEF CronTypeOK
<1>11. ASSUME NEW r \in Runs, CommandEnds(r)
       PROVE  CronTypeOK'
  <2>1. command' \in [Runs -> Deployments \union {None}]
    BY <1>0, <1>11 DEF CommandEnds
  <2>2. QED
    BY <1>0, <1>11, <2>1 DEF CommandEnds, CronTypeOK
<1>12. ASSUME NEW r \in Runs, Wait(r)
       PROVE  CronTypeOK'
  <2>1. run[r] \in BusyRun
    BY <1>12, BusyAt, BusyIs DEF Wait, RunPcs
  <2>2. PICK s \in Outcomes : run' = [run EXCEPT ![r].pc = "record", ![r].status = s]
    BY <1>12 DEF Wait
  <2>3. run' = [run EXCEPT ![r] = [run[r] EXCEPT !.pc = "record", !.status = s]]
    BY <2>2
  <2>4. [run[r] EXCEPT !.pc = "record", !.status = s] \in BusyRun
    BY <2>1 DEF BusyRun, RunPcs
  <2>5. run' \in [Runs -> RunState]
    BY <2>3, <2>4, RunTyped
  <2>6. QED
    BY <1>0, <1>12, <2>5 DEF Wait, CronTypeOK
<1>13. ASSUME NEW r \in Runs, RecordRun(r)
       PROVE  CronTypeOK'
  <2>1. run[r] \in BusyRun
    BY <1>13, BusyAt, BusyIs DEF RecordRun, RunPcs
  <2>2. run[r].status \in Outcomes
    BY <2>1 DEF BusyRun
  <2>3. \/ cron' = cron
        \/ cron # None /\ cron' = [cron EXCEPT !.last = run[r].status]
    <3>1. CASE /\ run[r].ctx /\ cron # None /\ UNCHANGED vars
               /\ cron' = [cron EXCEPT !.last = run[r].status]
      BY <3>1
    <3>2. CASE UNCHANGED cron
      BY <3>2
    <3>3. QED
      BY <1>13, <3>1, <3>2 DEF RecordRun
  <2>4. cron' \in {None} \union [enabled : BOOLEAN, last : Outcomes \union {None}]
    BY <1>0, <2>2, <2>3
  <2>5. run' \in [Runs -> RunState] /\ mark' \in BOOLEAN
    BY <1>13, LeaveTyped DEF RecordRun
  <2>6. QED
    BY <1>0, <1>13, <2>4, <2>5 DEF RecordRun, CronTypeOK
<1>14. ASSUME NEW r \in Runs, CancelRun(r)
       PROVE  CronTypeOK'
  <2>1. run[r] \in BusyRun /\ run' = [run EXCEPT ![r] = [run[r] EXCEPT !.ctx = FALSE]]
    BY <1>14, BusyIs DEF CancelRun
  <2>2. [run[r] EXCEPT !.ctx = FALSE] \in BusyRun
    BY <2>1 DEF BusyRun
  <2>3. run' \in [Runs -> RunState]
    BY <2>1, <2>2, RunTyped
  <2>4. QED
    BY <1>0, <1>14, <2>3 DEF CancelRun, CronTypeOK
<1>15. CASE CronStep
  BY <1>3, <1>4, <1>5, <1>6, <1>7, <1>8, <1>9, <1>10, <1>11, <1>12, <1>13, <1>14, <1>15
     DEF CronStep
<1>16. QED
  BY <1>1, <1>2, <1>15

-----------------------------------------------------------------------------
(* A run of the cron job looks at the application and changes nothing of   *)
(* it.                                                                     *)
LEMMA CronStepQuiet ==
    ASSUME CronStep, mishaps \in Nat
    PROVE  /\ UNCHANGED <<row, hostVars, deployVars, req, poll, served, lapses>>
           /\ mishaps' = mishaps \/ mishaps' = mishaps + 1
<1>1. CASE Create \/ Delete \/ ToggleRead \/ ToggleWrite \/ StopScheduler
  BY <1>1 DEF Create, Delete, ToggleRead, ToggleWrite, StopScheduler, vars, boundVars, Fails
<1>2. ASSUME NEW r \in Runs, Tick(r) \/ RunNow(r) \/ Guard(r) \/ Exec(r) \/ ExecFails(r)
                               \/ CommandEnds(r) \/ Wait(r) \/ CancelRun(r)
      PROVE  /\ UNCHANGED <<row, hostVars, deployVars, req, poll, served, lapses>>
             /\ mishaps' = mishaps \/ mishaps' = mishaps + 1
  BY <1>2 DEF Tick, RunNow, Spawn, Guard, Exec, ExecFails, CommandEnds, Wait, CancelRun,
              vars, boundVars, Fails
<1>3. ASSUME NEW r \in Runs, ReadJob(r) \/ RecordRun(r)
      PROVE  /\ UNCHANGED <<row, hostVars, deployVars, req, poll, served, lapses>>
             /\ mishaps' = mishaps \/ mishaps' = mishaps + 1
  BY <1>3 DEF ReadJob, RecordRun, vars, boundVars, Fails
<1>4. QED
  BY <1>1, <1>2, <1>3 DEF CronStep

LEMMA InvIsInductive == Inv /\ [CronNext]_allVars => Inv'
<1> SUFFICES ASSUME Inv, [CronNext]_allVars PROVE Inv'
  OBVIOUS
<1>1. mishaps \in Nat
  BY DEF Inv, Typed, TypeOK
<1>2. CASE UNCHANGED allVars
  BY <1>2, PollKeeps DEF allVars, vars, boundVars
<1>3. CASE Serve
  BY <1>3, ServeKeeps
<1>4. CASE CronStep
  BY <1>1, <1>4, CronStepQuiet, PollKeeps
<1>5. CASE CronCrash
  BY <1>5, CrashKeeps DEF CronCrash
<1>6. QED
  BY <1>2, <1>3, <1>4, <1>5 DEF CronNext

(* The state of the application and of its cron job stays in its type.     *)
THEOREM TypesHold == CronSpec => []StateTypeOK
<1>1. Init /\ CronInit => Inv /\ CronTypeOK
  <2>1. ASSUME CronInit
        PROVE  /\ run \in [Runs -> RunState]
               /\ scheduler \in BOOLEAN /\ mark \in BOOLEAN
               /\ toggle \in BOOLEAN \union {None} /\ starts \in Nat
               /\ command \in [Runs -> Deployments \union {None}]
    BY <2>1 DEF CronInit, RunState
  <2>2. QED
    BY <2>1, Initially DEF CronInit, CronTypeOK
<1>2. Inv /\ CronTypeOK /\ [CronNext]_allVars => Inv' /\ CronTypeOK'
  <2>1. Inv => TypeOK
    BY InvSuffices
  <2>2. [CronNext]_allVars => CronStep \/ CronCrash \/ UNCHANGED cronVars
    BY DEF CronNext, allVars
  <2>3. QED
    BY <2>1, <2>2, InvIsInductive, CronTypeKept
<1>3. Inv /\ CronTypeOK => StateTypeOK
  BY InvSuffices DEF StateTypeOK
<1>4. QED
  BY <1>1, <1>2, <1>3, PTL DEF CronSpec

(* UpdateResourceLimits, deployments, requests that cross them, failures   *)
(* and crashes: the container the row names runs with the limits the row   *)
(* shows, or an update is on its way to it or has not reached it           *)
(* (applications/handler.go, UpdateResourceLimits).                        *)
THEOREM LimitsHold == CronSpec => []LimitsInForce
<1>1. Init => Inv
  BY Initially
<1>2. Inv => LimitsInForce
  BY InvSuffices
<1>3. QED
  BY <1>1, <1>2, InvIsInductive, PTL DEF CronSpec

(* The switch of a deployment, the basic auth's rewriting of the route,    *)
(* failures of Caddy and crashes: without a lapse the route of the         *)
(* application's domain leads to the container its row names.              *)
THEOREM RouteLeadsHolds == CronSpec => []RouteLeads
<1>1. Init => Inv
  BY Initially
<1>2. Inv => RouteLeads
  BY InvSuffices
<1>3. QED
  BY <1>1, <1>2, InvIsInductive, PTL DEF CronSpec
=============================================================================
