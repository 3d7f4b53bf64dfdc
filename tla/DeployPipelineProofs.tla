----------------------- MODULE DeployPipelineProofs ------------------------
(***************************************************************************)
(* Proofs about DeployPipeline for every number of deployments, every      *)
(* retention and every number of mishaps.                                  *)
(***************************************************************************)
EXTENDS DeployPipeline, SequenceTheorems, FiniteSetTheorems, TLAPS

-----------------------------------------------------------------------------
(* Taking one element out of a sequence keeps its type and adds nothing.   *)
LEMMA RemoveOne ==
    ASSUME NEW S, NEW s \in Seq(S), NEW i \in DOMAIN s, NEW r,
           r = SubSeq(s, 1, i - 1) \o SubSeq(s, i + 1, Len(s))
    PROVE  r \in Seq(S) /\ Elems(r) \subseteq Elems(s)
<1> DEFINE a == SubSeq(s, 1, i - 1)
           b == SubSeq(s, i + 1, Len(s))
<1>0. i \in 1..Len(s) /\ Len(s) \in Nat
  OBVIOUS
<1>1. a \in Seq(S) /\ Len(a) = i - 1 /\ \A k \in 1..(i - 1) : a[k] = s[k]
  BY <1>0, SubSeqProperties
<1>2. /\ b \in Seq(S) /\ Len(b) = Len(s) - i
      /\ \A k \in 1..(Len(s) - i) : b[k] = s[i + k]
  BY <1>0, SubSeqProperties
<1>3. /\ a \o b \in Seq(S) /\ Len(a \o b) = Len(a) + Len(b)
      /\ \A k \in 1..(Len(a) + Len(b)) :
            (a \o b)[k] = IF k <= Len(a) THEN a[k] ELSE b[k - Len(a)]
  BY <1>1, <1>2, ConcatProperties
<1> HIDE DEF a, b
<1>4. \A j \in 1..Len(s) : s[j] \in Elems(s)
  BY DEF Elems
<1>5. ASSUME NEW k \in 1..(Len(a) + Len(b))
      PROVE  (a \o b)[k] \in Elems(s)
  <2> DEFINE n == Len(s)
  <2>0. /\ n \in Nat /\ i \in Nat /\ 1 <= i /\ i <= n
        /\ Len(a) = i - 1 /\ Len(b) = n - i
    BY <1>0, <1>1, <1>2
  <2>1. k \in Nat /\ 1 <= k /\ k <= n - 1
    BY <2>0
  <2>2. (a \o b)[k] = IF k <= Len(a) THEN a[k] ELSE b[k - Len(a)]
    BY <1>3
  <2>3. CASE k <= i - 1
    <3>1. (a \o b)[k] = s[k]
      BY <2>0, <2>1, <2>2, <2>3, <1>1
    <3>2. QED
      BY <2>0, <2>1, <3>1, <1>4
  <2>4. CASE ~(k <= i - 1)
    <3> DEFINE m == k - (i - 1)
    <3> HIDE DEF n
    <3>0. m \in Int /\ 1 <= m /\ m <= n - i /\ i + m = k + 1
      <4>1. m \in Int
        BY <2>0, <2>1
      <4>2. 1 <= m
        BY <2>0, <2>1, <2>4
      <4>3. m <= n - i
        BY <2>0, <2>1
      <4>4. i + m = k + 1
        BY <2>0, <2>1
      <4>5. QED
        BY <4>1, <4>2, <4>3, <4>4
    <3> HIDE DEF m
    <3>1. m \in 1..(n - i) /\ i + m = k + 1 /\ k + 1 \in 1..n
      BY <2>0, <2>1, <3>0
    <3>2. (a \o b)[k] = b[m]
      BY <2>0, <2>1, <2>2, <2>4 DEF m
    <3>3. b[m] = s[i + m]
      BY <3>1, <1>2 DEF n
    <3>4. QED
      BY <3>1, <3>2, <3>3, <1>4 DEF n
  <2>5. QED
    BY <2>3, <2>4
<1>6. DOMAIN (a \o b) = 1..(Len(a) + Len(b))
  BY <1>3
<1>7. Elems(a \o b) \subseteq Elems(s)
  BY <1>5, <1>6 DEF Elems
<1>8. QED
  BY <1>3, <1>7 DEF a, b

(* Adding an element adds that element.                                    *)
LEMMA AppendOne ==
    ASSUME NEW S, NEW s \in Seq(S), NEW e \in S
    PROVE  Append(s, e) \in Seq(S) /\ Elems(Append(s, e)) = Elems(s) \union {e}
<1>1. /\ Append(s, e) \in Seq(S) /\ Len(Append(s, e)) = Len(s) + 1
      /\ \A k \in 1..Len(s) : Append(s, e)[k] = s[k]
      /\ Append(s, e)[Len(s) + 1] = e
  BY AppendProperties
<1>2. Len(s) \in Nat /\ DOMAIN s = 1..Len(s) /\ DOMAIN Append(s, e) = 1..(Len(s) + 1)
  BY <1>1
<1>3. QED
  BY <1>1, <1>2 DEF Elems

(* A sequence over a set has its elements there.                           *)
LEMMA ElemsTyped ==
    ASSUME NEW S, NEW s \in Seq(S)
    PROVE  Elems(s) \subseteq S
BY DEF Elems
-----------------------------------------------------------------------------
(* The parts of the state keep their types.                                *)
LEMMA TypeInit == Init => TypeOK
<1> SUFFICES ASSUME Init PROVE TypeOK
  OBVIOUS
<1>1. app \in [source : Source, domain : BOOLEAN, container : Deployments \union {None}]
  BY DEF Init
<1>2. created \in Seq(Deployments) /\ routes \in Seq(Deployments)
  BY DEF Init
<1>3. QED
  BY <1>1, <1>2 DEF Init, TypeOK, NoJob, Jobs, Status, Pc, ContainerState

(* updateStep writes a status of the table, or nothing.                    *)
LEMMA SetStatusTyped ==
    ASSUME TypeOK, NEW d \in Deployments, NEW s \in Status, SetStatus(d, s)
    PROVE  status' \in [Deployments -> Status] /\ mishaps' \in Nat
BY DEF TypeOK, SetStatus, Mishap

(* A request keeps every type.                                             *)
LEMMA TypeRequests ==
    ASSUME TypeOK, Request
    PROVE  TypeOK'
<1>1. CASE \E d \in Deployments : Deploy(d)
  <2>1. PICK d \in Deployments : Deploy(d)
    BY <1>1
  <2>2. created' \in Seq(Deployments)
    BY <2>1, AppendOne DEF Deploy, TypeOK
  <2>3. status' \in [Deployments -> Status]
    BY <2>1 DEF Deploy, TypeOK, Status
  <2>4. QED
    BY <2>1, <2>2, <2>3 DEF Deploy, TypeOK, dockerVars, ctxVars, histVars
<1>2. CASE \E d \in Deployments : StartDeployment(d)
  <2>1. PICK d \in Deployments : StartDeployment(d)
    BY <1>2
  <2>2. status' \in [Deployments -> Status]
    BY <2>1 DEF StartDeployment, TypeOK, Status
  <2>3. QED
    BY <2>1, <2>2 DEF StartDeployment, TypeOK, Mishap, queueVars, dockerVars, ctxVars
<1>3. CASE \E d, t, s \in Deployments : Rollback(d, t, s)
  <2>1. PICK d \in Deployments, t \in Deployments, s \in Deployments : Rollback(d, t, s)
    BY <1>3
  <2>2. created' \in Seq(Deployments)
    BY <2>1, AppendOne DEF Rollback, TypeOK
  <2>3. imageName[s] \in Image \union {None}
    BY DEF TypeOK
  <2>4. status' \in [Deployments -> Status]
    BY <2>1, <2>3 DEF Rollback, TypeOK, Status
  <2>5. QED
    BY <2>1, <2>2, <2>3, <2>4 DEF Rollback, TypeOK, dockerVars, ctxVars, histVars
<1>4. CASE StopContainer
  BY <1>4 DEF StopContainer, TypeOK, Mishap, ContainerState, dbVars, queueVars,
              ctxVars, histVars
<1>5. CASE RestartContainer
  BY <1>5 DEF RestartContainer, TypeOK, ContainerState, dbVars, queueVars,
              ctxVars, histVars
<1>6. QED
  BY <1>1, <1>2, <1>3, <1>4, <1>5 DEF Request
-----------------------------------------------------------------------------
(* A pipeline in execution has a deployment, and while it removes the      *)
(* previous container there is one.                                        *)
JobKnown ==
    /\ ~At("idle") => job.d \in Deployments
    /\ job.pc \in {"stopOld", "removeOld"} => job.old \in Deployments

TypeInv == TypeOK /\ JobKnown

(* Moving to the next call changes nothing else of the job.                *)
LEMMA GotoTyped ==
    ASSUME job \in Jobs, NEW pc \in Pc, Goto(pc)
    PROVE  /\ job' \in Jobs
           /\ job'.pc = pc /\ job'.d = job.d /\ job'.old = job.old
           /\ job'.image = job.image /\ job'.keep = job.keep
           /\ job'.routed = job.routed
BY DEF Jobs, Goto

(* Once the image is there the job has it, with what was read of the       *)
(* application or with the pipeline's defaults.                            *)
LEMMA ImageReadyTyped ==
    ASSUME TypeOK, NEW image \in Image, ImageReady(image),
           job.d \in Deployments
    PROVE  /\ job' \in Jobs
           /\ job'.pc = "run" /\ job'.d = job.d /\ job'.image = image
           /\ \/ job'.old = app.container /\ job'.routed = app.domain
              \/ job'.old = job.old /\ job'.routed = job.routed
           /\ status' \in [Deployments -> Status] /\ mishaps' \in Nat
<1>1. app.container \in Deployments \union {None} /\ app.domain \in BOOLEAN
  BY DEF TypeOK
<1>2. "run" \in Pc /\ "active" \in Status
  BY DEF Pc, Status
<1>3. CASE /\ job' = [job EXCEPT !.pc = "run", !.image = image,
                                !.old = app.container, !.routed = app.domain]
           /\ SetStatus(job.d, "active")
  <2>1. status' \in [Deployments -> Status] /\ mishaps' \in Nat
    BY <1>2, <1>3, SetStatusTyped
  <2>2. QED
    BY <1>1, <1>2, <1>3, <2>1 DEF TypeOK, Jobs
<1>4. CASE /\ job' = [job EXCEPT !.pc = "run", !.image = image]
           /\ status' = [status EXCEPT ![job.d] = "active"]
           /\ Mishap
  <2>1. status' \in [Deployments -> Status] /\ mishaps' \in Nat
    BY <1>2, <1>4 DEF TypeOK, Mishap
  <2>2. QED
    BY <1>2, <1>4, <2>1 DEF TypeOK, Jobs
<1>5. QED
  BY <1>3, <1>4 DEF ImageReady

(* The job of a pipeline that executes nothing.                            *)
LEMMA NoJobTyped == NoJob \in Jobs /\ NoJob.pc = "idle" /\ NoJob.old = None /\ ~NoJob.routed
BY DEF NoJob, Jobs, Pc

(* A removal, successful or not, keeps its types.                          *)
LEMMA RemoveTyped ==
    ASSUME TypeOK, NEW c \in Deployments, RemoveOrAbandon(c)
    PROVE  /\ container' \in [Deployments -> ContainerState]
           /\ abandoned' \in SUBSET Deployments
           /\ mishaps' \in Nat
BY DEF TypeOK, RemoveOrAbandon, ContainerState, CallFails, Mishap

(* Once read, what to keep is in the job, or the pipeline has ended.       *)
LEMMA RetainedRead ==
    ASSUME TypeOK, ReadRetained
    PROVE  \/ job' = NoJob
           \/ /\ job' \in Jobs /\ job'.pc = "prune" /\ job'.d = job.d
              /\ \E rows \in SUBSET WithImage :
                    /\ Distinct(rows)
                    /\ job'.keep = ImagesOf(Newest(rows)) \union {job.image}
<1>1. CASE job' = NoJob
  BY <1>1
<1>2. ASSUME NEW rows \in SUBSET WithImage, Distinct(rows),
             job' = [job EXCEPT !.pc = "prune",
                                !.keep = ImagesOf(Newest(rows)) \union {job.image}]
      PROVE  /\ job' \in Jobs /\ job'.pc = "prune" /\ job'.d = job.d
             /\ job'.keep = ImagesOf(Newest(rows)) \union {job.image}
  <2> DEFINE keep == ImagesOf(Newest(rows)) \union {job.image}
  <2>1. Elems(created) \subseteq Deployments
    BY ElemsTyped DEF TypeOK
  <2>2. Newest(rows) \subseteq Deployments
    BY <2>1 DEF Newest, WithImage, Succeeded
  <2>3. keep \in SUBSET (Image \union {None})
    BY <2>2 DEF ImagesOf, TypeOK, Jobs
  <2>4. job' = [job EXCEPT !.pc = "prune", !.keep = keep] /\ "prune" \in Pc
    BY <1>2 DEF Pc
  <2> HIDE DEF keep
  <2>5. job' \in Jobs /\ job'.pc = "prune" /\ job'.d = job.d /\ job'.keep = keep
    BY <2>3, <2>4 DEF TypeOK, Jobs
  <2>6. QED
    BY <2>5 DEF keep
<1>3. QED
  BY <1>1, <1>2 DEF ReadRetained

(* Every call of the pipeline keeps every type.                            *)
LEMMA TypePipeline ==
    ASSUME TypeInv, PipelineStep
    PROVE  TypeInv'
<1> USE DEF TypeInv, JobKnown, At
<1>1. CASE Clone
  <2>1. job' \in Jobs /\ job'.pc \in {"build", "fail"} /\ job'.d = job.d /\ job'.old = job.old
    BY <1>1, GotoTyped DEF Clone, TypeOK, Pc
  <2>2. status' \in [Deployments -> Status] /\ mishaps' \in Nat
    BY <1>1, SetStatusTyped DEF Clone, TypeOK, Status
  <2>9. QED
    BY <1>1, <2>1, <2>2 DEF Clone, TypeOK, dbVars, queueVars, dockerVars, ctxVars, histVars
<1>2. CASE Build
  <2>1. /\ job' \in Jobs /\ job'.pc = "run" /\ job'.d = job.d
        /\ status' \in [Deployments -> Status] /\ mishaps' \in Nat
    BY <1>2, ImageReadyTyped DEF Build, Image
  <2>2. QED
    BY <1>2, <2>1 DEF Build, TypeOK, dbVars, queueVars, dockerVars, ctxVars, histVars
<1>3. CASE BuildFails
  <2>1. job' \in Jobs /\ job'.pc \in {"fail"} /\ job'.d = job.d /\ job'.old = job.old
    BY <1>3, GotoTyped DEF BuildFails, TypeOK, Pc
  <2>2. container' \in [Deployments -> ContainerState]
    BY <1>3 DEF BuildFails, TypeOK, ContainerState
  <2>9. QED
    BY <1>3, <2>1, <2>2 DEF BuildFails, TypeOK, dbVars, queueVars, dockerVars, ctxVars, histVars
<1>4. CASE Pull
  <2>1. CASE ImageReady(Registry)
    <3>1. /\ job' \in Jobs /\ job'.pc = "run" /\ job'.d = job.d
          /\ status' \in [Deployments -> Status] /\ mishaps' \in Nat
      BY <1>4, <2>1, ImageReadyTyped DEF Pull, Image
    <3>2. QED
      BY <1>4, <3>1 DEF Pull, TypeOK, dbVars, queueVars, dockerVars, ctxVars, histVars
  <2>2. CASE Goto("fail") /\ UNCHANGED <<status, mishaps>>
    <3>1. job' \in Jobs /\ job'.pc = "fail" /\ job'.d = job.d
      BY <2>2, GotoTyped DEF TypeOK, Pc
    <3>2. QED
      BY <1>4, <2>2, <3>1 DEF Pull, TypeOK, dbVars, queueVars, dockerVars, ctxVars, histVars
  <2>3. QED
    BY <1>4, <2>1, <2>2 DEF Pull
<1>5. CASE CreateCandidate
  <2>1. job' \in Jobs /\ job'.pc \in {"start"} /\ job'.d = job.d /\ job'.old = job.old
    BY <1>5, GotoTyped DEF CreateCandidate, TypeOK, Pc
  <2>2. container' \in [Deployments -> ContainerState]
    BY <1>5 DEF CreateCandidate, TypeOK, ContainerState
  <2>9. QED
    BY <1>5, <2>1, <2>2 DEF CreateCandidate, TypeOK, dbVars, queueVars, dockerVars, ctxVars, histVars
<1>6. CASE CreateFails
  <2>1. job' \in Jobs /\ job'.pc \in {"fail"} /\ job'.d = job.d /\ job'.old = job.old
    BY <1>6, GotoTyped DEF CreateFails, TypeOK, Pc
  <2>2. container' \in [Deployments -> ContainerState] /\ mishaps' \in Nat
    BY <1>6 DEF CreateFails, TypeOK, ContainerState, CallFails, Mishap
  <2>9. QED
    BY <1>6, <2>1, <2>2 DEF CreateFails, TypeOK, dbVars, queueVars, dockerVars, ctxVars, histVars
<1>6a. CASE StartCandidate
  <2>1. job' \in Jobs /\ job'.pc \in {"gate"} /\ job'.d = job.d /\ job'.old = job.old
    BY <1>6a, GotoTyped DEF StartCandidate, TypeOK, Pc
  <2>2. container' \in [Deployments -> ContainerState]
    BY <1>6a DEF StartCandidate, TypeOK, ContainerState
  <2>9. QED
    BY <1>6a, <2>1, <2>2 DEF StartCandidate, TypeOK, dbVars, queueVars, dockerVars, ctxVars, histVars
<1>6b. CASE StartFails
  <2>1. job' \in Jobs /\ job'.pc \in {"fail"} /\ job'.d = job.d /\ job'.old = job.old
    BY <1>6b, GotoTyped DEF StartFails, TypeOK, Pc
  <2>2. /\ container' \in [Deployments -> ContainerState]
        /\ abandoned' \in SUBSET Deployments /\ mishaps' \in Nat
    BY <1>6b, RemoveTyped DEF StartFails
  <2>9. QED
    BY <1>6b, <2>1, <2>2 DEF StartFails, TypeOK, dbVars, queueVars, dockerVars, ctxVars, histVars
<1>7. CASE GatePasses
  <2>1. job' \in Jobs /\ job'.pc \in {"delete", "record"} /\ job'.d = job.d /\ job'.old = job.old
    BY <1>7, GotoTyped DEF GatePasses, TypeOK, Pc
  <2>9. QED
    BY <1>7, <2>1 DEF GatePasses, TypeOK, dbVars, queueVars, dockerVars, ctxVars, histVars
<1>8. CASE GateFails
  <2>1. job' \in Jobs /\ job'.pc \in {"rollback"} /\ job'.d = job.d /\ job'.old = job.old
    BY <1>8, GotoTyped DEF GateFails, TypeOK, Pc
  <2>9. QED
    BY <1>8, <2>1 DEF GateFails, TypeOK, dbVars, queueVars, dockerVars, ctxVars, histVars
<1>9. CASE RollbackCandidate
  <2>1. job' \in Jobs /\ job'.pc \in {"fail"} /\ job'.d = job.d /\ job'.old = job.old
    BY <1>9, GotoTyped DEF RollbackCandidate, TypeOK, Pc
  <2>2. /\ container' \in [Deployments -> ContainerState]
        /\ abandoned' \in SUBSET Deployments /\ mishaps' \in Nat
    BY <1>9, RemoveTyped DEF RollbackCandidate
  <2>9. QED
    BY <1>9, <2>1, <2>2 DEF RollbackCandidate, TypeOK, dbVars, queueVars, dockerVars, ctxVars, histVars
<1>10. CASE DeleteRoute
  <2>1. job' \in Jobs /\ job'.pc \in {"post"} /\ job'.d = job.d /\ job'.old = job.old
    BY <1>10, GotoTyped DEF DeleteRoute, TypeOK, Pc
  <2>2. routes \in Seq(Deployments) /\ lapses \in SUBSET {"route", "record", "status"}
        /\ mishaps \in Nat
    BY DEF TypeOK
  <2>3. routes' \in Seq(Deployments)
    <3>1. CASE UNCHANGED routes
      BY <2>2, <3>1
    <3>2. CASE \E i \in DOMAIN routes :
              routes' = SubSeq(routes, 1, i - 1) \o SubSeq(routes, i + 1, Len(routes))
      BY <2>2, <3>2, RemoveOne
    <3>3. QED
      BY <1>10, <3>1, <3>2 DEF DeleteRoute
  <2>4. lapses' \in SUBSET {"route", "record", "status"} /\ mishaps' \in Nat
    <3>1. \/ UNCHANGED <<lapses, mishaps>>
          \/ lapses' = lapses \union {"route"} /\ Mishap
      BY <1>10 DEF DeleteRoute
    <3>2. CASE UNCHANGED <<lapses, mishaps>>
      BY <2>2, <3>2
    <3>3. CASE lapses' = lapses \union {"route"} /\ Mishap
      <4>1. lapses' \in SUBSET {"route", "record", "status"}
        BY <2>2, <3>3
      <4>2. mishaps' \in Nat
        BY <2>2, <3>3 DEF Mishap
      <4>3. QED
        BY <4>1, <4>2
    <3>4. QED
      BY <3>1, <3>2, <3>3
  <2>9. QED
    BY <1>10, <2>1, <2>3, <2>4 DEF DeleteRoute, TypeOK, dbVars, queueVars, dockerVars, ctxVars, histVars
<1>11. CASE PostRoute
  <2>1. job' \in Jobs /\ job'.pc \in {"record"} /\ job'.d = job.d /\ job'.old = job.old
    BY <1>11, GotoTyped DEF PostRoute, TypeOK, Pc
  <2>2. routes \in Seq(Deployments) /\ job.d \in Deployments
    BY <1>11 DEF PostRoute, TypeOK
  <2>3. routes' \in Seq(Deployments)
    <3>1. routes' = Append(routes, job.d) \/ routes' = routes
      BY <1>11 DEF PostRoute
    <3>2. QED
      BY <2>2, <3>1, AppendOne
  <2>4. lapses' \in SUBSET {"route", "record", "status"} /\ mishaps' \in Nat
    <3>1. lapses' \in {lapses, lapses \union {"route"}}
      BY <1>11 DEF PostRoute
    <3>2. mishaps' = mishaps \/ Mishap
      BY <1>11 DEF PostRoute
    <3>3. lapses \in SUBSET {"route", "record", "status"} /\ mishaps \in Nat
      BY DEF TypeOK
    <3>4. mishaps' \in Nat
      BY <3>2, <3>3 DEF Mishap
    <3>5. QED
      BY <3>1, <3>3, <3>4
  <2>9. QED
    BY <1>11, <2>1, <2>3, <2>4 DEF PostRoute, TypeOK, dbVars, queueVars, dockerVars, ctxVars, histVars
<1>12. CASE Record
  <2>1. /\ job' \in Jobs /\ job'.d = job.d /\ job'.old = job.old
        /\ job'.pc = IF job.old = None THEN "done" ELSE "stopOld"
    BY <1>12, GotoTyped DEF Record, TypeOK, Pc
  <2>2. job.old \in Deployments \union {None}
    BY DEF TypeOK, Jobs
  <2>3. app' \in [source : Source, domain : BOOLEAN, container : Deployments \union {None}]
    BY <1>12 DEF Record, TypeOK
  <2>4. /\ abandoned' \in SUBSET Deployments /\ mishaps' \in Nat
        /\ lapses' \in SUBSET {"route", "record", "status"}
    BY <1>12 DEF Record, TypeOK, Mishap
  <2>5. QED
    BY <1>12, <2>1, <2>2, <2>3, <2>4 DEF Record, TypeOK, dbVars, queueVars, dockerVars, ctxVars, histVars
<1>13. CASE StopOld
  <2>1. job' \in Jobs /\ job'.pc \in {"removeOld"} /\ job'.d = job.d /\ job'.old = job.old
    BY <1>13, GotoTyped DEF StopOld, TypeOK, Pc
  <2>2. container' \in [Deployments -> ContainerState] /\ mishaps' \in Nat
    BY <1>13 DEF StopOld, TypeOK, ContainerState, CallFails, Mishap
  <2>9. QED
    BY <1>13, <2>1, <2>2 DEF StopOld, TypeOK, dbVars, queueVars, dockerVars, ctxVars, histVars
<1>14. CASE RemoveOld
  <2>1. job' \in Jobs /\ job'.pc \in {"done"} /\ job'.d = job.d /\ job'.old = job.old
    BY <1>14, GotoTyped DEF RemoveOld, TypeOK, Pc
  <2>2. /\ container' \in [Deployments -> ContainerState]
        /\ abandoned' \in SUBSET Deployments /\ mishaps' \in Nat
    BY <1>14, RemoveTyped DEF RemoveOld
  <2>9. QED
    BY <1>14, <2>1, <2>2 DEF RemoveOld, TypeOK, dbVars, queueVars, dockerVars, ctxVars, histVars
<1>15. CASE WriteSuccess
  <2>1. job' \in Jobs /\ job'.pc \in {"finish"} /\ job'.d = job.d /\ job'.old = job.old
    BY <1>15, GotoTyped DEF WriteSuccess, TypeOK, Pc
  <2>2. status' \in [Deployments -> Status] /\ mishaps' \in Nat
    BY <1>15, SetStatusTyped DEF WriteSuccess, TypeOK, Status
  <2>9. QED
    BY <1>15, <2>1, <2>2 DEF WriteSuccess, TypeOK, dbVars, queueVars, dockerVars, ctxVars, histVars
<1>16. CASE WriteImage
  <2>1. job' \in Jobs /\ job'.pc \in {"list"} /\ job'.d = job.d /\ job'.old = job.old
    BY <1>16, GotoTyped DEF WriteImage, TypeOK, Pc
  <2>2. imageName' \in [Deployments -> Image \union {None}] /\ mishaps' \in Nat
    BY <1>16 DEF WriteImage, TypeOK, Jobs, Mishap
  <2>9. QED
    BY <1>16, <2>1, <2>2 DEF WriteImage, TypeOK, dbVars, queueVars, dockerVars, ctxVars, histVars
<1>17. CASE ReadRetained
  <2>1. job' \in Jobs /\ (job'.pc = "idle" \/ (job'.pc = "prune" /\ job'.d = job.d))
    BY <1>17, RetainedRead, NoJobTyped
  <2>2. QED
    BY <1>17, <2>1 DEF ReadRetained, TypeOK, dbVars, queueVars, dockerVars, ctxVars, histVars
<1>18. CASE \E i \in Deployments : PruneImage(i)
  BY <1>18 DEF PruneImage, TypeOK, dbVars, queueVars, dockerVars, ctxVars, histVars
<1>19. CASE PruneEnds
  BY <1>19, NoJobTyped DEF PruneEnds, TypeOK, dbVars, queueVars, dockerVars, ctxVars, histVars
<1>20. CASE WriteFailure
  <2>1. status' \in [Deployments -> Status] /\ mishaps' \in Nat
    BY <1>20, SetStatusTyped DEF WriteFailure, Status
  <2>2. QED
    BY <1>20, <2>1, NoJobTyped DEF WriteFailure, TypeOK, dbVars, queueVars, dockerVars, ctxVars, histVars
<1>21. QED
  BY <1>1, <1>2, <1>3, <1>4, <1>5, <1>6, <1>6a, <1>6b, <1>7, <1>8, <1>9, <1>10, <1>11,
     <1>12, <1>13, <1>14, <1>15, <1>16, <1>17, <1>18, <1>19, <1>20
     DEF PipelineStep
-----------------------------------------------------------------------------
(* TypeInv is inductive.                                                   *)
LEMMA NextTyped ==
    ASSUME TypeInv, [Next]_vars
    PROVE  TypeInv'
<1> USE DEF TypeInv, JobKnown, At
<1>1. CASE Request
  <2>1. TypeOK'
    BY <1>1, TypeRequests
  <2>2. UNCHANGED job
    BY <1>1 DEF Request, Deploy, StartDeployment, Rollback, StopContainer,
               RestartContainer
  <2>3. QED
    BY <2>1, <2>2
<1>2. CASE \E d \in Deployments : Begin(d)
  <2>1. PICK d \in Deployments : Begin(d)
    BY <1>2
  <2>2. FirstStep(d) \in {"clone", "build", "pull"}
    BY DEF FirstStep
  <2>3. /\ job' \in Jobs /\ job'.pc \in {"clone", "build", "pull"}
        /\ job'.d = d
    BY <2>1, <2>2 DEF Begin, NoJob, Jobs, Pc
  <2>4. status' \in [Deployments -> Status] /\ mishaps' \in Nat
    BY <2>1, SetStatusTyped DEF Begin, Status
  <2>5. QED
    BY <2>1, <2>3, <2>4 DEF Begin, TypeOK, dockerVars, histVars
<1>3. CASE \E d \in Deployments : BeginWithoutLog(d)
  BY <1>3 DEF BeginWithoutLog, TypeOK, Mishap, dbVars, dockerVars, ctxVars, histVars
<1>4. CASE PipelineStep
  BY <1>4, TypePipeline
<1>5. CASE Timeout
  BY <1>5 DEF Timeout, TypeOK, Mishap, dbVars, queueVars, dockerVars, histVars
<1>6. CASE Stop
  BY <1>6 DEF Stop, TypeOK, Mishap, dbVars, queueVars, dockerVars, histVars
<1>7. CASE Crash
  <2>1. InFlight \subseteq Deployments
    BY DEF InFlight
  <2>2. lapses' \in SUBSET {"route", "record", "status"}
    BY <1>7 DEF Crash, TypeOK
  <2>3. abandoned' \in SUBSET Deployments /\ mishaps' \in Nat
    BY <1>7, <2>1 DEF Crash, TypeOK, Mishap
  <2>4. QED
    BY <1>7, <2>2, <2>3, NoJobTyped DEF Crash, TypeOK, dbVars, dockerVars
<1>8. CASE UNCHANGED vars
  BY <1>8 DEF vars, TypeOK, dbVars, queueVars, dockerVars, ctxVars, histVars
<1>9. QED
  BY <1>1, <1>2, <1>3, <1>4, <1>5, <1>6, <1>7, <1>8 DEF Next

(* The state has its type in every reachable state: no handler and no      *)
(* failure writes a value the code has no name for.                        *)
THEOREM TypeCorrect == Spec => []TypeOK
<1>1. Init => TypeInv
  BY TypeInit DEF TypeInv, JobKnown, Init, At, NoJob
<1>2. TypeInv /\ [Next]_vars => TypeInv'
  BY NextTyped
<1>3. TypeInv => TypeOK
  BY DEF TypeInv
<1>4. QED
  BY <1>1, <1>2, <1>3, PTL DEF Spec
-----------------------------------------------------------------------------
(* What the steps before have established by the time the pipeline is at   *)
(* each of its calls.                                                      *)
Stages ==
    /\ job.pc \in {"delete", "post", "record", "stopOld", "removeOld", "done"}
          => job.d \in passed
    /\ job.pc \in {"run", "start", "gate", "rollback", "delete", "post", "record"}
          => job.old \in {app.container, None}
    /\ job.pc \in {"stopOld", "removeOld", "done"}
          => job.d \in {app.container} \union abandoned
    /\ job.pc \in {"clone", "build", "pull"} => job.old = None /\ ~job.routed
    /\ job.pc \in {"delete", "post"} => job.routed
    /\ job.pc \in {"run", "start", "gate", "rollback", "delete", "post", "record"}
          => (job.routed => app.domain)

SafeInv == TypeInv /\ Stages /\ NoOrphans

(* No call of the pipeline breaks what the next one relies on, or leaves a *)
(* container unaccounted for.                                              *)
LEMMA SafePipeline ==
    ASSUME SafeInv, PipelineStep
    PROVE  Stages' /\ NoOrphans'
<1> USE DEF SafeInv, TypeInv, TypeOK, JobKnown, At, Stages, NoOrphans, InFlight, Exists
<1>1. CASE Clone
  <2>1. /\ job'.pc \in {"build", "fail"} /\ job'.d = job.d /\ job'.old = job.old
        /\ job'.routed = job.routed
    BY <1>1, GotoTyped DEF Clone, TypeOK, Pc
  <2>2. QED
    BY <1>1, <2>1 DEF Clone, dbVars, queueVars, dockerVars, ctxVars, histVars
<1>2. CASE Build
  <2>1. /\ job'.pc = "run" /\ job'.d = job.d
        /\ \/ job'.old = app.container /\ job'.routed = app.domain
           \/ job'.old = job.old /\ job'.routed = job.routed
    BY <1>2, ImageReadyTyped DEF Build, Image
  <2>2. QED
    BY <1>2, <2>1 DEF Build, dbVars, queueVars, dockerVars, ctxVars, histVars
<1>3. CASE BuildFails
  <2>1. /\ job'.pc = "fail" /\ job'.d = job.d /\ job'.old = job.old
        /\ job'.routed = job.routed
    BY <1>3, GotoTyped DEF BuildFails, TypeOK, Pc
  <2>2. QED
    BY <1>3, <2>1 DEF BuildFails, dbVars, queueVars, dockerVars, ctxVars, histVars
<1>4. CASE Pull
  <2>1. CASE Goto("fail")
    <3>1. job'.pc = "fail"
      BY <2>1, GotoTyped DEF Pc, TypeOK
    <3>2. QED
      BY <1>4, <2>1, <3>1 DEF Pull, dbVars, queueVars, dockerVars, ctxVars, histVars
  <2>2. CASE \E image \in Image : ImageReady(image)
    <3>1. /\ job'.pc = "run" /\ job'.d = job.d
          /\ \/ job'.old = app.container /\ job'.routed = app.domain
             \/ job'.old = job.old /\ job'.routed = job.routed
      BY <1>4, <2>2, ImageReadyTyped DEF Pull
    <3>2. QED
      BY <1>4, <3>1 DEF Pull, dbVars, queueVars, dockerVars, ctxVars, histVars
  <2>3. QED
    BY <1>4, <2>1, <2>2 DEF Pull, Image, TypeOK
<1>5. CASE CreateCandidate
  <2>1. /\ job'.pc = "start" /\ job'.d = job.d /\ job'.old = job.old
        /\ job'.routed = job.routed
    BY <1>5, GotoTyped DEF CreateCandidate, TypeOK, Pc
  <2>2. QED
    BY <1>5, <2>1 DEF CreateCandidate, dbVars, queueVars, dockerVars, ctxVars, histVars
<1>6. CASE CreateFails
  <2>1. /\ job'.pc = "fail" /\ job'.d = job.d /\ job'.old = job.old
        /\ job'.routed = job.routed
    BY <1>6, GotoTyped DEF CreateFails, TypeOK, Pc
  <2>2. QED
    BY <1>6, <2>1 DEF CreateFails, dbVars, queueVars, dockerVars, ctxVars, histVars
<1>6a. CASE StartCandidate
  <2>1. /\ job'.pc = "gate" /\ job'.d = job.d /\ job'.old = job.old
        /\ job'.routed = job.routed
    BY <1>6a, GotoTyped DEF StartCandidate, TypeOK, Pc
  <2>2. QED
    BY <1>6a, <2>1 DEF StartCandidate, dbVars, queueVars, dockerVars, ctxVars, histVars
<1>6b. CASE StartFails
  <2>1. /\ job'.pc = "fail" /\ job'.d = job.d /\ job'.old = job.old
        /\ job'.routed = job.routed
    BY <1>6b, GotoTyped DEF StartFails, TypeOK, Pc
  <2>2. QED
    BY <1>6b, <2>1 DEF StartFails, RemoveOrAbandon, dbVars, queueVars, dockerVars, ctxVars, histVars
<1>7. CASE GatePasses
  <2>1. /\ job'.pc = (IF job.routed THEN "delete" ELSE "record")
        /\ job'.d = job.d /\ job'.old = job.old
        /\ job'.routed = job.routed
    <3>1. (IF job.routed THEN "delete" ELSE "record") \in Pc
      BY DEF Pc
    <3>2. QED
      BY <1>7, <3>1, GotoTyped DEF GatePasses
  <2>2. /\ UNCHANGED <<app, container, abandoned>>
        /\ passed' = passed \union {job.d} /\ job.pc = "gate"
    BY <1>7 DEF GatePasses, dbVars, queueVars, dockerVars, ctxVars, histVars
  <2>3. Stages'
    BY <2>1, <2>2
  <2>4. InFlight' = InFlight
    BY <2>1, <2>2
  <2>5. QED
    BY <2>2, <2>3, <2>4
<1>8. CASE GateFails
  <2>1. /\ job'.pc = "rollback" /\ job'.d = job.d /\ job'.old = job.old
        /\ job'.routed = job.routed
    BY <1>8, GotoTyped DEF GateFails, TypeOK, Pc
  <2>2. QED
    BY <1>8, <2>1 DEF GateFails, dbVars, queueVars, dockerVars, ctxVars, histVars
<1>9. CASE RollbackCandidate
  <2>1. /\ job'.pc = "fail" /\ job'.d = job.d /\ job'.old = job.old
        /\ job'.routed = job.routed
    BY <1>9, GotoTyped DEF RollbackCandidate, TypeOK, Pc
  <2>2. QED
    BY <1>9, <2>1 DEF RollbackCandidate, RemoveOrAbandon, dbVars, queueVars, dockerVars, ctxVars, histVars
<1>10. CASE DeleteRoute
  <2>1. /\ job'.pc = "post" /\ job'.d = job.d /\ job'.old = job.old
        /\ job'.routed = job.routed
    BY <1>10, GotoTyped DEF DeleteRoute, TypeOK, Pc
  <2>2. QED
    BY <1>10, <2>1 DEF DeleteRoute, dbVars, queueVars, dockerVars, ctxVars, histVars
<1>11. CASE PostRoute
  <2>1. /\ job'.pc = "record" /\ job'.d = job.d /\ job'.old = job.old
        /\ job'.routed = job.routed
    BY <1>11, GotoTyped DEF PostRoute, TypeOK, Pc
  <2>2. QED
    BY <1>11, <2>1 DEF PostRoute, dbVars, queueVars, dockerVars, ctxVars, histVars
<1>12. CASE Record
  <2>1. /\ job'.pc = (IF job.old = None THEN "done" ELSE "stopOld")
        /\ job'.d = job.d /\ job'.old = job.old
        /\ job'.routed = job.routed
    <3>1. (IF job.old = None THEN "done" ELSE "stopOld") \in Pc
      BY DEF Pc
    <3>2. QED
      BY <1>12, <3>1, GotoTyped DEF Record
  <2>2. /\ job.pc = "record" /\ UNCHANGED <<container, passed>>
        /\ \/ /\ app'.container = job.d
              /\ abandoned' = abandoned \union ({app.container} \ {job.old, None})
           \/ app' = app /\ abandoned' = abandoned \union {job.d}
    BY <1>12 DEF Record, dbVars, queueVars, dockerVars, ctxVars, histVars
  <2>3. Stages'
    BY <2>1, <2>2
  <2>4. InFlight = {job.d} /\ job.old \in {app.container, None}
    BY <2>2
  <2>5. InFlight' \union {None} = {job.old, None}
    BY <2>1
  <2>6. None \notin Deployments
    BY PipelineAssumption
  <2>7. QED
    BY <2>2, <2>3, <2>4, <2>5, <2>6
<1>13. CASE StopOld
  <2>1. /\ job'.pc = "removeOld" /\ job'.d = job.d /\ job'.old = job.old
        /\ job'.routed = job.routed
    BY <1>13, GotoTyped DEF StopOld, TypeOK, Pc
  <2>2. QED
    BY <1>13, <2>1 DEF StopOld, dbVars, queueVars, dockerVars, ctxVars, histVars
<1>14. CASE RemoveOld
  <2>1. /\ job'.pc = "done" /\ job'.d = job.d /\ job'.old = job.old
        /\ job'.routed = job.routed
    BY <1>14, GotoTyped DEF RemoveOld, TypeOK, Pc
  <2>2. QED
    BY <1>14, <2>1 DEF RemoveOld, RemoveOrAbandon, dbVars, queueVars, dockerVars, ctxVars, histVars
<1>15. CASE WriteSuccess
  <2>1. /\ job'.pc = "finish" /\ job'.d = job.d /\ job'.old = job.old
        /\ job'.routed = job.routed
    BY <1>15, GotoTyped DEF WriteSuccess, TypeOK, Pc
  <2>2. QED
    BY <1>15, <2>1 DEF WriteSuccess, dbVars, queueVars, dockerVars, ctxVars, histVars
<1>16. CASE WriteImage
  <2>1. /\ job'.pc = "list" /\ job'.d = job.d /\ job'.old = job.old
        /\ job'.routed = job.routed
    BY <1>16, GotoTyped DEF WriteImage, TypeOK, Pc
  <2>2. QED
    BY <1>16, <2>1 DEF WriteImage, dbVars, queueVars, dockerVars, ctxVars, histVars
<1>17. CASE ReadRetained
  <2>1. job'.pc \in {"prune", "idle"}
    BY <1>17, NoJobTyped, RetainedRead
  <2>2. QED
    BY <1>17, <2>1 DEF ReadRetained, dbVars, queueVars, dockerVars, ctxVars, histVars
<1>18. CASE \E i \in Deployments : PruneImage(i)
  BY <1>18 DEF PruneImage, dbVars, queueVars, dockerVars, ctxVars, histVars
<1>19. CASE PruneEnds
  BY <1>19, NoJobTyped DEF PruneEnds, dbVars, queueVars, dockerVars, ctxVars, histVars
<1>20. CASE WriteFailure
  BY <1>20, NoJobTyped DEF WriteFailure, dbVars, queueVars, dockerVars, ctxVars, histVars
<1>21. QED
  BY <1>1, <1>2, <1>3, <1>4, <1>5, <1>6, <1>6a, <1>6b, <1>7, <1>8, <1>9, <1>10,
     <1>11, <1>12, <1>13, <1>14, <1>15, <1>16, <1>17, <1>18, <1>19, <1>20
     DEF PipelineStep

(* SafeInv is inductive.                                                   *)
LEMMA SafeNext ==
    ASSUME SafeInv, [Next]_vars
    PROVE  SafeInv'
<1> USE DEF SafeInv, TypeInv, TypeOK, JobKnown, At, Stages, NoOrphans, InFlight, Exists
<1>0. TypeInv'
  BY NextTyped
<1>1. CASE Request
  <2>1. CASE StopContainer \/ RestartContainer
    BY <1>0, <2>1 DEF StopContainer, RestartContainer, dbVars, histVars
  <2>2. CASE ~(StopContainer \/ RestartContainer)
    <3>1. UNCHANGED <<app, container, job, passed, abandoned>>
      BY <1>1, <2>2 DEF Request, Deploy, StartDeployment, Rollback, dockerVars, histVars
    <3>2. QED
      BY <1>0, <3>1
  <2>3. QED
    BY <2>1, <2>2
<1>2. CASE \E d \in Deployments : Begin(d)
  <2>1. PICK d \in Deployments : Begin(d)
    BY <1>2
  <2>2. /\ job'.pc \in {"clone", "build", "pull"} /\ job.pc = "idle"
        /\ job'.old = None /\ ~job'.routed
    BY <2>1 DEF Begin, FirstStep, NoJob
  <2>3. QED
    BY <1>0, <2>1, <2>2 DEF Begin, dockerVars, histVars
<1>3. CASE \E d \in Deployments : BeginWithoutLog(d)
  BY <1>0, <1>3 DEF BeginWithoutLog, dbVars, dockerVars, histVars
<1>4. CASE PipelineStep
  BY <1>0, <1>4, SafePipeline
<1>5. CASE Timeout \/ Stop
  BY <1>0, <1>5 DEF Timeout, Stop, dbVars, dockerVars, histVars
<1>6. CASE Crash
  BY <1>0, <1>6, NoJobTyped DEF Crash, dbVars, dockerVars
<1>7. CASE UNCHANGED vars
  BY <1>0, <1>7 DEF vars, dbVars, dockerVars, histVars
<1>8. QED
  BY <1>1, <1>2, <1>3, <1>4, <1>5, <1>6, <1>7 DEF Next

(* It holds before the first request.                                      *)
LEMMA SafeInit == Init => SafeInv
<1> SUFFICES ASSUME Init PROVE SafeInv
  OBVIOUS
<1>1. TypeInv
  BY TypeInit DEF TypeInv, JobKnown, Init, At, NoJob
<1>2. Stages /\ NoOrphans
  BY DEF Init, Stages, NoOrphans, InFlight, Exists, NoJob
<1>3. QED
  BY <1>1, <1>2 DEF SafeInv

(* Whatever call fails, whenever the context ends or the process crashes,  *)
(* Execute leaves no container that nobody is accountable for.             *)
THEOREM NoContainerIsLost == Spec => []NoOrphans
<1>1. SafeInv /\ [Next]_vars => SafeInv'
  BY SafeNext
<1>2. SafeInv => NoOrphans
  BY DEF SafeInv
<1>3. QED
  BY <1>1, <1>2, SafeInit, PTL DEF Spec

(* Only three calls touch the route and the record.                        *)
LEMMA SwitchSteps ==
    ASSUME [Next]_vars, ~(DeleteRoute \/ PostRoute \/ Record)
    PROVE  UNCHANGED <<app, routes>>
BY DEF Next, vars, dbVars, Request, Deploy, Rollback, StartDeployment,
       StopContainer, RestartContainer, Begin, BeginWithoutLog, PipelineStep, Clone,
       Build, BuildFails, Pull, CreateCandidate, CreateFails,
       StartCandidate, StartFails, GatePasses, GateFails,
       RollbackCandidate, StopOld, RemoveOld, WriteSuccess, WriteImage,
       ReadRetained, PruneImage, PruneEnds, WriteFailure, Timeout, Stop, Crash

(* The gate cannot be passed by: neither a route nor the record names a    *)
(* container before its healthcheck has succeeded.                         *)
THEOREM GateHolds == Spec => []Gated
<1>1. Init => Gated
  BY DEF Init, Gated, Elems
<1>2. SafeInv /\ Gated /\ [Next]_vars => Gated'
  <2> SUFFICES ASSUME SafeInv, Gated, [Next]_vars PROVE Gated'
    OBVIOUS
  <2> USE DEF Gated
  <2>1. passed \subseteq passed'
    BY DEF Next, vars, dbVars, histVars, Request, Deploy, Rollback, StartDeployment,
           StopContainer, RestartContainer, Begin, BeginWithoutLog, PipelineStep, Clone,
           Build, BuildFails, Pull, CreateCandidate, CreateFails,
       StartCandidate, StartFails, GatePasses, GateFails,
           RollbackCandidate, DeleteRoute, PostRoute, Record, StopOld, RemoveOld,
           WriteSuccess, WriteImage, ReadRetained, PruneImage, PruneEnds, WriteFailure,
           Timeout, Stop, Crash
  <2>2. CASE DeleteRoute
    <3>1. routes \in Seq(Deployments) /\ UNCHANGED app
      BY <2>2 DEF DeleteRoute, SafeInv, TypeInv, TypeOK, dbVars
    <3>2. Elems(routes') \subseteq Elems(routes)
      <4>1. CASE UNCHANGED routes
        BY <4>1
      <4>2. CASE \E i \in DOMAIN routes :
                routes' = SubSeq(routes, 1, i - 1) \o SubSeq(routes, i + 1, Len(routes))
        BY <3>1, <4>2, RemoveOne
      <4>3. QED
        BY <2>2, <4>1, <4>2 DEF DeleteRoute
    <3>3. QED
      BY <2>1, <3>1, <3>2
  <2>3. CASE PostRoute
    <3>1. /\ job.d \in Deployments /\ job.d \in passed
          /\ routes \in Seq(Deployments) /\ UNCHANGED app
      BY <2>3 DEF PostRoute, SafeInv, TypeInv, TypeOK, JobKnown, Stages, At, dbVars
    <3>2. routes' = Append(routes, job.d) \/ routes' = routes
      BY <2>3 DEF PostRoute
    <3>3. Elems(routes') \subseteq Elems(routes) \union {job.d}
      <4>1. Elems(Append(routes, job.d)) = Elems(routes) \union {job.d}
        BY <3>1, AppendOne
      <4>2. QED
        BY <3>2, <4>1
    <3>4. QED
      BY <2>1, <3>1, <3>3
  <2>4. CASE Record
    <3>1. job.d \in passed /\ UNCHANGED routes
      BY <2>4 DEF Record, SafeInv, Stages, At
    <3>2. app'.container \in {app.container, job.d}
      BY <2>4 DEF Record, SafeInv, TypeInv, TypeOK
    <3>3. QED
      BY <2>1, <3>1, <3>2
  <2>5. CASE ~(DeleteRoute \/ PostRoute \/ Record)
    <3>1. UNCHANGED <<app, routes>>
      BY <2>5, SwitchSteps
    <3>2. QED
      BY <2>1, <3>1
  <2>6. QED
    BY <2>2, <2>3, <2>4, <2>5
<1>3. SafeInv /\ [Next]_vars => SafeInv'
  BY SafeNext
<1>4. QED
  BY <1>1, <1>2, <1>3, SafeInit, PTL DEF Spec

(* How the route and the record are related at each call of the switch,    *)
(* as long as neither a route nor a record was missed.                     *)
RouteStages ==
    lapses \intersect {"route", "record"} = {} =>
        /\ At("post") => routes = <<>>
        /\ At("record") => routes = IF job.routed THEN <<job.d>>
                                    ELSE IF app.domain /\ app.container # None
                                         THEN <<app.container>> ELSE <<>>

(* What was missed stays on record.                                        *)
LEMMA LapsesGrow ==
    ASSUME [Next]_vars
    PROVE  lapses \subseteq lapses'
BY DEF Next, vars, dbVars, histVars, Request, Deploy, Rollback, StartDeployment,
       StopContainer, RestartContainer, Begin, BeginWithoutLog, PipelineStep, Clone,
       Build, BuildFails, Pull, CreateCandidate, CreateFails,
       StartCandidate, StartFails, GatePasses, GateFails,
       RollbackCandidate, DeleteRoute, PostRoute, Record, StopOld, RemoveOld,
       WriteSuccess, WriteImage, ReadRetained, PruneImage, PruneEnds, WriteFailure,
       Timeout, Stop, Crash

(* The other steps neither enter the switch nor leave it unnoticed.        *)
LEMMA SwitchEntered ==
    ASSUME TypeInv, [Next]_vars, ~(GatePasses \/ DeleteRoute \/ PostRoute \/ Record)
    PROVE  \/ UNCHANGED job
           \/ job.pc \notin {"post", "record"} /\ job'.pc \notin {"post", "record"}
           \/ "route" \in lapses'
<1> USE DEF TypeInv, TypeOK, At
<1>1. CASE Request \/ Timeout \/ Stop \/ UNCHANGED vars
  BY <1>1 DEF Request, Deploy, Rollback, StartDeployment, StopContainer,
              RestartContainer, Timeout, Stop, vars
<1>2. CASE \E d \in Deployments : Begin(d) \/ BeginWithoutLog(d)
  <2>1. PICK d \in Deployments : Begin(d) \/ BeginWithoutLog(d)
    BY <1>2
  <2>2. CASE Begin(d)
    BY <2>2 DEF Begin, FirstStep, NoJob
  <2>3. CASE BeginWithoutLog(d)
    BY <2>3 DEF BeginWithoutLog
  <2>4. QED
    BY <2>1, <2>2, <2>3
<1>3. CASE PipelineStep
  <2>1. CASE \/ ReadRetained \/ PruneEnds \/ WriteFailure
             \/ \E i \in Deployments : PruneImage(i)
    BY <2>1, NoJobTyped, RetainedRead DEF ReadRetained, PruneEnds, WriteFailure, PruneImage
  <2>2. CASE Build \/ Pull
    <3>1. job.pc \in {"build", "pull"}
      BY <2>2 DEF Build, Pull
    <3>2. (\E image \in Image : ImageReady(image)) \/ Goto("fail")
      BY <2>2, <3>1 DEF Build, Pull, JobKnown, Image
    <3>3. job'.pc \in {"run", "fail"}
      BY <3>1, <3>2, GotoTyped, ImageReadyTyped DEF Pc, JobKnown
    <3>4. QED
      BY <3>1, <3>3
  <2>3. CASE \E pc \in Pc \ {"post", "record"} : Goto(pc)
    <3>1. job'.pc \notin {"post", "record"}
      BY <2>3, GotoTyped
    <3>2. job.pc \notin {"post", "record"}
      BY <1>3, <2>3 DEF PipelineStep, Clone, Build, BuildFails, Pull, CreateCandidate, CreateFails,
       StartCandidate, StartFails, GateFails, RollbackCandidate, StopOld, RemoveOld, WriteSuccess,
          WriteImage, ReadRetained, PruneImage, PruneEnds, WriteFailure
    <3>3. QED
      BY <3>1, <3>2
  <2>4. QED
    BY <1>3, <2>1, <2>2, <2>3 DEF PipelineStep, Clone, BuildFails, CreateCandidate, CreateFails,
       StartCandidate, StartFails, GateFails, RollbackCandidate, StopOld, RemoveOld, WriteSuccess,
       WriteImage, Pc
<1>4. CASE Crash
  BY <1>4, NoJobTyped DEF Crash
<1>5. QED
  BY <1>1, <1>2, <1>3, <1>4 DEF Next

(* Outside the switch the domain leads to the recorded container and to    *)
(* nothing else, as long as no call that switches it was missed.           *)
THEOREM RouteKeepsUp == Spec => []RouteFollowsRecord
<1> DEFINE Inv == SafeInv /\ RouteStages /\ RouteFollowsRecord
           Recorded == IF app.domain /\ app.container # None
                       THEN <<app.container>> ELSE <<>>
<1>1. Init => Inv
  <2> SUFFICES ASSUME Init PROVE Inv
    OBVIOUS
  <2>1. app.container = None /\ routes = <<>> /\ job.pc = "idle"
    BY DEF Init, NoJob
  <2>2. QED
    BY <2>1, SafeInit DEF RouteStages, RouteFollowsRecord, At
<1>2. Inv /\ [Next]_vars => Inv'
  <2> SUFFICES ASSUME Inv, [Next]_vars, lapses' \intersect {"route", "record"} = {}
               PROVE  RouteStages' /\ RouteFollowsRecord'
    BY SafeNext DEF RouteStages, RouteFollowsRecord
  <2>0. /\ TypeInv /\ Stages
        /\ At("post") => routes = <<>>
        /\ At("record") => routes = IF job.routed THEN <<job.d>> ELSE Recorded
        /\ job.pc \notin {"post", "record"} => routes = Recorded
    BY LapsesGrow DEF SafeInv, RouteStages, RouteFollowsRecord
  <2> HIDE DEF Recorded
  <2>1. CASE GatePasses
    <3>1. /\ job.pc = "gate" /\ UNCHANGED <<app, routes>>
          /\ Goto(IF job.routed THEN "delete" ELSE "record")
      BY <2>1 DEF GatePasses, At, dbVars
    <3>2. /\ job'.pc = (IF job.routed THEN "delete" ELSE "record")
          /\ job'.routed = job.routed
      <4>1. (IF job.routed THEN "delete" ELSE "record") \in Pc
        BY DEF Pc
      <4>2. QED
        BY <2>0, <3>1, <4>1, GotoTyped DEF TypeInv, TypeOK
    <3>3. routes = Recorded
      BY <2>0, <3>1
    <3>4. QED
      BY <3>1, <3>2, <3>3 DEF RouteStages, RouteFollowsRecord, Recorded, At
  <2>2. CASE DeleteRoute
    <3>1. job'.pc = "post"
      BY <2>0, <2>2, GotoTyped DEF DeleteRoute, TypeInv, TypeOK, Pc
    <3>2. routes' = <<>>
      <4>1. routes = <<>> \/ Len(routes) = 1
        BY <2>0, <2>2 DEF DeleteRoute, At, Recorded
      <4>2. CASE routes = <<>>
        BY <2>2, <4>2 DEF DeleteRoute
      <4>3. CASE Len(routes) = 1 /\ routes # <<>>
        <5>1. PICK i \in DOMAIN routes :
                 routes' = SubSeq(routes, 1, i - 1) \o SubSeq(routes, i + 1, Len(routes))
          BY <2>2, <4>3 DEF DeleteRoute
        <5>2. routes \in Seq(Deployments)
          BY <2>0 DEF TypeInv, TypeOK
        <5>3. i = 1
          BY <4>3, <5>2
        <5>4. QED
          BY <4>3, <5>1, <5>2, <5>3
      <4>4. QED
        BY <4>1, <4>2, <4>3
    <3>3. QED
      BY <3>1, <3>2 DEF RouteStages, RouteFollowsRecord, At
  <2>3. CASE PostRoute
    <3>1. job'.pc = "record" /\ job'.d = job.d /\ job'.routed = job.routed
      BY <2>0, <2>3, GotoTyped DEF PostRoute, TypeInv, TypeOK, Pc
    <3>2. job.routed /\ UNCHANGED app /\ routes = <<>>
      BY <2>0, <2>3 DEF PostRoute, At, Stages, dbVars
    <3>3. routes' = Append(<<>>, job.d)
      BY <2>3, <3>2 DEF PostRoute
    <3>4. QED
      BY <3>1, <3>2, <3>3 DEF RouteStages, RouteFollowsRecord, At
  <2>4. CASE Record
    <3>1. job'.pc \in {"done", "stopOld"}
      <4>1. (IF job.old = None THEN "done" ELSE "stopOld") \in Pc
        BY DEF Pc
      <4>2. QED
        BY <2>0, <2>4, <4>1, GotoTyped DEF Record, TypeInv, TypeOK
    <3>2. app'.container = job.d /\ app'.domain = app.domain /\ UNCHANGED routes
      BY <2>0, <2>4 DEF Record, TypeInv, TypeOK
    <3>3. /\ job.d # None /\ (app.domain <=> job.routed)
          /\ routes = IF job.routed THEN <<job.d>> ELSE Recorded
      BY <2>0, <2>4, PipelineAssumption DEF Record, At, TypeInv, JobKnown, Stages
    <3>4. QED
      BY <3>1, <3>2, <3>3 DEF RouteStages, RouteFollowsRecord, Recorded, At
  <2>5. CASE ~(GatePasses \/ DeleteRoute \/ PostRoute \/ Record)
    <3>1. UNCHANGED <<app, routes>>
      BY <2>5, SwitchSteps
    <3>2. \/ UNCHANGED job
          \/ job.pc \notin {"post", "record"} /\ job'.pc \notin {"post", "record"}
      BY <2>0, <2>5, SwitchEntered
    <3>3. QED
      BY <2>0, <3>1, <3>2 DEF RouteStages, RouteFollowsRecord, Recorded, At
  <2>6. QED
    BY <2>1, <2>2, <2>3, <2>4, <2>5
<1>3. Inv => RouteFollowsRecord
  OBVIOUS
<1>4. QED
  BY <1>1, <1>2, <1>3, PTL DEF Spec
-----------------------------------------------------------------------------
(* Success is written in one place only.                                   *)
LEMMA SuccessWritten ==
    ASSUME TypeInv, [Next]_vars, NEW d \in Deployments,
           status'[d] = "success", status[d] # "success"
    PROVE  WriteSuccess /\ d = job.d
<1> USE DEF TypeInv, TypeOK
<1>1. CASE Request
  BY <1>1 DEF Request, Deploy, Rollback, StartDeployment, StopContainer,
              RestartContainer, dbVars
<1>2. CASE \E e \in Deployments : Begin(e) \/ BeginWithoutLog(e)
  BY <1>2 DEF Begin, BeginWithoutLog, SetStatus, dbVars
<1>3. CASE PipelineStep
  <2>1. CASE Clone \/ Build \/ Pull \/ WriteFailure
    BY <2>1 DEF Clone, Build, Pull, WriteFailure, ImageReady, SetStatus
  <2>2. CASE WriteSuccess
    BY <2>2 DEF WriteSuccess, SetStatus
  <2>3. CASE ~(Clone \/ Build \/ Pull \/ WriteFailure \/ WriteSuccess)
    <3>1. UNCHANGED status
      BY <1>3, <2>3 DEF PipelineStep, dbVars, BuildFails, CreateCandidate, CreateFails,
       StartCandidate, StartFails,
         GatePasses, GateFails, RollbackCandidate, DeleteRoute, PostRoute, Record,
         StopOld, RemoveOld, WriteImage, ReadRetained, PruneImage, PruneEnds
    <3>2. QED
      BY <3>1
  <2>4. QED
    BY <2>1, <2>2, <2>3
<1>4. CASE Timeout \/ Stop \/ Crash \/ UNCHANGED vars
  BY <1>4 DEF Timeout, Stop, Crash, vars, dbVars
<1>5. QED
  BY <1>1, <1>2, <1>3, <1>4 DEF Next

(* "success" in a row means what its reader takes it for.                  *)
THEOREM SuccessMeansLive == Spec => SuccessIsEarned
<1> DEFINE A == \A d \in Deployments :
                   status'[d] = "success" /\ status[d] # "success"
                      => /\ d \in passed
                         /\ d \in {app.container} \union abandoned
                         /\ {c \in Deployments : Exists(c)}
                               \subseteq {d, app.container} \union abandoned
<1>1. SafeInv /\ [Next]_vars => A
  <2> SUFFICES ASSUME SafeInv, [Next]_vars, NEW d \in Deployments,
                      status'[d] = "success", status[d] # "success"
               PROVE  /\ d \in passed
                      /\ d \in {app.container} \union abandoned
                      /\ {c \in Deployments : Exists(c)}
                            \subseteq {d, app.container} \union abandoned
    OBVIOUS
  <2>1. job.pc = "done" /\ d = job.d
    BY SuccessWritten DEF SafeInv, WriteSuccess, At
  <2>2. QED
    BY <2>1 DEF SafeInv, Stages, NoOrphans, InFlight
<1>2. SafeInv /\ [Next]_vars => SafeInv'
  BY SafeNext
<1>3. QED
  BY <1>1, <1>2, SafeInit, PTL DEF Spec, SuccessIsEarned
-----------------------------------------------------------------------------
(* A deployment that has not run its candidate has left no trace, and the  *)
(* one in execution is not waiting any more.                               *)
Untouched(d) == container[d] = "absent" /\ d \notin passed /\ d # app.container

Trying == job.pc \in {"start", "gate", "rollback", "delete", "post", "record"}

Fresh ==
    /\ \A d \in Deployments \ Elems(created) : Untouched(d)
    /\ waiting \subseteq Elems(created)
    /\ \A d \in waiting : Untouched(d)
    /\ ~At("idle") => job.d \in Elems(created) \ waiting
    /\ job.pc \in {"clone", "build", "pull", "run"} => Untouched(job.d)
    /\ job.pc \in {"start", "gate", "rollback"} => job.d \notin passed
    /\ Trying => container[job.d] # "absent" /\ job.d # app.container
    /\ app.container \in passed \union {None}
    /\ job.pc \in {"stopOld", "removeOld"} => job.old # job.d /\ job.old \in passed
    /\ \A d \in passed : container[d] # "absent"

FreshInv == SafeInv /\ Fresh

(* Requests name new deployments only.                                     *)
LEMMA FreshRequests ==
    ASSUME FreshInv, Request
    PROVE  Fresh'
<1> USE DEF FreshInv, SafeInv, TypeInv, TypeOK, Fresh, Trying, Untouched, At
<1>1. CASE \E d \in Deployments : Deploy(d)
  <2>1. PICK d \in Deployments : Deploy(d)
    BY <1>1
  <2>2. Elems(created') = Elems(created) \union {d}
    BY <2>1, AppendOne DEF Deploy
  <2>3. QED
    BY <2>1, <2>2 DEF Deploy, dockerVars, histVars
<1>2. CASE \E d, t, s \in Deployments : Rollback(d, t, s)
  <2>1. PICK d \in Deployments, t \in Deployments, s \in Deployments : Rollback(d, t, s)
    BY <1>2
  <2>2. Elems(created') = Elems(created) \union {d}
    BY <2>1, AppendOne DEF Rollback
  <2>3. QED
    BY <2>1, <2>2 DEF Rollback, dockerVars, histVars
<1>3. CASE \E d \in Deployments : StartDeployment(d)
  <2>1. UNCHANGED <<app, created, waiting, container, job, passed>>
    BY <1>3 DEF StartDeployment, queueVars, dockerVars
  <2>2. QED
    BY <2>1 DEF Elems
<1>4. CASE StopContainer \/ RestartContainer
  <2>1. UNCHANGED <<app, created, waiting, job, passed>>
    BY <1>4 DEF StopContainer, RestartContainer, dbVars, queueVars, histVars
  <2>2. \A d \in Deployments : container'[d] = "absent" <=> container[d] = "absent"
    BY <1>4 DEF StopContainer, RestartContainer
  <2>3. Elems(created) \subseteq Deployments
    BY ElemsTyped
  <2>4. QED
    BY <2>1, <2>2, <2>3 DEF Elems, JobKnown
<1>5. QED
  BY <1>1, <1>2, <1>3, <1>4 DEF Request

(* The pipeline touches the container of the deployment it executes and    *)
(* the one it replaces, and no other.                                      *)
LEMMA FreshPipeline ==
    ASSUME FreshInv, PipelineStep
    PROVE  Fresh'
<1> USE DEF FreshInv, SafeInv, TypeInv, TypeOK, Fresh, Trying, Untouched, At, JobKnown
<1>0. UNCHANGED <<created, waiting, Elems(created)>> /\ ~At("idle")
  <2>1. UNCHANGED <<created, waiting>>
    BY DEF PipelineStep, dbVars, queueVars, Clone, Build, BuildFails, Pull,
       CreateCandidate, CreateFails, StartCandidate, StartFails, GatePasses, GateFails,
       RollbackCandidate, DeleteRoute, PostRoute, Record, StopOld, RemoveOld,
       WriteSuccess, WriteImage, ReadRetained, PruneImage, PruneEnds, WriteFailure
  <2>2. ~At("idle")
    BY DEF PipelineStep, Clone, Build, BuildFails, Pull,
       CreateCandidate, CreateFails, StartCandidate, StartFails, GatePasses, GateFails,
       RollbackCandidate, DeleteRoute, PostRoute, Record, StopOld, RemoveOld,
       WriteSuccess, WriteImage, ReadRetained, PruneImage, PruneEnds, WriteFailure
  <2>3. QED
    BY <2>1, <2>2 DEF Elems
<1>1. CASE Clone
  <2>1. job'.pc \in {"build", "fail"} /\ job'.d = job.d /\ job'.old = job.old
    BY <1>1, GotoTyped DEF Clone, Pc
  <2>2. QED
    BY <1>0, <1>1, <2>1 DEF Clone, dbVars, queueVars, dockerVars, ctxVars, histVars
<1>2. CASE Build
  <2>1. job'.pc = "run" /\ job'.d = job.d /\ UNCHANGED <<app, container, passed>>
    BY <1>2, ImageReadyTyped DEF Build, Image, dbVars, queueVars, dockerVars, ctxVars, histVars
  <2>2. job.pc = "build"
    BY <1>2 DEF Build
  <2>3. QED
    BY <1>0, <2>1, <2>2
<1>3. CASE BuildFails
  <2>1. job'.pc \in {"fail"} /\ job'.d = job.d /\ job'.old = job.old
    BY <1>3, GotoTyped DEF BuildFails, Pc
  <2>2. QED
    BY <1>0, <1>3, <2>1 DEF BuildFails, dbVars, queueVars, dockerVars, ctxVars, histVars
<1>4. CASE Pull
  <2>1. job.pc = "pull" /\ UNCHANGED <<app, container, passed>>
    BY <1>4 DEF Pull, dbVars, queueVars, dockerVars, ctxVars, histVars
  <2>2. (\E image \in Image : ImageReady(image)) \/ Goto("fail")
    BY <1>4 DEF Pull, Image
  <2>3. job'.pc \in {"run", "fail"} /\ job'.d = job.d
    BY <2>1, <2>2, GotoTyped, ImageReadyTyped DEF Pc
  <2>4. QED
    BY <1>0, <2>1, <2>3
<1>5. CASE CreateCandidate
  <2>1. job'.pc \in {"start"} /\ job'.d = job.d /\ job'.old = job.old
    BY <1>5, GotoTyped DEF CreateCandidate, Pc
  <2>2. QED
    BY <1>0, <1>5, <2>1 DEF CreateCandidate, dbVars, queueVars, dockerVars, ctxVars, histVars
<1>6. CASE CreateFails
  <2>1. job'.pc \in {"fail"} /\ job'.d = job.d /\ job'.old = job.old
    BY <1>6, GotoTyped DEF CreateFails, Pc
  <2>2. QED
    BY <1>0, <1>6, <2>1 DEF CreateFails, dbVars, queueVars, dockerVars, ctxVars, histVars
<1>6a. CASE StartCandidate
  <2>1. job'.pc \in {"gate"} /\ job'.d = job.d /\ job'.old = job.old
    BY <1>6a, GotoTyped DEF StartCandidate, Pc
  <2>2. QED
    BY <1>0, <1>6a, <2>1 DEF StartCandidate, dbVars, queueVars, dockerVars, ctxVars, histVars
<1>6b. CASE StartFails
  <2>1. job'.pc \in {"fail"} /\ job'.d = job.d /\ job'.old = job.old
    BY <1>6b, GotoTyped DEF StartFails, Pc
  <2>2. QED
    BY <1>0, <1>6b, <2>1 DEF StartFails, RemoveOrAbandon, dbVars, queueVars, dockerVars, ctxVars, histVars
<1>7. CASE GatePasses
  <2>1. /\ job'.pc = (IF job.routed THEN "delete" ELSE "record")
        /\ job'.d = job.d /\ job'.old = job.old
    <3>1. (IF job.routed THEN "delete" ELSE "record") \in Pc
      BY DEF Pc
    <3>2. QED
      BY <1>7, <3>1, GotoTyped DEF GatePasses
  <2>2. QED
    BY <1>0, <1>7, <2>1, PipelineAssumption DEF GatePasses, Stages, dbVars, queueVars, dockerVars, ctxVars, histVars
<1>8. CASE GateFails
  <2>1. job'.pc \in {"rollback"} /\ job'.d = job.d /\ job'.old = job.old
    BY <1>8, GotoTyped DEF GateFails, Pc
  <2>2. QED
    BY <1>0, <1>8, <2>1 DEF GateFails, dbVars, queueVars, dockerVars, ctxVars, histVars
<1>9. CASE RollbackCandidate
  <2>1. job'.pc \in {"fail"} /\ job'.d = job.d /\ job'.old = job.old
    BY <1>9, GotoTyped DEF RollbackCandidate, Pc
  <2>2. QED
    BY <1>0, <1>9, <2>1 DEF RollbackCandidate, RemoveOrAbandon, dbVars, queueVars, dockerVars, ctxVars, histVars
<1>10. CASE DeleteRoute
  <2>1. job'.pc \in {"post"} /\ job'.d = job.d /\ job'.old = job.old
    BY <1>10, GotoTyped DEF DeleteRoute, Pc
  <2>2. QED
    BY <1>0, <1>10, <2>1 DEF DeleteRoute, dbVars, queueVars, dockerVars, ctxVars, histVars
<1>11. CASE PostRoute
  <2>1. job'.pc \in {"record"} /\ job'.d = job.d /\ job'.old = job.old
    BY <1>11, GotoTyped DEF PostRoute, Pc
  <2>2. QED
    BY <1>0, <1>11, <2>1 DEF PostRoute, dbVars, queueVars, dockerVars, ctxVars, histVars
<1>12. CASE Record
  <2>1. /\ job'.pc = (IF job.old = None THEN "done" ELSE "stopOld")
        /\ job'.d = job.d /\ job'.old = job.old
    <3>1. (IF job.old = None THEN "done" ELSE "stopOld") \in Pc
      BY DEF Pc
    <3>2. QED
      BY <1>12, <3>1, GotoTyped DEF Record
  <2>2. QED
    BY <1>0, <1>12, <2>1, PipelineAssumption DEF Record, Stages, dbVars, queueVars, dockerVars, ctxVars, histVars
<1>13. CASE StopOld
  <2>1. job'.pc \in {"removeOld"} /\ job'.d = job.d /\ job'.old = job.old
    BY <1>13, GotoTyped DEF StopOld, Pc
  <2>2. QED
    BY <1>0, <1>13, <2>1 DEF StopOld, dbVars, queueVars, dockerVars, ctxVars, histVars
<1>14. CASE RemoveOld
  <2>1. job'.pc \in {"done"} /\ job'.d = job.d /\ job'.old = job.old
    BY <1>14, GotoTyped DEF RemoveOld, Pc
  <2>2. QED
    BY <1>0, <1>14, <2>1 DEF RemoveOld, RemoveOrAbandon, dbVars, queueVars, dockerVars, ctxVars, histVars
<1>15. CASE WriteSuccess
  <2>1. job'.pc \in {"finish"} /\ job'.d = job.d /\ job'.old = job.old
    BY <1>15, GotoTyped DEF WriteSuccess, Pc
  <2>2. QED
    BY <1>0, <1>15, <2>1 DEF WriteSuccess, dbVars, queueVars, dockerVars, ctxVars, histVars
<1>16. CASE WriteImage
  <2>1. job'.pc \in {"list"} /\ job'.d = job.d /\ job'.old = job.old
    BY <1>16, GotoTyped DEF WriteImage, Pc
  <2>2. QED
    BY <1>0, <1>16, <2>1 DEF WriteImage, dbVars, queueVars, dockerVars, ctxVars, histVars
<1>17. CASE ReadRetained
  <2>1. \/ job'.pc = "idle"
        \/ job'.pc = "prune" /\ job'.d = job.d
    BY <1>17, NoJobTyped, RetainedRead
  <2>2. QED
    BY <1>0, <1>17, <2>1 DEF ReadRetained, dbVars, queueVars, dockerVars, ctxVars, histVars
<1>18. CASE \E i \in Deployments : PruneImage(i)
  BY <1>0, <1>18 DEF PruneImage, dbVars, queueVars, dockerVars, ctxVars, histVars
<1>19. CASE PruneEnds
  BY <1>0, <1>19, NoJobTyped DEF PruneEnds, dbVars, queueVars, dockerVars, ctxVars, histVars
<1>20. CASE WriteFailure
  BY <1>0, <1>20, NoJobTyped DEF WriteFailure, dbVars, queueVars, dockerVars, ctxVars, histVars
<1>21. QED
  BY <1>1, <1>2, <1>3, <1>4, <1>5, <1>6, <1>6a, <1>6b, <1>7, <1>8, <1>9, <1>10,
     <1>11, <1>12, <1>13, <1>14, <1>15, <1>16, <1>17, <1>18, <1>19, <1>20
     DEF PipelineStep

(* FreshInv is inductive.                                                  *)
LEMMA FreshNext ==
    ASSUME FreshInv, [Next]_vars
    PROVE  FreshInv'
<1> USE DEF FreshInv, SafeInv, TypeInv, TypeOK, Fresh, Trying, Untouched, At, JobKnown
<1>0. SafeInv'
  BY SafeNext
<1>1. CASE Request
  BY <1>0, <1>1, FreshRequests
<1>2. CASE \E d \in Deployments : Begin(d)
  <2>1. PICK d \in Deployments : Begin(d)
    BY <1>2
  <2>2. job'.pc \in {"clone", "build", "pull"} /\ job'.d = d /\ job.pc = "idle"
    BY <2>1 DEF Begin, FirstStep, NoJob
  <2>3. UNCHANGED <<app, created, container, passed, Elems(created)>>
    BY <2>1 DEF Begin, dockerVars, histVars, Elems
  <2>4. QED
    BY <1>0, <2>1, <2>2, <2>3 DEF Begin
<1>3. CASE \E d \in Deployments : BeginWithoutLog(d)
  <2>1. PICK d \in Deployments : BeginWithoutLog(d)
    BY <1>3
  <2>2. UNCHANGED <<app, created, container, passed, job, Elems(created)>>
    BY <2>1 DEF BeginWithoutLog, dbVars, dockerVars, histVars, Elems
  <2>3. QED
    BY <1>0, <2>1, <2>2 DEF BeginWithoutLog
<1>4. CASE PipelineStep
  BY <1>0, <1>4, FreshPipeline
<1>5. CASE Timeout \/ Stop \/ UNCHANGED vars
  BY <1>0, <1>5 DEF Timeout, Stop, Elems, vars, dbVars, queueVars, dockerVars, histVars
<1>6. CASE Crash
  BY <1>0, <1>6, NoJobTyped DEF Crash, Elems, dbVars, dockerVars
<1>7. QED
  BY <1>1, <1>2, <1>3, <1>4, <1>5, <1>6 DEF Next

(* It holds before the first request.                                      *)
LEMMA FreshInit == Init => FreshInv
<1> SUFFICES ASSUME Init PROVE FreshInv
  OBVIOUS
<1>1. Elems(created) = {}
  BY DEF Init, Elems
<1>2. job.pc = "idle" /\ app.container = None
  BY DEF Init, NoJob
<1>3. QED
  BY <1>1, <1>2, SafeInit, PipelineAssumption
     DEF FreshInv, Fresh, Trying, Untouched, At, Init
-----------------------------------------------------------------------------
(* The pipeline implements BlueGreen.  A deployment's stage is read off    *)
(* the record, the call the pipeline is at and the container.              *)
StageIs(d) ==
    IF app.container = d THEN "live"
    ELSE IF Trying /\ d = job.d
         THEN IF d \in passed THEN "healthy" ELSE "candidate"
         ELSE IF container[d] = "absent" THEN "new" ELSE "gone"

(* In a reachable state the refinement mapping reads as StageIs.           *)
LEMMA StageRead ==
    FreshInv => \A d \in Deployments : Stage(d) = StageIs(d)
<1> SUFFICES ASSUME FreshInv, NEW d \in Deployments
             PROVE  Stage(d) = StageIs(d)
  OBVIOUS
<1>1. (d \in InFlight /\ d = job.d) <=> (Trying /\ d = job.d)
  BY DEF FreshInv, Fresh, InFlight, Trying
<1>2. QED
  BY <1>1 DEF Stage, StageIs

(* A step maps to one step of BlueGreen once it moves one deployment.      *)
LEMMA StageMoves ==
    ASSUME NEW d \in Deployments,
           \A e \in Deployments \ {d} : Stage(e)' = Stage(e)
    PROVE  /\ Stage(d)' = Stage(d)
              => UNCHANGED [e \in Deployments |-> Stage(e)]
           /\ /\ Stage(d) = "new" /\ Stage(d)' = "candidate"
              /\ \A e \in Deployments : Stage(e) \notin {"candidate", "healthy"}
              => Contract!Launch(d)
           /\ Stage(d) = "candidate" /\ Stage(d)' = "healthy" => Contract!Pass(d)
           /\ Stage(d) \in {"new", "candidate", "healthy"} /\ Stage(d)' = "gone"
              => Contract!Discard(d)
<1> DEFINE stage == [e \in Deployments |-> Stage(e)]
<1>1. \A e \in Deployments : stage[e] = Stage(e)
  OBVIOUS
<1>2. \A v : Stage(d)' = v => stage' = [stage EXCEPT ![d] = v]
  OBVIOUS
<1>3. QED
  BY <1>1, <1>2 DEF Contract!Launch, Contract!Pass, Contract!Discard

(* The steps that change no deployment's stage.                            *)
Silent ==
    /\ UNCHANGED <<app, passed>>
    /\ \A d \in Deployments : container'[d] = "absent" <=> container[d] = "absent"
    /\ \/ ~Trying /\ ~Trying'
       \/ Trying /\ Trying' /\ job'.d = job.d

(* They keep every stage.                                                  *)
LEMMA SilentKeepsStages ==
    ASSUME Silent
    PROVE  \A d \in Deployments : StageIs(d)' = StageIs(d)
BY DEF Silent, StageIs

(* All but seven actions are silent.                                       *)
LEMMA SilentSteps ==
    ASSUME FreshInv, [Next]_vars,
           ~(\/ CreateCandidate \/ CreateFails \/ StartFails \/ GatePasses
              \/ RollbackCandidate \/ Record \/ Crash)
    PROVE  Silent
<1> USE DEF FreshInv, SafeInv, TypeInv, TypeOK, JobKnown, At, Silent, Trying
<1>1. CASE Request \/ Timeout \/ Stop \/ UNCHANGED vars
  <2>1. UNCHANGED <<app, passed, job>>
    BY <1>1 DEF Request, Deploy, StartDeployment, Rollback, StopContainer,
       RestartContainer, Timeout, Stop, vars, dbVars, histVars
  <2>2. \A d \in Deployments : container'[d] = "absent" <=> container[d] = "absent"
    BY <1>1 DEF Request, Deploy, StartDeployment, Rollback, StopContainer,
       RestartContainer, Timeout, Stop, vars, dockerVars
  <2>3. QED
    BY <2>1, <2>2
<1>2. CASE \E d \in Deployments : Begin(d) \/ BeginWithoutLog(d)
  <2>1. PICK d \in Deployments : Begin(d) \/ BeginWithoutLog(d)
    BY <1>2
  <2>2. UNCHANGED <<app, passed, container>> /\ job.pc = "idle"
    BY <2>1 DEF Begin, BeginWithoutLog, dbVars, dockerVars, histVars
  <2>3. job'.pc \in {"idle", "clone", "build", "pull"}
    BY <2>1 DEF Begin, BeginWithoutLog, FirstStep, NoJob
  <2>4. QED
    BY <2>2, <2>3
<1>3. CASE Build \/ Pull
  <2>1. UNCHANGED <<app, passed, container>> /\ job.pc \in {"build", "pull"}
    BY <1>3 DEF Build, Pull, dbVars, dockerVars, histVars
  <2>2. (\E image \in Image : ImageReady(image)) \/ Goto("fail")
    BY <1>3, <2>1 DEF Build, Pull, Image
  <2>3. job'.pc \in {"run", "fail"}
    BY <2>1, <2>2, GotoTyped, ImageReadyTyped DEF Pc
  <2>4. QED
    BY <2>1, <2>3
<1>3a. CASE StartCandidate
  <2>1. /\ UNCHANGED <<app, passed>> /\ job.pc = "start"
        /\ container' = [container EXCEPT ![job.d] = "running"]
    BY <1>3a DEF StartCandidate, dbVars, histVars
  <2>2. job'.pc = "gate" /\ job'.d = job.d
    BY <1>3a, GotoTyped DEF StartCandidate, Pc
  <2>3. container[job.d] # "absent"
    BY <2>1 DEF Fresh
  <2>4. QED
    BY <2>1, <2>2, <2>3
<1>4. CASE GateFails \/ DeleteRoute \/ PostRoute
  <2>1. UNCHANGED <<app, passed, container>> /\ job.pc \in {"gate", "delete", "post"}
    BY <1>4 DEF GateFails, DeleteRoute, PostRoute, dbVars, dockerVars, histVars
  <2>2. job'.pc \in {"rollback", "post", "record"} /\ job'.d = job.d
    BY <1>4, GotoTyped DEF GateFails, DeleteRoute, PostRoute, Pc
  <2>3. QED
    BY <2>1, <2>2
<1>5. CASE Clone \/ WriteSuccess \/ WriteImage
  <2>1. /\ UNCHANGED <<app, passed, container>>
        /\ job.pc \in {"clone", "done", "finish"}
    BY <1>5 DEF Clone, WriteSuccess, WriteImage, dockerVars, histVars
  <2>2. job'.pc \in {"build", "fail", "finish", "list"}
    BY <1>5, GotoTyped DEF Clone, WriteSuccess, WriteImage, Pc
  <2>3. QED
    BY <2>1, <2>2
<1>6. CASE BuildFails \/ StopOld \/ RemoveOld
  <2>1. job.pc \in {"build", "stopOld", "removeOld"} /\ UNCHANGED <<app, passed>>
    BY <1>6 DEF BuildFails, StopOld, RemoveOld, dbVars, histVars
  <2>2. job'.pc \in {"fail", "removeOld", "done"}
    BY <1>6, GotoTyped DEF BuildFails, StopOld, RemoveOld, Pc
  <2>3. \A d \in Deployments : container'[d] = "absent" <=> container[d] = "absent"
    BY <1>6 DEF BuildFails, StopOld, RemoveOld, RemoveOrAbandon, Exists, Fresh
  <2>4. QED
    BY <2>1, <2>2, <2>3
<1>7. CASE ReadRetained \/ PruneEnds \/ WriteFailure \/ \E i \in Deployments : PruneImage(i)
  <2>1. UNCHANGED <<app, passed, container>> /\ job.pc \in {"list", "prune", "fail"}
    BY <1>7 DEF ReadRetained, PruneEnds, WriteFailure, PruneImage, dbVars, dockerVars,
       histVars
  <2>2. job'.pc \in {"prune", "idle"}
    BY <1>7, NoJobTyped, RetainedRead DEF PruneEnds, WriteFailure, PruneImage
  <2>3. QED
    BY <2>1, <2>2
<1>8. QED
  BY <1>1, <1>2, <1>3, <1>3a, <1>4, <1>5, <1>6, <1>7 DEF Next, PipelineStep

(* Every step is a step of BlueGreen or a stutter.                         *)
LEMMA BlueGreenStep ==
    ASSUME FreshInv, [Next]_vars,
           \A d \in Deployments : Stage(d) = StageIs(d) /\ Stage(d)' = StageIs(d)'
    PROVE  [Contract!Next]_[d \in Deployments |-> Stage(d)]
<1> USE DEF FreshInv, SafeInv, TypeInv, TypeOK, JobKnown, At, Fresh, Trying
<1>1. CASE CreateCandidate
  <2>0. PICK d \in Deployments : d = job.d
    BY <1>1 DEF CreateCandidate
  <2>1. /\ job.pc = "run" /\ job.d \in Deployments
        /\ UNCHANGED <<app, passed>>
        /\ container' = [container EXCEPT ![job.d] = "stopped"]
    BY <1>1 DEF CreateCandidate, dbVars, histVars
  <2>2. job'.pc = "start" /\ job'.d = job.d
    BY <1>1, GotoTyped DEF CreateCandidate, Pc
  <2>3. Stage(d) = "new" /\ Stage(d)' = "candidate"
    BY <2>0, <2>1, <2>2 DEF StageIs, Untouched
  <2>4. \A e \in Deployments \ {d} : Stage(e)' = Stage(e)
    BY <2>0, <2>1, <2>2 DEF StageIs
  <2>5. \A e \in Deployments : Stage(e) \notin {"candidate", "healthy"}
    BY <2>0, <2>1 DEF StageIs
  <2>6. Contract!Launch(d)
    BY <2>0, <2>1, <2>3, <2>4, <2>5, StageMoves
  <2>7. QED
    BY <2>0, <2>1, <2>6 DEF Contract!Next
<1>2. CASE CreateFails
  <2>0. PICK d \in Deployments : d = job.d
    BY <1>2 DEF CreateFails
  <2>1. /\ job.pc = "run" /\ job.d \in Deployments
        /\ UNCHANGED <<app, passed>>
        /\ \/ container' = container
           \/ container' = [container EXCEPT ![job.d] = "stopped"]
    BY <1>2 DEF CreateFails, dbVars, histVars
  <2>2. job'.pc = "fail" /\ job'.d = job.d
    BY <1>2, GotoTyped DEF CreateFails, Pc
  <2>3. Stage(d) = "new" /\ Stage(d)' \in {"new", "gone"}
    BY <2>0, <2>1, <2>2 DEF StageIs, Untouched
  <2>4. \A e \in Deployments \ {d} : Stage(e)' = Stage(e)
    BY <2>0, <2>1, <2>2 DEF StageIs
  <2>5. QED
    BY <2>0, <2>1, <2>3, <2>4, StageMoves DEF Contract!Next
<1>3. CASE GatePasses
  <2>0. PICK d \in Deployments : d = job.d
    BY <1>3 DEF GatePasses
  <2>1. /\ job.pc = "gate" /\ job.d \in Deployments
        /\ UNCHANGED <<app, container>>
        /\ passed' = passed \union {job.d}
    BY <1>3 DEF GatePasses, dbVars, dockerVars
  <2>2. job'.pc \in {"delete", "record"} /\ job'.d = job.d
    <3>1. Goto("delete") \/ Goto("record")
      BY <1>3 DEF GatePasses
    <3>2. QED
      BY <3>1, GotoTyped DEF Pc
  <2>3. Stage(d) = "candidate" /\ Stage(d)' = "healthy"
    BY <2>0, <2>1, <2>2 DEF StageIs
  <2>4. ASSUME NEW e \in Deployments \ {d} PROVE Stage(e)' = Stage(e)
    <3>1. e # job.d /\ e # job'.d
      BY <2>0, <2>2
    <3>2. StageIs(e)' = StageIs(e)
      BY <2>1, <3>1 DEF StageIs
    <3>3. QED
      BY <3>2
  <2>5. QED
    BY <2>0, <2>1, <2>3, <2>4, StageMoves DEF Contract!Next
<1>4. CASE RollbackCandidate \/ StartFails
  <2>0. PICK d \in Deployments : d = job.d
    BY <1>4 DEF RollbackCandidate, StartFails
  <2>1. /\ job.pc \in {"rollback", "start"} /\ job.d \in Deployments
        /\ UNCHANGED <<app, passed>>
        /\ \/ container' = container
           \/ container' = [container EXCEPT ![job.d] = "removed"]
    BY <1>4 DEF RollbackCandidate, StartFails, RemoveOrAbandon, dbVars
  <2>2. job'.pc = "fail" /\ job'.d = job.d
    BY <1>4, GotoTyped DEF RollbackCandidate, StartFails, Pc
  <2>3. Stage(d) = "candidate" /\ Stage(d)' = "gone"
    BY <2>0, <2>1, <2>2 DEF StageIs
  <2>4. \A e \in Deployments \ {d} : Stage(e)' = Stage(e)
    BY <2>0, <2>1, <2>2 DEF StageIs
  <2>5. QED
    BY <2>0, <2>1, <2>3, <2>4, StageMoves DEF Contract!Next
<1>5. CASE Record
  <2>0. PICK d \in Deployments : d = job.d
    BY <1>5 DEF Record
  <2>1. /\ job.pc = "record" /\ job.d \in Deployments /\ job.d \in passed
        /\ UNCHANGED <<container, passed>>
        /\ app'.container = job.d \/ app' = app
    BY <1>5 DEF Record, Stages, dockerVars
  <2>2. job'.pc \in {"done", "stopOld"} /\ job'.d = job.d
    <3>1. Goto("done") \/ Goto("stopOld")
      BY <1>5 DEF Record
    <3>2. QED
      BY <3>1, GotoTyped DEF Pc
  <2>3. Stage(d) = "healthy"
    BY <2>0, <2>1 DEF StageIs
  <2>4. CASE app'.container = job.d
    <3>1. \A e \in Deployments :
             Stage(e)' = IF e = d THEN "live"
                         ELSE IF Stage(e) = "live" THEN "gone" ELSE Stage(e)
      <4>0. app'.container = d /\ ~Trying'
        BY <2>0, <2>2, <2>4
      <4>1. Stage(d)' = "live"
        BY <4>0 DEF StageIs
      <4>2. ASSUME NEW e \in Deployments, e # d
            PROVE  Stage(e)' = IF Stage(e) = "live" THEN "gone" ELSE Stage(e)
        <5>1. Stage(e)' = IF container[e] = "absent" THEN "new" ELSE "gone"
          BY <2>1, <4>0, <4>2 DEF StageIs
        <5>2. e = app.container => container[e] # "absent"
          BY PipelineAssumption
        <5>3. Stage(e) = IF e = app.container THEN "live"
                         ELSE IF container[e] = "absent" THEN "new" ELSE "gone"
          BY <2>0, <4>2 DEF StageIs
        <5>4. QED
          BY <5>1, <5>2, <5>3
      <4>3. QED
        BY <4>1, <4>2
    <3>2. Contract!GoLive(d)
      BY <2>0, <2>1, <2>3, <3>1 DEF Contract!GoLive
    <3>3. QED
      BY <2>0, <2>1, <3>2 DEF Contract!Next
  <2>5. CASE app' = app
    <3>1. Stage(d)' = "gone"
      BY <2>0, <2>1, <2>2, <2>5 DEF StageIs
    <3>2. \A e \in Deployments \ {d} : Stage(e)' = Stage(e)
      BY <2>0, <2>1, <2>2, <2>5 DEF StageIs
    <3>3. QED
      BY <2>0, <2>1, <2>3, <3>1, <3>2, StageMoves DEF Contract!Next
  <2>6. QED
    BY <2>0, <2>1, <2>4, <2>5
<1>6. CASE Crash
  <2>1. job'.pc = "idle" /\ UNCHANGED <<app, passed, container>>
    BY <1>6, NoJobTyped DEF Crash, dbVars, dockerVars
  <2>2. CASE Trying
    <3>1. PICK d \in Deployments : d = job.d
      BY <2>2
    <3>2. Stage(d) \in {"candidate", "healthy"} /\ Stage(d)' = "gone"
      BY <2>1, <2>2, <3>1 DEF StageIs
    <3>3. \A e \in Deployments \ {d} : Stage(e)' = Stage(e)
      BY <2>1, <2>2, <3>1 DEF StageIs
    <3>4. QED
      BY <3>1, <3>2, <3>3, StageMoves DEF Contract!Next
  <2>3. CASE ~Trying
    <3>1. Silent
      BY <2>1, <2>3 DEF Silent
    <3>2. \A d \in Deployments : Stage(d)' = Stage(d)
      BY <3>1, SilentKeepsStages
    <3>3. QED
      BY <3>2
  <2>4. QED
    BY <2>2, <2>3
<1>7. CASE ~(\/ CreateCandidate \/ CreateFails \/ StartFails \/ GatePasses
              \/ RollbackCandidate \/ Record \/ Crash)
  <2>1. Silent
    BY <1>7, SilentSteps
  <2>2. \A d \in Deployments : Stage(d)' = Stage(d)
    BY <2>1, SilentKeepsStages
  <2>3. QED
    BY <2>2
<1>8. QED
  BY <1>1, <1>2, <1>3, <1>4, <1>5, <1>6, <1>7

(* The pipeline, with every failure, cancellation and crash, implements    *)
(* the blue/green contract.                                                *)
THEOREM ImplementsBlueGreen == Spec => BlueGreenSpec
<1>1. Init => Contract!Init
  <2> SUFFICES ASSUME Init, NEW d \in Deployments PROVE Stage(d) = "new"
    BY DEF Contract!Init
  <2>1. app.container = None /\ job.pc = "idle" /\ container[d] = "absent"
    BY DEF Init, NoJob
  <2>2. QED
    BY <2>1, PipelineAssumption DEF Stage, InFlight
<1>2. FreshInv /\ [Next]_vars => FreshInv'
  BY FreshNext
<1>3. FreshInv' => (\A d \in Deployments : Stage(d) = StageIs(d))'
  BY StageRead, PTL
<1>4. FreshInv /\ [Next]_vars => [Contract!Next]_[d \in Deployments |-> Stage(d)]
  <2> SUFFICES ASSUME FreshInv, [Next]_vars
               PROVE  [Contract!Next]_[d \in Deployments |-> Stage(d)]
    OBVIOUS
  <2>1. \A d \in Deployments : Stage(d) = StageIs(d)
    BY StageRead
  <2>2. \A d \in Deployments : Stage(d)' = StageIs(d)'
    BY <1>2, <1>3
  <2>3. QED
    BY <2>1, <2>2, BlueGreenStep
<1>5. QED
  BY <1>1, <1>2, <1>4, FreshInit, PTL DEF Spec, BlueGreenSpec, Contract!Spec
-----------------------------------------------------------------------------
(* A rollback job carries the image its row was created with, and gets     *)
(* past its image step only with one that can be pulled.  From the         *)
(* candidate on the job's image is there, until the job prunes; it is the  *)
(* deployment's own or the registry's, and so is that of every success.    *)
Unfinished == {"clone", "build", "pull", "run", "start", "gate", "rollback", "delete",
               "post", "record", "stopOld", "removeOld", "done", "fail"}
Deploying == {"run", "start", "gate", "rollback", "delete", "post", "record", "stopOld",
              "removeOld", "done", "finish", "list"}

Planned ==
    /\ \A i, j \in DOMAIN created : created[i] = created[j] => i = j
    /\ \A d \in Deployments \ Elems(created) : plan[d] = None /\ imageName[d] = None
    /\ \A d \in waiting : imageName[d] = plan[d] /\ status[d] # "success"
    /\ job.pc \in Unfinished \union {"finish"} => imageName[job.d] = plan[job.d]
    /\ job.pc \in Unfinished => status[job.d] # "success"
    /\ job.pc \in {"clone", "build"} => plan[job.d] = None
    /\ job.pc \in Deploying => plan[job.d] \in {None, Registry}
    /\ job.pc \in Deploying \ {"run"} => job.image \in images \union {Registry}
    /\ job.pc \in Deploying => job.image \in {job.d, Registry}
    /\ \A d \in Deployments : status[d] = "success" => imageName[d] \in {None, Registry, d}

PlanInv == FreshInv /\ Planned

(* A new row is the last in order of creation.                             *)
LEMMA AppendNew ==
    ASSUME PlanInv, NEW d \in Deployments, d \notin Elems(created),
           created' = Append(created, d)
    PROVE  /\ \A i, j \in DOMAIN created' : created'[i] = created'[j] => i = j
           /\ Elems(created') = Elems(created) \union {d}
           /\ \A i \in DOMAIN created : i \in DOMAIN created' /\ created'[i] = created[i]
<1> DEFINE n == Len(created)
<1>1. created \in Seq(Deployments)
  BY DEF PlanInv, FreshInv, SafeInv, TypeInv, TypeOK
<1>2. /\ n \in Nat /\ DOMAIN created = 1..n /\ DOMAIN created' = 1..(n + 1)
      /\ \A i \in 1..n : created'[i] = created[i]
      /\ created'[n + 1] = d
  BY <1>1, AppendProperties
<1>3. \A i \in 1..n : created[i] # d
  BY <1>2 DEF Elems
<1>4. \A i, j \in 1..n : created[i] = created[j] => i = j
  BY <1>2 DEF PlanInv, Planned
<1> HIDE DEF n
<1>5. ASSUME NEW i \in 1..(n + 1), NEW j \in 1..(n + 1), created'[i] = created'[j]
      PROVE  i = j
  <2>1. (i \in 1..n \/ i = n + 1) /\ (j \in 1..n \/ j = n + 1)
    BY <1>2
  <2>2. QED
    BY <1>2, <1>3, <1>4, <1>5, <2>1
<1>6. Elems(created') = Elems(created) \union {d}
  BY <1>1, AppendOne
<1>7. QED
  BY <1>2, <1>5, <1>6

(* A request writes only its new row, or a status that is no success.      *)
LEMMA PlannedRequests ==
    ASSUME PlanInv, Request
    PROVE  Planned'
<1> USE DEF PlanInv, FreshInv, SafeInv, TypeInv, TypeOK, JobKnown, At
<1>0. ~At("idle") => job.d \in Elems(created) /\ job.d \notin waiting
  BY DEF Fresh
<1>00. \A pc \in Unfinished \union Deploying : pc # "idle"
  BY DEF Unfinished, Deploying
<1>1. ASSUME NEW d \in Deployments, d \notin Elems(created), created' = Append(created, d),
             waiting' = waiting \union {d}, UNCHANGED <<job, images>>,
             \A e \in Deployments \ {d} :
                status'[e] = status[e] /\ imageName'[e] = imageName[e] /\ plan'[e] = plan[e],
             imageName'[d] = plan'[d], status'[d] # "success"
      PROVE  Planned'
  <2>1. /\ \A i, j \in DOMAIN created' : created'[i] = created'[j] => i = j
        /\ Elems(created') = Elems(created) \union {d}
    BY <1>1, AppendNew
  <2>2. \A e \in Deployments \ Elems(created') : plan'[e] = None /\ imageName'[e] = None
    BY <1>1, <2>1 DEF Planned
  <2>3. \A e \in waiting' : imageName'[e] = plan'[e] /\ status'[e] # "success"
    BY <1>1 DEF Planned
  <2>4. ~At("idle") => job.d \in Deployments \ {d}
    BY <1>0, <1>1
  <2>5. QED
    BY <1>00, <1>1, <2>1, <2>2, <2>3, <2>4 DEF Planned
<1>2. ASSUME NEW d \in Deployments, Deploy(d) PROVE Planned'
  <2>1. plan[d] = None /\ imageName[d] = None
    BY <1>2 DEF Deploy, Planned
  <2>2. QED
    BY <1>1, <1>2, <2>1 DEF Deploy, dockerVars
<1>3. ASSUME NEW d \in Deployments, NEW t \in Deployments, NEW s \in Deployments,
             Rollback(d, t, s)
      PROVE  Planned'
  BY <1>1, <1>3 DEF Rollback, dockerVars
<1>4. ASSUME NEW d \in Deployments, StartDeployment(d) PROVE Planned'
  <2>1. UNCHANGED <<imageName, created, plan, waiting, images, job, Elems(created)>>
    BY <1>4 DEF StartDeployment, queueVars, dockerVars, Elems
  <2>2. \A e \in Deployments : status'[e] = status[e] \/ status'[e] = "active"
    BY <1>4 DEF StartDeployment
  <2>3. QED
    BY <1>00, <2>1, <2>2 DEF Planned
<1>5. CASE StopContainer \/ RestartContainer
  <2>1. UNCHANGED <<imageName, created, plan, waiting, images, job, status, Elems(created)>>
    BY <1>5 DEF StopContainer, RestartContainer, dbVars, queueVars, Elems
  <2>2. QED
    BY <2>1 DEF Planned
<1>6. QED
  BY <1>2, <1>3, <1>4, <1>5 DEF Request

(* What a call of the pipeline does to its own row and job, and to nothing *)
(* of the others.                                                          *)
LEMMA PlannedStep ==
    ASSUME PlanInv, ~At("idle"), UNCHANGED <<created, plan, waiting>>,
           job'.pc \in Unfinished \union Deploying => job'.d = job.d,
           \A d \in Deployments \ {job.d} :
              status'[d] = status[d] /\ imageName'[d] = imageName[d],
           job'.pc \in Unfinished \union {"finish"} => imageName'[job.d] = plan[job.d],
           job'.pc \in Unfinished => status'[job.d] # "success",
           job'.pc \in {"clone", "build"} => plan[job.d] = None,
           job'.pc \in Deploying => plan[job.d] \in {None, Registry},
           job'.pc \in Deploying \ {"run"} => job'.image \in images' \union {Registry},
           job'.pc \in Deploying => job'.image \in {job.d, Registry},
           status'[job.d] = "success" => imageName'[job.d] \in {None, Registry, job.d}
    PROVE  Planned'
<1>1. job.d \in Deployments /\ job.d \in Elems(created) /\ job.d \notin waiting
  BY DEF PlanInv, FreshInv, SafeInv, TypeInv, TypeOK, JobKnown, Fresh, At
<1>2. Elems(created') = Elems(created) /\ waiting \subseteq Deployments
  BY DEF Elems, PlanInv, FreshInv, SafeInv, TypeInv, TypeOK
<1>3. QED
  BY <1>1, <1>2 DEF PlanInv, Planned, Unfinished, Deploying

(* Every call of the pipeline keeps what the row and the job say.          *)
LEMMA PlannedPipeline ==
    ASSUME PlanInv, PipelineStep
    PROVE  Planned'
<1> USE DEF PlanInv, FreshInv, SafeInv, TypeInv, TypeOK, JobKnown, At
<1>1. ~At("idle") /\ UNCHANGED <<created, plan, waiting>>
  BY DEF PipelineStep, dbVars, queueVars, Clone, Build, BuildFails, Pull, CreateCandidate, CreateFails,
       StartCandidate, StartFails, GatePasses, GateFails, RollbackCandidate, DeleteRoute, PostRoute, Record,
     StopOld, RemoveOld, WriteSuccess, WriteImage, ReadRetained, PruneImage, PruneEnds,
     WriteFailure
<1>2. job.d \in Deployments
  BY <1>1
<1>3. CASE Clone \/ BuildFails \/ CreateFails \/ StartFails \/ RollbackCandidate
  <2>1. PICK pc \in {"build", "fail"} : Goto(pc) /\ (pc = "build" => Clone)
    BY <1>3 DEF Clone, BuildFails, CreateFails, StartFails, RollbackCandidate
  <2>2. job'.pc = pc /\ job'.d = job.d
    BY <2>1, GotoTyped DEF Pc
  <2>3. /\ UNCHANGED imageName
        /\ \A d \in Deployments : status'[d] \in {status[d], "active"}
        /\ \A d \in Deployments \ {job.d} : status'[d] = status[d]
    BY <1>3 DEF Clone, BuildFails, CreateFails, StartFails, RollbackCandidate, dbVars,
       SetStatus
  <2>4. pc = "build" => job.pc = "clone"
    BY <2>1 DEF Clone
  <2>5. job.pc \in {"clone", "build", "run", "start", "rollback"}
    BY <1>3 DEF Clone, BuildFails, CreateFails, StartFails, RollbackCandidate
  <2>6. imageName'[job.d] = plan[job.d] /\ status'[job.d] # "success"
    BY <1>2, <2>3, <2>5 DEF Planned, Unfinished
  <2>7. QED
    BY <1>1, <1>2, <2>1, <2>2, <2>3, <2>4, <2>6, PlannedStep DEF Planned, Unfinished, Deploying
<1>4. CASE Build \/ Pull
  <2>1. job.pc \in {"build", "pull"}
    BY <1>4 DEF Build, Pull
  <2>2. \/ job'.pc = "fail" /\ job'.d = job.d
        \/ /\ job'.pc = "run" /\ job'.d = job.d /\ plan[job.d] \in {None, Registry}
           /\ job'.image \in {job.d, Registry}
    <3>1. CASE Goto("fail")
      BY <3>1, GotoTyped DEF Pc
    <3>2. CASE ~Goto("fail")
      <4>1. /\ \E image \in Image \intersect {job.d, Registry} : ImageReady(image)
            /\ plan[job.d] \in {None, Registry}
        BY <1>2, <1>4, <3>2 DEF Build, Pull, Image, Planned
      <4>2. QED
        BY <1>2, <4>1, ImageReadyTyped
    <3>3. QED
      BY <3>1, <3>2
  <2>3. /\ UNCHANGED imageName
        /\ \A d \in Deployments : status'[d] \in {status[d], "active"}
        /\ \A d \in Deployments \ {job.d} : status'[d] = status[d]
    BY <1>4 DEF Build, Pull, ImageReady, SetStatus
  <2>4. imageName'[job.d] = plan[job.d] /\ status'[job.d] # "success"
    BY <1>2, <2>1, <2>3 DEF Planned, Unfinished
  <2>5. CASE job'.pc = "fail" /\ job'.d = job.d
    BY <1>1, <2>3, <2>4, <2>5, PlannedStep DEF Planned, Unfinished, Deploying
  <2>6. CASE /\ job'.pc = "run" /\ job'.d = job.d /\ plan[job.d] \in {None, Registry}
             /\ job'.image \in {job.d, Registry}
    BY <1>1, <2>3, <2>4, <2>6, PlannedStep DEF Unfinished, Deploying
  <2>7. QED
    BY <2>2, <2>5, <2>6
<1>5. CASE \/ CreateCandidate \/ StartCandidate \/ GatePasses \/ GateFails \/ DeleteRoute
           \/ PostRoute \/ Record \/ StopOld \/ RemoveOld
  <2>1. /\ job.pc \in {"run", "start", "gate", "delete", "post", "record", "stopOld",
                        "removeOld"}
        /\ UNCHANGED <<status, imageName, images>>
        /\ job.pc = "run" => job.image \in images \union {Registry}
    BY <1>5 DEF CreateCandidate, StartCandidate, GatePasses, GateFails, DeleteRoute, PostRoute,
       Record, StopOld,
       RemoveOld, dbVars, dockerVars
  <2>2. \E pc \in (Unfinished \intersect Deploying) \ {"run"} : Goto(pc)
    BY <1>5 DEF CreateCandidate, StartCandidate, GatePasses, GateFails, DeleteRoute, PostRoute,
       Record, StopOld,
       RemoveOld, Unfinished, Deploying
  <2>3. /\ job'.pc \in (Unfinished \intersect Deploying) \ {"run"}
        /\ job'.d = job.d /\ job'.image = job.image
    BY <2>2, GotoTyped DEF Unfinished, Pc
  <2>4. job.pc \in Unfinished /\ job.pc \in Deploying
    BY <2>1 DEF Unfinished, Deploying
  <2>5. job'.pc \notin {"clone", "build"}
    BY <2>3 DEF Deploying
  <2>6. QED
    BY <1>1, <1>2, <2>1, <2>3, <2>4, <2>5, PlannedStep DEF Planned
<1>6. CASE WriteSuccess \/ WriteImage
  <2>1. PICK pc \in {"finish", "list"} : Goto(pc)
    BY <1>6 DEF WriteSuccess, WriteImage
  <2>2. job'.pc = pc /\ job'.d = job.d /\ job'.image = job.image
    BY <2>1, GotoTyped DEF Pc
  <2>3. /\ job.pc \in {"done", "finish"} /\ UNCHANGED images
        /\ WriteSuccess => job.pc = "done" /\ UNCHANGED imageName
        /\ WriteImage => pc = "list"
        /\ \A d \in Deployments \ {job.d} :
              status'[d] = status[d] /\ imageName'[d] = imageName[d]
    BY <1>6, <2>1, <2>2, GotoTyped DEF WriteSuccess, WriteImage, SetStatus, dockerVars, Pc
  <2>4. job.pc \in Deploying /\ job.image \in {job.d, Registry}
    BY <2>3 DEF Planned, Deploying
  <2>5. status'[job.d] = "success" => imageName'[job.d] \in {None, Registry, job.d}
    <3>1. imageName[job.d] = plan[job.d] /\ plan[job.d] \in {None, Registry}
      BY <2>3 DEF Planned, Unfinished, Deploying
    <3>2. imageName'[job.d] \in {imageName[job.d], job.image}
      BY <1>2, <1>6 DEF WriteSuccess, WriteImage
    <3>3. QED
      BY <2>4, <3>1, <3>2
  <2>6. QED
    BY <1>1, <1>2, <1>6, <2>2, <2>3, <2>4, <2>5, PlannedStep DEF Planned, Unfinished, Deploying
<1>7. CASE ReadRetained \/ PruneEnds \/ WriteFailure \/ \E i \in Deployments : PruneImage(i)
  <2>1. job'.pc \in {"idle", "prune"}
    BY <1>7, NoJobTyped, RetainedRead DEF PruneEnds, WriteFailure, PruneImage
  <2>2. /\ UNCHANGED imageName
        /\ \A d \in Deployments \ {job.d} : status'[d] = status[d]
    BY <1>7 DEF ReadRetained, PruneEnds, WriteFailure, PruneImage, SetStatus, dbVars
  <2>3. status'[job.d] \in {status[job.d], "failed"}
    BY <1>2, <1>7 DEF ReadRetained, PruneEnds, WriteFailure, PruneImage, SetStatus, dbVars
  <2>4. status'[job.d] = "success" => imageName'[job.d] \in {None, Registry, job.d}
    BY <1>2, <2>2, <2>3 DEF Planned
  <2>5. QED
    BY <1>1, <1>2, <2>1, <2>2, <2>4, PlannedStep DEF Unfinished, Deploying
<1>8. QED
  BY <1>3, <1>4, <1>5, <1>6, <1>7 DEF PipelineStep

(* So does every step,                                                     *)
LEMMA PlanNext ==
    ASSUME PlanInv, [Next]_vars
    PROVE  PlanInv'
<1> USE DEF PlanInv, FreshInv, SafeInv, TypeInv, TypeOK, JobKnown, At
<1>0. FreshInv'
  BY FreshNext
<1>1. CASE Request
  BY <1>0, <1>1, PlannedRequests
<1>2. ASSUME NEW d \in Deployments, Begin(d) PROVE Planned'
  <2>1. /\ job'.pc \in {"clone", "build", "pull"} /\ job'.d = d
        /\ job'.pc \in {"clone", "build"} => plan[d] = None
    BY <1>2 DEF Begin, FirstStep, NoJob
  <2>2. /\ UNCHANGED <<imageName, created, plan, Elems(created)>>
        /\ waiting' = waiting \ {d} /\ d \in waiting
        /\ \A e \in Deployments : status'[e] \in {status[e], "active"}
    BY <1>2 DEF Begin, SetStatus, Elems
  <2>3. QED
    BY <2>1, <2>2 DEF Planned, Deploying
<1>3. ASSUME NEW d \in Deployments, BeginWithoutLog(d) PROVE Planned'
  <2>1. /\ UNCHANGED <<imageName, status, created, plan, images, job, Elems(created)>>
        /\ waiting' \subseteq waiting
    BY <1>3 DEF BeginWithoutLog, dbVars, dockerVars, Elems
  <2>2. QED
    BY <2>1 DEF Planned
<1>4. CASE PipelineStep
  BY <1>0, <1>4, PlannedPipeline
<1>5. CASE Timeout \/ Stop \/ UNCHANGED vars
  <2>1. UNCHANGED <<imageName, status, created, plan, waiting, images, job, Elems(created)>>
    BY <1>5 DEF Timeout, Stop, vars, dbVars, queueVars, dockerVars, Elems
  <2>2. QED
    BY <1>0, <2>1 DEF Planned
<1>6. CASE Crash
  <2>1. /\ UNCHANGED <<imageName, status, created, plan, images, Elems(created)>>
        /\ waiting' = {} /\ job'.pc = "idle"
    BY <1>6, NoJobTyped DEF Crash, dbVars, dockerVars, Elems
  <2>2. QED
    BY <1>0, <2>1 DEF Planned, Unfinished, Deploying
<1>7. QED
  BY <1>0, <1>1, <1>2, <1>3, <1>4, <1>5, <1>6 DEF Next

(* and it holds before the first request.                                  *)
LEMMA PlanInit == Init => PlanInv
<1> SUFFICES ASSUME Init PROVE PlanInv
  OBVIOUS
<1>1. job.pc = "idle" /\ created = <<>> /\ waiting = {}
  BY DEF Init, NoJob
<1>2. QED
  BY <1>1, FreshInit DEF PlanInv, Planned, Unfinished, Deploying, Init

-----------------------------------------------------------------------------
(* What is to be kept is what the successful deployments with an image     *)
(* say, and a pipeline that prunes has read it.                            *)
Retained == "status" \notin lapses => (At("prune") => RollbackImages \subseteq job.keep \union {Registry})

RetainInv == PlanInv /\ Retained /\ CachedImagesKept

(* A sequence has finitely many elements.                                  *)
LEMMA ElemsFinite ==
    ASSUME NEW S, NEW s \in Seq(S)
    PROVE  IsFiniteSet(Elems(s))
<1> DEFINE f == [i \in 1..Len(s) |-> s[i]]
<1>1. Len(s) \in Nat /\ DOMAIN s = 1..Len(s)
  OBVIOUS
<1>2. f \in Surjection(1..Len(s), Elems(s))
  BY <1>1 DEF Surjection, Elems
<1>3. IsFiniteSet(1..Len(s))
  BY <1>1, FS_Interval
<1>4. QED
  BY <1>2, <1>3, FS_Surjection

(* Where no element repeats, its place is where it is found.               *)
LEMMA PlaceFound ==
    ASSUME NEW s, NEW i \in DOMAIN s, \A j \in DOMAIN s : s[j] = s[i] => j = i
    PROVE  (CHOOSE j \in DOMAIN s : s[j] = s[i]) = i
OBVIOUS

(* When successes are only added, what is kept of the others was kept      *)
(* before: newer ones push older ones out and never the reverse.           *)
LEMMA RecentStep ==
    ASSUME PlanInv, PlanInv', NEW X,
           \A i \in DOMAIN created : i \in DOMAIN created' /\ created'[i] = created[i],
           WithImage \subseteq WithImage', WithImage' \subseteq WithImage \union X,
           \A d \in WithImage \ X : imageName'[d] = imageName[d],
           NEW v \in RollbackImages'
    PROVE  v \in RollbackImages \/ \E x \in X \intersect WithImage' : v = imageName'[x]
<1>1. PICK e \in WithImage' : /\ v = imageName'[e]
                              /\ Cardinality(Newer(e)' \intersect WithImage') < Keep
  BY DEF RollbackImages, ImagesOf, Newest
<1>2. CASE e \in X
  BY <1>1, <1>2
<1>3. CASE e \notin X
  <2>1. e \in WithImage /\ imageName'[e] = imageName[e]
    BY <1>1, <1>3
  <2>2. ASSUME NEW d \in Elems(created) PROVE Position(d)' = Position(d) /\ Position(d) \in Nat
    <3>1. PICK i \in DOMAIN created : created[i] = d
      BY DEF Elems
    <3>2. i \in DOMAIN created' /\ created'[i] = d
      BY <3>1
    <3>3. Position(d) = i
      BY <3>1, PlaceFound DEF Position, PlanInv, Planned
    <3>4. \A j \in DOMAIN created' : created'[j] = created'[i] => j = i
      BY <3>2 DEF PlanInv, Planned
    <3>5. (CHOOSE j \in DOMAIN created' : created'[j] = created'[i]) = i
      BY <3>2, <3>4, PlaceFound
    <3>6. Position(d)' = i
      BY <3>2, <3>5 DEF Position
    <3>7. created \in Seq(Deployments)
      BY DEF PlanInv, FreshInv, SafeInv, TypeInv, TypeOK
    <3>8. QED
      BY <3>3, <3>6, <3>7
  <2>3. Newer(e) \intersect WithImage \subseteq Newer(e)' \intersect WithImage'
    <3> SUFFICES ASSUME NEW f \in Newer(e), f \in WithImage
                 PROVE  f \in Newer(e)' /\ f \in WithImage'
      OBVIOUS
    <3>1. f \in Elems(created) /\ e \in Elems(created) /\ Position(f) > Position(e)
      BY <2>1 DEF Newer, WithImage, Succeeded
    <3>2. f \in WithImage' /\ f \in Succeeded'
      BY DEF WithImage
    <3>3. QED
      BY <2>2, <3>1, <3>2 DEF Newer
  <2>4. IsFiniteSet(Newer(e)' \intersect WithImage')
    <3>1. created' \in Seq(Deployments)
      BY DEF PlanInv, FreshInv, SafeInv, TypeInv, TypeOK
    <3>2. IsFiniteSet(Elems(created'))
      BY <3>1, ElemsFinite
    <3>3. Newer(e)' \intersect WithImage' \subseteq Elems(created')
      BY DEF WithImage, Succeeded, Elems
    <3>4. QED
      BY <3>2, <3>3, FS_Subset
  <2> DEFINE A == Newer(e) \intersect WithImage
             B == Newer(e)' \intersect WithImage'
  <2>5. IsFiniteSet(A) /\ Cardinality(A) <= Cardinality(B)
    BY <2>3, <2>4, FS_Subset
  <2>6. Cardinality(A) \in Nat /\ Cardinality(B) \in Nat
    BY <2>4, <2>5, FS_CardinalityType
  <2> HIDE DEF A, B
  <2>7. Cardinality(A) < Keep
    <3>1. Cardinality(B) < Keep
      BY <1>1 DEF B
    <3>2. QED
      BY <2>5, <2>6, <3>1, PipelineAssumption
  <2>8. QED
    BY <1>1, <2>1, <2>7 DEF A, RollbackImages, ImagesOf, Newest
<1>4. QED
  BY <1>2, <1>3

(* Whichever of its rows an image is taken at, the newest images are there. *)
LEMMA DistinctKeeps ==
    ASSUME PlanInv, NEW rows \in SUBSET WithImage, Distinct(rows)
    PROVE  RollbackImages \subseteq ImagesOf(Newest(rows)) \union {Registry}
<1> SUFFICES ASSUME NEW v \in RollbackImages, v # Registry
             PROVE  v \in ImagesOf(Newest(rows))
  OBVIOUS
<1>1. PICK d \in Newest(WithImage) : v = imageName[d]
  BY DEF RollbackImages, ImagesOf
<1>2. /\ created \in Seq(Deployments) /\ Elems(created) \subseteq Deployments
      /\ \A e \in WithImage : imageName[e] \in {e, Registry}
  <2>1. created \in Seq(Deployments)
    BY DEF PlanInv, FreshInv, SafeInv, TypeInv, TypeOK
  <2>2. Elems(created) \subseteq Deployments
    BY <2>1, ElemsTyped
  <2>3. QED
    BY <2>1, <2>2 DEF PlanInv, Planned, WithImage, Succeeded
<1>3. d \in WithImage /\ v = d
  BY <1>1, <1>2 DEF Newest
<1>4. d \in rows
  <2>1. PICK r \in rows : imageName[r] = v
    BY <1>1, <1>3 DEF Distinct, ImagesOf
  <2>2. QED
    BY <1>2, <1>3, <2>1
<1> DEFINE A == Newer(d) \intersect rows
           B == Newer(d) \intersect WithImage
<1>5. IsFiniteSet(B)
  <2>1. IsFiniteSet(Elems(created))
    BY <1>2, ElemsFinite
  <2>2. B \subseteq Elems(created)
    BY DEF WithImage, Succeeded
  <2>3. QED
    BY <2>1, <2>2, FS_Subset
<1>6. A \subseteq B
  OBVIOUS
<1>7. /\ Cardinality(A) <= Cardinality(B)
      /\ Cardinality(A) \in Nat /\ Cardinality(B) \in Nat
  BY <1>5, <1>6, FS_Subset, FS_CardinalityType
<1>8. Cardinality(B) < Keep
  BY <1>1 DEF Newest
<1> HIDE DEF A, B
<1>9. Cardinality(A) < Keep
  BY <1>7, <1>8, PipelineAssumption
<1>10. QED
  BY <1>1, <1>4, <1>9 DEF A, Newest, ImagesOf

(* A step that adds no success and prunes nothing keeps what there is.     *)
LEMMA RetainedStep ==
    ASSUME RetainInv, PlanInv',
           \A i \in DOMAIN created : i \in DOMAIN created' /\ created'[i] = created[i],
           WithImage' = WithImage, \A d \in WithImage : imageName'[d] = imageName[d],
           "status" \notin lapses' => "status" \notin lapses,
           images \subseteq images',
           job'.pc = "prune" => UNCHANGED job
    PROVE  (Retained /\ CachedImagesKept)'
<1>1. RollbackImages' \subseteq RollbackImages
  <2> SUFFICES ASSUME NEW v \in RollbackImages' PROVE v \in RollbackImages
    OBVIOUS
  <2> DEFINE X == {}
  <2>1. /\ WithImage \subseteq WithImage' /\ WithImage' \subseteq WithImage \union X
        /\ \A d \in WithImage \ X : imageName'[d] = imageName[d]
    OBVIOUS
  <2> HIDE DEF X
  <2>2. v \in RollbackImages \/ \E x \in X \intersect WithImage' : v = imageName'[x]
    BY <2>1, RecentStep DEF RetainInv
  <2>3. QED
    BY <2>2 DEF X
<1>2. QED
  BY <1>1 DEF RetainInv, Retained, CachedImagesKept, At

(* The rows with an image stay when only rows without success change.      *)
LEMMA SameRows ==
    ASSUME PlanInv, UNCHANGED <<created, imageName>>,
           \A d \in Deployments :
              \/ status'[d] = status[d]
              \/ status[d] # "success" /\ status'[d] # "success"
    PROVE  /\ WithImage' = WithImage
           /\ \A i \in DOMAIN created : i \in DOMAIN created' /\ created'[i] = created[i]
           /\ \A d \in WithImage : imageName'[d] = imageName[d]
<1>1. Elems(created') = Elems(created) /\ Elems(created) \subseteq Deployments
  BY ElemsTyped DEF Elems, PlanInv, FreshInv, SafeInv, TypeInv, TypeOK
<1>2. QED
  BY <1>1 DEF WithImage, Succeeded

(* That a row was overwritten is never forgotten.                          *)
LEMMA LapsesStay ==
    ASSUME [Next]_vars, "status" \notin lapses'
    PROVE  "status" \notin lapses
<1>1. CASE UNCHANGED lapses
  BY <1>1
<1>2. CASE ~UNCHANGED lapses
  <2>1. lapses \subseteq lapses'
    <3>1. CASE Request
      BY <3>1, <1>2 DEF Request, Deploy, StartDeployment, Rollback, StopContainer,
         RestartContainer, histVars
    <3>2. CASE Timeout \/ Stop \/ Crash \/ UNCHANGED vars
            \/ \E d \in Deployments : Begin(d) \/ BeginWithoutLog(d)
      BY <3>2, <1>2 DEF Timeout, Stop, Crash, vars, Begin, BeginWithoutLog, histVars
    <3>3. CASE PipelineStep
      BY <3>3, <1>2 DEF PipelineStep, Clone, Build, BuildFails, Pull, CreateCandidate, CreateFails,
       StartCandidate, StartFails, GatePasses, GateFails, RollbackCandidate, DeleteRoute, PostRoute, Record,
         StopOld, RemoveOld, WriteSuccess, WriteImage, ReadRetained, PruneImage, PruneEnds,
         WriteFailure, histVars
    <3>4. QED
      BY <3>1, <3>2, <3>3 DEF Next
  <2>2. QED
    BY <2>1
<1>3. QED
  BY <1>1, <1>2

(* Requests add no success, and take one away only with a trace.           *)
LEMMA RetainedRequests ==
    ASSUME RetainInv, PlanInv', Request
    PROVE  (Retained /\ CachedImagesKept)'
<1>0. /\ created \in Seq(Deployments) /\ Elems(created) \subseteq Deployments
      /\ status \in [Deployments -> Status] /\ imageName \in [Deployments -> Image \union {None}]
  BY ElemsTyped DEF RetainInv, PlanInv, FreshInv, SafeInv, TypeInv, TypeOK
<1>1. ASSUME NEW d \in Deployments, d \notin Elems(created), created' = Append(created, d),
             UNCHANGED <<job, images, lapses>>, status'[d] # "success",
             \A e \in Deployments \ {d} : status'[e] = status[e] /\ imageName'[e] = imageName[e]
      PROVE  (Retained /\ CachedImagesKept)'
  <2>1. /\ Elems(created') = Elems(created) \union {d}
        /\ \A i \in DOMAIN created : i \in DOMAIN created' /\ created'[i] = created[i]
    BY <1>1, AppendNew DEF RetainInv
  <2>2. WithImage' = WithImage /\ \A e \in WithImage : imageName'[e] = imageName[e]
    BY <1>0, <1>1, <2>1 DEF WithImage, Succeeded
  <2>3. QED
    BY <1>1, <2>1, <2>2, RetainedStep
<1>2. CASE \E d \in Deployments : Deploy(d)
  BY <1>0, <1>1, <1>2 DEF Deploy, dockerVars, histVars
<1>3. CASE \E d, t, s \in Deployments : Rollback(d, t, s)
  BY <1>0, <1>1, <1>3 DEF Rollback, dockerVars, histVars
<1>4. CASE \E d \in Deployments : StartDeployment(d)
  <2>1. PICK d \in Deployments : StartDeployment(d)
    BY <1>4
  <2>2. CASE d \in Succeeded
    <3>1. "status" \in lapses'
      BY <2>1, <2>2 DEF StartDeployment
    <3>2. QED
      BY <3>1 DEF Retained, CachedImagesKept
  <2>3. CASE d \notin Succeeded
    <3>1. UNCHANGED <<created, imageName, images, job, lapses>>
      BY <2>1, <2>3 DEF StartDeployment, dockerVars
    <3>2. \A e \in Deployments :
             \/ status'[e] = status[e]
             \/ status[e] # "success" /\ status'[e] # "success"
      BY <1>0, <2>1, <2>3 DEF StartDeployment, Succeeded
    <3>3. QED
      BY <3>1, <3>2, SameRows, RetainedStep DEF RetainInv
  <2>4. QED
    BY <2>2, <2>3
<1>5. CASE StopContainer \/ RestartContainer
  <2>1. UNCHANGED <<created, imageName, status, images, job, lapses>>
    BY <1>5 DEF StopContainer, RestartContainer, dbVars, histVars
  <2>2. QED
    BY <2>1, SameRows, RetainedStep DEF RetainInv
<1>6. QED
  BY <1>2, <1>3, <1>4, <1>5 DEF Request

(* A call of the pipeline adds a success only with an image that is there, *)
(* and prunes only what it need not keep.                                  *)
LEMMA RetainedPipeline ==
    ASSUME RetainInv, PlanInv', [Next]_vars, PipelineStep
    PROVE  (Retained /\ CachedImagesKept)'
<1> USE DEF JobKnown, At
<1>0. /\ created \in Seq(Deployments) /\ Elems(created) \subseteq Deployments
      /\ status \in [Deployments -> Status] /\ imageName \in [Deployments -> Image \union {None}]
      /\ images \subseteq Deployments /\ job \in Jobs
  BY ElemsTyped DEF RetainInv, PlanInv, FreshInv, SafeInv, TypeInv, TypeOK
<1>1. /\ UNCHANGED created
      /\ job.d \in Deployments
      /\ "status" \notin lapses' => "status" \notin lapses
  <2>1. UNCHANGED created /\ ~At("idle")
    BY DEF PipelineStep, dbVars, Clone, Build, BuildFails, Pull, CreateCandidate, CreateFails,
       StartCandidate, StartFails,
       GatePasses, GateFails, RollbackCandidate, DeleteRoute, PostRoute, Record, StopOld,
       RemoveOld, WriteSuccess, WriteImage, ReadRetained, PruneImage, PruneEnds, WriteFailure
  <2>2. QED
    BY <2>1, LapsesStay DEF RetainInv, PlanInv, FreshInv, SafeInv, TypeInv
<1>2. CASE /\ job'.pc # "prune" /\ images \subseteq images' /\ UNCHANGED imageName
           /\ \A d \in Deployments :
                 \/ status'[d] = status[d]
                 \/ status[d] # "success" /\ status'[d] # "success"
  BY <1>1, <1>2, SameRows, RetainedStep DEF RetainInv
<1>3. CASE Clone \/ Build \/ Pull \/ WriteFailure
  <2>1. job.pc \in Unfinished /\ status[job.d] # "success"
    BY <1>3 DEF Clone, Build, Pull, WriteFailure, Unfinished, RetainInv, PlanInv, Planned
  <2>2. \E s \in {"active", "failed"} :
           status' = [status EXCEPT ![job.d] = s] \/ UNCHANGED status
    BY <1>3 DEF Clone, Build, Pull, WriteFailure, ImageReady, SetStatus
  <2>3. images \subseteq images' /\ UNCHANGED imageName
    BY <1>3 DEF Clone, Build, Pull, WriteFailure, dockerVars, dbVars
  <2>4. job'.pc \in {"build", "fail", "run", "idle"}
    <3>1. Goto("build") \/ Goto("fail") \/ (\E image \in Image : ImageReady(image)) \/ job' = NoJob
      BY <1>1, <1>3 DEF Clone, Build, Pull, WriteFailure, Image
    <3>2. TypeOK
      BY DEF RetainInv, PlanInv, FreshInv, SafeInv, TypeInv
    <3>3. QED
      BY <1>0, <1>1, <3>1, <3>2, GotoTyped, ImageReadyTyped, NoJobTyped DEF Pc
  <2>5. QED
    BY <1>0, <1>2, <2>1, <2>2, <2>3, <2>4
<1>4. CASE \/ BuildFails \/ CreateCandidate \/ CreateFails \/ StartCandidate
           \/ StartFails \/ GatePasses \/ GateFails
           \/ RollbackCandidate \/ DeleteRoute \/ PostRoute \/ Record \/ StopOld
           \/ RemoveOld \/ PruneEnds
  <2>1. UNCHANGED <<status, imageName, images>>
    BY <1>4 DEF BuildFails, CreateCandidate, CreateFails,
       StartCandidate, StartFails, GatePasses, GateFails, RollbackCandidate,
       DeleteRoute, PostRoute, Record, StopOld, RemoveOld, PruneEnds, dbVars, dockerVars
  <2>2. job' = NoJob \/ \E pc \in Pc \ {"prune"} : Goto(pc)
    BY <1>4 DEF BuildFails, CreateCandidate, CreateFails,
       StartCandidate, StartFails, GatePasses, GateFails, RollbackCandidate,
       DeleteRoute, PostRoute, Record, StopOld, RemoveOld, PruneEnds, Pc
  <2>3. job'.pc # "prune"
    BY <1>0, <2>2, GotoTyped, NoJobTyped
  <2>4. QED
    BY <1>2, <2>1, <2>3
<1>5. CASE WriteSuccess \/ WriteImage
  <2> SUFFICES ASSUME "status" \notin lapses'
               PROVE  RollbackImages' \subseteq images' \union {Registry} /\ job'.pc # "prune"
    BY DEF Retained, CachedImagesKept
  <2>1. job'.pc # "prune" /\ UNCHANGED images
    <3>1. Goto("finish") \/ Goto("list")
      BY <1>5 DEF WriteSuccess, WriteImage
    <3>2. QED
      BY <1>0, <1>5, <3>1, GotoTyped DEF WriteSuccess, WriteImage, dockerVars, Pc
  <2>2. imageName'[job.d] \in images \union {Registry, None}
    <3>1. job.pc \in {"done", "finish"}
      BY <1>5 DEF WriteSuccess, WriteImage
    <3>2. /\ imageName[job.d] = plan[job.d] /\ plan[job.d] \in {None, Registry}
          /\ job.image \in images \union {Registry}
      BY <3>1 DEF RetainInv, PlanInv, Planned, Unfinished, Deploying
    <3>3. imageName'[job.d] \in {imageName[job.d], job.image}
      BY <1>0, <1>1, <1>5 DEF WriteSuccess, WriteImage
    <3>4. QED
      BY <3>2, <3>3
  <2>3. \A d \in Deployments \ {job.d} :
           status'[d] = status[d] /\ imageName'[d] = imageName[d]
    BY <1>0, <1>5 DEF WriteSuccess, WriteImage, SetStatus
  <2>4. /\ status[job.d] = "success" => status'[job.d] = "success"
        /\ imageName[job.d] # None => imageName'[job.d] # None
    <3>1. job.image \in images \union {Registry}
      BY <1>5 DEF WriteSuccess, WriteImage, RetainInv, PlanInv, Planned, Deploying
    <3>2. job.image # None
      BY <1>0, <3>1, PipelineAssumption
    <3>3. QED
      BY <1>0, <1>1, <1>5, <3>2 DEF WriteSuccess, WriteImage, SetStatus
  <2> DEFINE X == {job.d}
  <2>5. Elems(created') = Elems(created)
    BY <1>1
  <2>6. /\ WithImage \subseteq WithImage' /\ WithImage' \subseteq WithImage \union X
        /\ \A d \in WithImage \ X : imageName'[d] = imageName[d]
    <3>1. \A d \in Elems(created) \ {job.d} : d \in WithImage <=> d \in WithImage'
      BY <1>0, <2>3, <2>5 DEF WithImage, Succeeded
    <3>2. job.d \in WithImage => job.d \in WithImage'
      BY <2>4, <2>5 DEF WithImage, Succeeded
    <3>3. WithImage \subseteq Elems(created) /\ WithImage' \subseteq Elems(created)
      BY <2>5 DEF WithImage, Succeeded
    <3>4. QED
      BY <1>0, <2>3, <3>1, <3>2, <3>3
  <2>7. \A i \in DOMAIN created : i \in DOMAIN created' /\ created'[i] = created[i]
    BY <1>1
  <2>8. \A x \in X \intersect WithImage' : imageName'[x] \in images \union {Registry}
    BY <2>2 DEF WithImage
  <2> HIDE DEF X
  <2>9. ASSUME NEW v \in RollbackImages' PROVE v \in images \union {Registry}
    <3>1. v \in RollbackImages \/ \E x \in X \intersect WithImage' : v = imageName'[x]
      BY <2>6, <2>7, RecentStep DEF RetainInv
    <3>2. RollbackImages \subseteq images \union {Registry}
      BY <1>1 DEF RetainInv, CachedImagesKept
    <3>3. QED
      BY <2>8, <3>1, <3>2
  <2>10. QED
    BY <2>1, <2>9
<1>6. CASE ReadRetained
  <2>1. UNCHANGED <<created, status, imageName, images>>
    BY <1>6 DEF ReadRetained, dbVars, dockerVars
  <2>2. UNCHANGED RollbackImages
    BY <2>1 DEF RollbackImages, ImagesOf, Newest, WithImage, Succeeded, Newer,
       Position, Elems
  <2>3. job'.pc = "prune" => RollbackImages \subseteq job'.keep \union {Registry}
    <3>1. CASE job' = NoJob
      BY <3>1, NoJobTyped
    <3>2. ASSUME NEW rows \in SUBSET WithImage, Distinct(rows),
                 job'.keep = ImagesOf(Newest(rows)) \union {job.image}
          PROVE  RollbackImages \subseteq job'.keep \union {Registry}
      BY <3>2, DistinctKeeps DEF RetainInv
    <3>3. TypeOK
      BY DEF RetainInv, PlanInv, FreshInv, SafeInv, TypeInv
    <3>4. QED
      BY <1>6, <3>1, <3>2, <3>3, RetainedRead
  <2>4. QED
    BY <1>1, <2>1, <2>2, <2>3 DEF RetainInv, Retained, CachedImagesKept
<1>7. CASE \E i \in Deployments : PruneImage(i)
  <2>1. PICK i \in Deployments : PruneImage(i)
    BY <1>7
  <2>2. UNCHANGED <<created, status, imageName, job, lapses>>
    BY <2>1 DEF PruneImage, dbVars, histVars
  <2>3. UNCHANGED RollbackImages
    BY <2>2 DEF RollbackImages, ImagesOf, Newest, WithImage, Succeeded, Newer,
       Position, Elems
  <2>4. At("prune") /\ i \notin job.keep /\ images' = images \ {i}
    BY <2>1 DEF PruneImage
  <2>5. "status" \notin lapses =>
           /\ RollbackImages \subseteq job.keep \union {Registry}
           /\ RollbackImages \subseteq images \union {Registry}
    BY <2>4 DEF RetainInv, Retained, CachedImagesKept
  <2>6. QED
    BY <2>2, <2>3, <2>4, <2>5 DEF Retained, CachedImagesKept
<1>8. QED
  BY <1>3, <1>4, <1>5, <1>6, <1>7 DEF PipelineStep

(* Every step keeps the images rollbacks may need.                         *)
LEMMA RetainNext ==
    ASSUME RetainInv, [Next]_vars
    PROVE  RetainInv'
<1>0. PlanInv'
  BY PlanNext DEF RetainInv
<1>1. CASE Request
  BY <1>0, <1>1, RetainedRequests DEF RetainInv
<1>2. CASE PipelineStep
  BY <1>0, <1>2, RetainedPipeline DEF RetainInv
<1>3. CASE \/ \E d \in Deployments : Begin(d) \/ BeginWithoutLog(d)
           \/ Timeout \/ Stop \/ Crash \/ UNCHANGED vars
  <2>1. UNCHANGED <<created, imageName, images>>
    BY <1>3 DEF Begin, BeginWithoutLog, Timeout, Stop, Crash, vars, dbVars, dockerVars
  <2>2. "status" \notin lapses' => "status" \notin lapses
    BY LapsesStay
  <2>3. job'.pc # "prune" \/ UNCHANGED job
    BY <1>3, NoJobTyped DEF Begin, FirstStep, NoJob, BeginWithoutLog, Timeout, Stop, Crash,
       vars
  <2>4. \A d \in Deployments :
           \/ status'[d] = status[d]
           \/ status[d] # "success" /\ status'[d] # "success"
    <3>1. CASE \E d \in Deployments : Begin(d)
      BY <3>1 DEF Begin, SetStatus, RetainInv, PlanInv, Planned, FreshInv, SafeInv, TypeInv,
         TypeOK
    <3>2. CASE ~\E d \in Deployments : Begin(d)
      BY <1>3, <3>2 DEF BeginWithoutLog, Timeout, Stop, Crash, vars, dbVars
    <3>3. QED
      BY <3>1, <3>2
  <2>5. QED
    BY <1>0, <2>1, <2>2, <2>3, <2>4, SameRows, RetainedStep DEF RetainInv
<1>4. QED
  BY <1>1, <1>2, <1>3 DEF Next

(* Each of the newest Keep successful deployments still has its image for  *)
(* a rollback, whatever was pruned (deploy/job.go pruneOldCachedImages).   *)
THEOREM RollbackImagesKept == Spec => []CachedImagesKept
<1>1. Init => RetainInv
  <2> SUFFICES ASSUME Init PROVE RetainInv
    OBVIOUS
  <2>1. created = <<>> /\ ~At("prune")
    BY DEF Init, NoJob, At
  <2>2. RollbackImages = {}
    BY <2>1 DEF RollbackImages, ImagesOf, Newest, WithImage, Succeeded, Elems
  <2>3. QED
    BY <2>1, <2>2, PlanInit DEF RetainInv, Retained, CachedImagesKept
<1>2. RetainInv /\ [Next]_vars => RetainInv'
  BY RetainNext
<1>3. RetainInv => CachedImagesKept
  BY DEF RetainInv
<1>4. QED
  BY <1>1, <1>2, <1>3, PTL DEF Spec
=============================================================================
