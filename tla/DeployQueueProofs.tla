------------------------- MODULE DeployQueueProofs --------------------------
(***************************************************************************)
(* Proofs about DeployQueue for any number of deployments, workers and     *)
(* tokens, any size of the buffer and any number of restarts.              *)
(***************************************************************************)
EXTENDS DeployQueue, SequenceTheorems, FiniteSetTheorems, TLAPS

-----------------------------------------------------------------------------
(* Sequences without repetitions.                                          *)

(* The empty sequence.                                                     *)
LEMMA EmptyQueue ==
    ASSUME NEW S
    PROVE  /\ <<>> \in Seq(S) /\ Len(<<>>) = 0
           /\ Elems(<<>>) = {} /\ NoRepeat(<<>>)
BY DEF Elems, NoRepeat

(* A job that joins the end of a line.                                     *)
LEMMA Joins ==
    ASSUME NEW S, NEW s \in Seq(S), NEW e \in S
    PROVE  /\ Append(s, e) \in Seq(S) /\ Len(Append(s, e)) = Len(s) + 1
           /\ \A k \in 1..Len(s) : Append(s, e)[k] = s[k]
           /\ Append(s, e)[Len(s) + 1] = e
           /\ Elems(Append(s, e)) = Elems(s) \union {e}
           /\ NoRepeat(s) /\ e \notin Elems(s) => NoRepeat(Append(s, e))
<1> DEFINE r == Append(s, e)
<1>1. /\ r \in Seq(S) /\ Len(r) = Len(s) + 1
      /\ \A k \in 1..Len(s) : r[k] = s[k]
      /\ r[Len(s) + 1] = e
  BY AppendProperties
<1>2. Len(s) \in Nat /\ DOMAIN s = 1..Len(s) /\ DOMAIN r = 1..(Len(s) + 1)
  BY <1>1
<1> HIDE DEF r
<1>3. Elems(r) = Elems(s) \union {e}
  BY <1>1, <1>2 DEF Elems
<1>4. ASSUME NoRepeat(s), e \notin Elems(s), NEW i \in DOMAIN r, NEW j \in DOMAIN r,
             r[i] = r[j]
      PROVE  i = j
  <2>1. \A k \in 1..Len(s) : r[k] # e
    BY <1>1, <1>2, <1>4 DEF Elems
  <2>2. CASE i \in 1..Len(s) /\ j \in 1..Len(s)
    BY <1>1, <1>2, <1>4, <2>2 DEF NoRepeat
  <2>3. CASE i = Len(s) + 1 \/ j = Len(s) + 1
    BY <1>1, <1>2, <1>4, <2>1, <2>3
  <2>4. QED
    BY <1>2, <2>2, <2>3
<1>5. QED
  BY <1>1, <1>3, <1>4 DEF NoRepeat, r

(* The first of a line leaves it.                                          *)
LEMMA Leaves ==
    ASSUME NEW S, NEW s \in Seq(S), s # <<>>
    PROVE  /\ Tail(s) \in Seq(S) /\ Len(Tail(s)) = Len(s) - 1
           /\ Head(s) \in Elems(s) /\ Head(s) \in S
           /\ \A k \in 1..Len(Tail(s)) : Tail(s)[k] = s[k + 1]
           /\ Elems(s) = Elems(Tail(s)) \union {Head(s)}
           /\ NoRepeat(s) => NoRepeat(Tail(s)) /\ Head(s) \notin Elems(Tail(s))
<1>1. /\ Head(s) \in S /\ Tail(s) \in Seq(S)
      /\ Len(Tail(s)) = Len(s) - 1
      /\ \A k \in 1..Len(Tail(s)) : Tail(s)[k] = s[k + 1]
  BY HeadTailProperties
<1>2. /\ Len(s) \in Nat \ {0} /\ Head(s) = s[1]
      /\ DOMAIN s = 1..Len(s) /\ DOMAIN Tail(s) = 1..(Len(s) - 1)
  BY <1>1, EmptySeq
<1>3. Elems(s) = Elems(Tail(s)) \union {Head(s)}
  <2>1. ASSUME NEW k \in DOMAIN s
        PROVE  s[k] \in Elems(Tail(s)) \union {Head(s)}
    <3>1. CASE k = 1
      BY <1>2, <3>1
    <3>2. CASE k # 1
      <4>1. k - 1 \in DOMAIN Tail(s) /\ Tail(s)[k - 1] = s[k]
        BY <1>1, <1>2, <3>2
      <4>2. QED
        BY <4>1 DEF Elems
    <3>3. QED
      BY <3>1, <3>2
  <2>2. ASSUME NEW k \in DOMAIN Tail(s)
        PROVE  Tail(s)[k] \in Elems(s)
    BY <1>1, <1>2 DEF Elems
  <2>3. Head(s) \in Elems(s)
    BY <1>2 DEF Elems
  <2>4. QED
    BY <2>1, <2>2, <2>3 DEF Elems
<1>4. ASSUME NoRepeat(s)
      PROVE  NoRepeat(Tail(s)) /\ Head(s) \notin Elems(Tail(s))
  <2>1. \A k \in DOMAIN Tail(s) : k + 1 \in DOMAIN s /\ Tail(s)[k] = s[k + 1]
    BY <1>1, <1>2
  <2>2. NoRepeat(Tail(s))
    BY <1>2, <1>4, <2>1 DEF NoRepeat
  <2>3. \A k \in DOMAIN Tail(s) : Tail(s)[k] # Head(s)
    BY <1>2, <1>4, <2>1 DEF NoRepeat
  <2>4. QED
    BY <2>2, <2>3 DEF Elems
<1>5. QED
  BY <1>1, <1>3, <1>4

(* A job that gives up leaves a line from any place.                       *)
LEMMA GivesUp ==
    ASSUME NEW S, NEW s \in Seq(S), NEW i \in DOMAIN s, NEW r, r = Without(s, i)
    PROVE  /\ r \in Seq(S)
           /\ NoRepeat(s) => NoRepeat(r) /\ Elems(r) = Elems(s) \ {s[i]}
<1> DEFINE a == SubSeq(s, 1, i - 1)
           b == SubSeq(s, i + 1, Len(s))
           n == Len(s)
           At0(k) == IF k < i THEN k ELSE k + 1
<1>0. i \in 1..n /\ n \in Nat /\ DOMAIN s = 1..n /\ \A k \in 1..n : s[k] \in S
  OBVIOUS
<1>1. a \in Seq(S) /\ Len(a) = i - 1 /\ \A k \in 1..(i - 1) : a[k] = s[k]
  BY <1>0, SubSeqProperties
<1>2. /\ b \in Seq(S) /\ Len(b) = n - i
      /\ \A k \in 1..(n - i) : b[k] = s[i + 1 + k - 1]
  BY <1>0, SubSeqProperties
<1>3. /\ r \in Seq(S) /\ Len(r) = Len(a) + Len(b)
      /\ \A k \in 1..(Len(a) + Len(b)) :
            r[k] = IF k <= Len(a) THEN a[k] ELSE b[k - Len(a)]
  BY <1>1, <1>2, ConcatProperties DEF Without
<1> HIDE DEF a, b, n
<1>4. DOMAIN r = 1..(n - 1)
  BY <1>0, <1>1, <1>2, <1>3
<1>5. ASSUME NEW k \in 1..(n - 1)
      PROVE  At0(k) \in 1..n /\ At0(k) # i /\ r[k] = s[At0(k)]
  <2>1. CASE k < i
    BY <1>0, <1>1, <1>2, <1>3, <2>1
  <2>2. CASE ~(k < i)
    <3> DEFINE m == k - (i - 1)
    <3>1. m \in 1..(n - i) /\ i + 1 + m - 1 = k + 1 /\ ~(k <= i - 1) /\ k \in 1..(Len(a) + Len(b))
      BY <1>0, <1>1, <1>2, <2>2
    <3>2. r[k] = b[m]
      BY <1>1, <1>3, <3>1
    <3> HIDE DEF m
    <3>3. b[m] = s[k + 1]
      BY <1>2, <3>1
    <3>4. QED
      BY <1>0, <2>2, <3>2, <3>3
  <2>3. QED
    BY <2>1, <2>2
<1>6. ASSUME NEW j \in 1..n, j # i
      PROVE  \E k \in 1..(n - 1) : At0(k) = j
  <2>1. CASE j < i
    BY <1>0, <2>1
  <2>2. CASE i < j
    <3>1. j - 1 \in 1..(n - 1) /\ At0(j - 1) = j
      BY <1>0, <2>2
    <3>2. QED
      BY <3>1
  <2>3. QED
    BY <1>0, <1>6, <2>1, <2>2
<1>7. \A k, l \in 1..(n - 1) : At0(k) = At0(l) => k = l
  BY <1>0
<1> HIDE DEF At0
<1>8. ASSUME NoRepeat(s) PROVE NoRepeat(r)
  BY <1>0, <1>4, <1>5, <1>7, <1>8 DEF NoRepeat
<1>9. ASSUME NoRepeat(s) PROVE Elems(r) = Elems(s) \ {s[i]}
  <2>1. ASSUME NEW k \in 1..(n - 1) PROVE r[k] \in Elems(s) \ {s[i]}
    BY <1>0, <1>5, <1>9 DEF NoRepeat, Elems
  <2>2. ASSUME NEW j \in 1..n, s[j] # s[i] PROVE s[j] \in Elems(r)
    <3>1. PICK k \in 1..(n - 1) : At0(k) = j
      BY <1>6, <2>2
    <3>2. QED
      BY <1>4, <1>5, <3>1 DEF Elems
  <2>3. QED
    BY <1>0, <1>4, <2>1, <2>2 DEF Elems
<1>10. QED
  BY <1>3, <1>8, <1>9

(* Two lines with nothing in common make one.                              *)
LEMMA OneLine ==
    ASSUME NEW S, NEW s \in Seq(S), NEW t \in Seq(S), NoRepeat(s), NoRepeat(t),
           Elems(s) \intersect Elems(t) = {}
    PROVE  NoRepeat(s \o t) /\ Elems(s \o t) = Elems(s) \union Elems(t)
<1> DEFINE r == s \o t
<1>1. /\ r \in Seq(S) /\ Len(r) = Len(s) + Len(t)
      /\ \A i \in 1..(Len(s) + Len(t)) :
            r[i] = IF i <= Len(s) THEN s[i] ELSE t[i - Len(s)]
  BY ConcatProperties
<1>2. /\ Len(s) \in Nat /\ Len(t) \in Nat
      /\ DOMAIN s = 1..Len(s) /\ DOMAIN t = 1..Len(t)
      /\ DOMAIN r = 1..(Len(s) + Len(t))
  BY <1>1
<1> HIDE DEF r
<1>3. ASSUME NEW i \in DOMAIN r
      PROVE  \/ i \in DOMAIN s /\ r[i] = s[i]
             \/ i - Len(s) \in DOMAIN t /\ r[i] = t[i - Len(s)]
  <2>1. CASE i <= Len(s)
    BY <1>1, <1>2, <2>1
  <2>2. CASE ~(i <= Len(s))
    <3>1. i - Len(s) \in DOMAIN t
      BY <1>2, <2>2
    <3>2. r[i] = t[i - Len(s)]
      BY <1>1, <1>2, <2>2
    <3>3. QED
      BY <3>1, <3>2
  <2>3. QED
    BY <2>1, <2>2
<1>4. \A i \in DOMAIN s : i \in DOMAIN r /\ r[i] = s[i]
  BY <1>1, <1>2
<1>5. ASSUME NEW i \in DOMAIN t PROVE i + Len(s) \in DOMAIN r /\ r[i + Len(s)] = t[i]
  <2>1. i + Len(s) \in DOMAIN r /\ ~(i + Len(s) <= Len(s)) /\ (i + Len(s)) - Len(s) = i
    BY <1>2
  <2>2. QED
    BY <1>1, <1>2, <2>1
<1>6. ASSUME NEW i \in DOMAIN r, NEW j \in DOMAIN r, r[i] = r[j] PROVE i = j
  <2>1. \A k \in DOMAIN s, l \in DOMAIN t : s[k] # t[l]
    BY DEF Elems
  <2>2. CASE i \in DOMAIN s /\ r[i] = s[i] /\ j \in DOMAIN s /\ r[j] = s[j]
    BY <1>6, <2>2 DEF NoRepeat
  <2>3. CASE /\ i - Len(s) \in DOMAIN t /\ r[i] = t[i - Len(s)]
             /\ j - Len(s) \in DOMAIN t /\ r[j] = t[j - Len(s)]
    <3>1. i - Len(s) = j - Len(s)
      BY <1>6, <2>3 DEF NoRepeat
    <3>2. QED
      BY <1>2, <3>1
  <2>4. QED
    BY <1>3, <1>6, <2>1, <2>2, <2>3
<1>7. Elems(r) = Elems(s) \union Elems(t)
  BY <1>3, <1>4, <1>5 DEF Elems
<1>8. QED
  BY <1>6, <1>7 DEF NoRepeat, r
-----------------------------------------------------------------------------
(* The channel: the requests that wait are the blocked ones, and what is   *)
(* in the buffer was accepted and has not been executed.                   *)
Channel ==
    /\ NoRepeat(jobQueue) /\ NoRepeat(senders)
    /\ \A d \in Deployments : d \in Elems(senders) <=> request[d] = "blocked"
    /\ \A d \in Elems(jobQueue) : request[d] = "accepted" /\ d \notin finished
    /\ cancelled => senders = <<>>

(* The workers: each holds a job of its own that has left the channel, and *)
(* the job is finished exactly when it has been executed.                  *)
Holding == {"acquire", "execute", "release", "report"}

Hands ==
    /\ \A w \in Workers :
          IF worker[w].pc \in Holding
          THEN /\ worker[w].job \in Deployments \ Elems(jobQueue)
               /\ request[worker[w].job] = "accepted"
               /\ worker[w].job \in finished <=> worker[w].pc \in {"release", "report"}
          ELSE worker[w].job = NoJob
    /\ \A v, w \in Workers :
          v # w /\ worker[v].job = worker[w].job => worker[v].job = NoJob

(* What has been executed was accepted, and a row has a request.           *)
History ==
    /\ \A d \in finished : request[d] = "accepted"
    /\ \A d \in Deployments : request[d] = "none" => row[d] = "absent"

(* Nothing of the queue outlives its process.                              *)
Down ==
    main = "down" =>
        /\ jobQueue = <<>> /\ senders = <<>> /\ accepted = <<>>
        /\ \A w \in Workers : worker[w] = [pc |-> "exited", job |-> NoJob]

IInv == TypeOK /\ SemaphoreExact /\ Channel /\ Hands /\ History /\ Down
-----------------------------------------------------------------------------
(* The tokens.                                                             *)

(* The holders of tokens can be counted, and one of them is at least one.  *)
LEMMA HoldersCounted ==
    /\ IsFiniteSet(Holders) /\ Cardinality(Holders) \in Nat
    /\ \A w \in Holders : Cardinality(Holders) > 0
<1>1. IsFiniteSet(Holders)
  BY QueueAssumption, FS_Subset DEF Holders
<1>2. Cardinality(Holders) \in Nat
  BY <1>1, FS_CardinalityType
<1>3. Cardinality(Holders) = 0 <=> Holders = {}
  BY <1>1, FS_EmptySet
<1>4. QED
  BY <1>1, <1>2, <1>3

(* Only six steps move a worker.                                           *)
LEMMA WorkerMoves ==
    ASSUME [Next]_vars
    PROVE  \/ UNCHANGED <<semaphore, worker>>
           \/ \E w \in Workers :
                 \/ Receive(w) \/ ExitLoop(w) \/ AcquireSemaphore(w)
                 \/ FinishExecute(w) \/ ReleaseSemaphore(w) \/ Report(w)
           \/ ProcessEnds
           \/ Restart
BY DEF Next, vars, RequestStep, WorkerStep, MainStep, workVars, CreateDeployment,
       MarkDeploying, StartDeployment, EnqueueSend, EnqueueBlock, EnqueueTimeout,
       EnqueueCancelled, EnqueuePanic, UpdateStep, BeginShutdown,
       HttpShutdownReturns, ServerError, StopCancel, StopClose, StopReturns, Crash

(* SemaphoreExact survives every step.                                     *)
LEMMA TokensKept ==
    ASSUME IInv, [Next]_vars
    PROVE  SemaphoreExact' /\ semaphore' \in Nat
<1> USE DEF IInv, TypeOK, SemaphoreExact
<1>0. MaxConcurrent \in Nat /\ IsFiniteSet(Holders)
  BY QueueAssumption, HoldersCounted
<1>1. CASE UNCHANGED <<semaphore, worker>>
  BY <1>1 DEF Holders
<1>2. CASE \E w \in Workers : Receive(w) \/ ExitLoop(w) \/ FinishExecute(w) \/ Report(w)
  <2>1. PICK w \in Workers : Receive(w) \/ ExitLoop(w) \/ FinishExecute(w) \/ Report(w)
    BY <1>2
  <2>2. semaphore' = semaphore
    BY <2>1 DEF Receive, ExitLoop, FinishExecute, Report
  <2>3. /\ \A v \in Workers \ {w} : worker'[v] = worker[v]
        /\ worker[w].pc \in {"execute", "release"} <=> worker'[w].pc \in {"execute", "release"}
    BY <2>1 DEF Receive, ExitLoop, FinishExecute, Report, At, Goto, Idle
  <2>4. Holders' = Holders
    BY <2>3 DEF Holders
  <2>5. QED
    BY <2>2, <2>4
<1>3. CASE \E w \in Workers : AcquireSemaphore(w)
  <2>1. PICK w \in Workers : AcquireSemaphore(w)
    BY <1>3
  <2>2. w \notin Holders /\ Holders' = Holders \union {w}
    BY <2>1 DEF AcquireSemaphore, At, Goto, Holders
  <2>3. Cardinality(Holders') = Cardinality(Holders) + 1
    BY <1>0, <2>2, FS_AddElement
  <2>4. QED
    BY <1>0, <2>1, <2>3 DEF AcquireSemaphore
<1>4. CASE \E w \in Workers : ReleaseSemaphore(w)
  <2>1. PICK w \in Workers : ReleaseSemaphore(w)
    BY <1>4
  <2>2. w \in Holders /\ Holders' = Holders \ {w}
    BY <2>1 DEF ReleaseSemaphore, At, Goto, Holders
  <2>3. Cardinality(Holders') = Cardinality(Holders) - 1
    BY <1>0, <2>2, FS_RemoveElement
  <2>4. QED
    BY <1>0, <2>1, <2>2, <2>3, HoldersCounted DEF ReleaseSemaphore
<1>5. CASE ProcessEnds
  <2>1. Holders' = {} /\ semaphore' = 0
    BY <1>5 DEF ProcessEnds, Holders
  <2>2. QED
    BY <1>0, <2>1, FS_EmptySet
<1>6. CASE Restart
  <2>1. Holders = {}
    BY <1>6 DEF Restart, Down, Holders
  <2>2. Holders' = {} /\ semaphore' = semaphore
    BY <1>6 DEF Restart, Idle, Holders
  <2>3. QED
    BY <1>0, <2>1, <2>2
<1>7. QED
  BY <1>1, <1>2, <1>3, <1>4, <1>5, <1>6, WorkerMoves
-----------------------------------------------------------------------------
(* The type, but for the semaphore: that is TokensKept.                    *)
LEMMA Typed ==
    ASSUME IInv, [Next]_vars
    PROVE  TypeOK'
<1> USE DEF IInv, TypeOK, Rows, Final, Requests, WorkerPcs, Mains, At, Goto, Idle
<1>0. semaphore' \in Nat
  BY TokensKept
<1>1. ASSUME NEW d \in Deployments,
             \/ CreateDeployment(d) \/ MarkDeploying(d) \/ StartDeployment(d)
             \/ EnqueueCancelled(d) \/ EnqueuePanic(d)
      PROVE  TypeOK'
  BY <1>0, <1>1 DEF CreateDeployment, MarkDeploying, StartDeployment, EnqueueCancelled,
     EnqueuePanic, Write, Answer, chanVars, workVars, procVars, histVars
<1>2. ASSUME NEW d \in Deployments, EnqueueSend(d)
      PROVE  TypeOK'
  <2>1. jobQueue' \in Seq(Deployments) /\ accepted' \in Seq(Deployments)
    BY <1>2, Joins DEF EnqueueSend
  <2>2. QED
    BY <1>0, <1>2, <2>1 DEF EnqueueSend, Answer, workVars, procVars
<1>3. ASSUME NEW d \in Deployments, EnqueueBlock(d) \/ EnqueueTimeout(d)
      PROVE  TypeOK'
  <2>1. senders' \in Seq(Deployments)
    <3>1. CASE EnqueueBlock(d)
      <4>1. senders' = Append(senders, d)
        BY <3>1 DEF EnqueueBlock
      <4>2. QED
        BY <4>1, Joins
    <3>2. CASE EnqueueTimeout(d)
      <4>1. PICK i \in DOMAIN senders : senders' = Without(senders, i)
        BY <3>2 DEF EnqueueTimeout
      <4>2. QED
        BY <4>1, GivesUp
    <3>3. QED
      BY <1>3, <3>1, <3>2
  <2>2. QED
    BY <1>0, <1>3, <2>1 DEF EnqueueBlock, EnqueueTimeout, Answer, workVars, procVars, histVars
<1>4. ASSUME NEW w \in Workers, Receive(w)
      PROVE  TypeOK'
  <2>1. Head(jobQueue) \in Deployments /\ Tail(jobQueue) \in Seq(Deployments)
    BY <1>4, Leaves DEF Receive
  <2>2. worker' \in [Workers -> [pc : WorkerPcs, job : Deployments \union {NoJob}]]
    BY <1>4, <2>1 DEF Receive
  <2>3. CASE senders = <<>>
    BY <1>0, <1>4, <2>1, <2>2, <2>3 DEF Receive, procVars
  <2>4. CASE senders # <<>>
    <3>0. /\ jobQueue' = Append(Tail(jobQueue), Head(senders)) /\ senders' = Tail(senders)
          /\ accepted' = Append(accepted, Head(senders))
      BY <1>4, <2>4 DEF Receive
    <3>1. Head(senders) \in Deployments /\ senders' \in Seq(Deployments)
      BY <2>4, <3>0, Leaves
    <3>2. jobQueue' \in Seq(Deployments) /\ accepted' \in Seq(Deployments)
      BY <2>1, <3>0, <3>1, Joins
    <3>3. request' \in [Deployments -> Requests]
      BY <1>4, <2>4, <3>1 DEF Receive, Answer
    <3>4. QED
      BY <1>0, <1>4, <2>2, <3>1, <3>2, <3>3 DEF Receive, procVars
  <2>5. QED
    BY <2>3, <2>4
<1>5. ASSUME NEW w \in Workers,
             \/ ExitLoop(w) \/ AcquireSemaphore(w) \/ ReleaseSemaphore(w) \/ Report(w)
      PROVE  TypeOK'
  BY <1>0, <1>5 DEF ExitLoop, AcquireSemaphore, ReleaseSemaphore, Report, chanVars,
     procVars, histVars
<1>6. ASSUME NEW w \in Workers, UpdateStep(w)
      PROVE  TypeOK'
  BY <1>0, <1>6 DEF UpdateStep, Write, chanVars, workVars, procVars, histVars
<1>7. ASSUME NEW w \in Workers, FinishExecute(w)
      PROVE  TypeOK'
  <2>1. worker[w].job \in Deployments
    BY <1>7 DEF FinishExecute, Hands, Holding
  <2>2. row' \in [Deployments -> Rows]
    BY <1>7 DEF FinishExecute, Write
  <2>3. worker' \in [Workers -> [pc : WorkerPcs, job : Deployments \union {NoJob}]]
    BY <1>7 DEF FinishExecute
  <2>4. QED
    BY <1>0, <1>7, <2>1, <2>2, <2>3 DEF FinishExecute, chanVars, procVars
<1>8. CASE BeginShutdown \/ HttpShutdownReturns \/ ServerError \/ StopClose
  BY <1>0, <1>8 DEF BeginShutdown, HttpShutdownReturns, ServerError, StopClose, chanVars,
     workVars, histVars
<1>9. CASE StopCancel
  <2>1. senders' \in Seq(Deployments)
    BY <1>9, EmptyQueue DEF StopCancel
  <2>2. QED
    BY <1>0, <1>9, <2>1 DEF StopCancel, workVars, histVars
<1>10. CASE ProcessEnds
  <2>1. jobQueue' \in Seq(Deployments) /\ senders' \in Seq(Deployments) /\ accepted' \in Seq(Deployments)
    BY <1>10, EmptyQueue DEF ProcessEnds
  <2>2. QED
    BY <1>0, <1>10, <2>1 DEF ProcessEnds
<1>11. CASE Restart
  <2>1. worker' \in [Workers -> [pc : WorkerPcs, job : Deployments \union {NoJob}]]
    BY <1>11 DEF Restart
  <2>2. restarts' \in Nat
    BY <1>11 DEF Restart
  <2>3. QED
    BY <1>0, <1>11, <2>1, <2>2 DEF Restart, histVars
<1>12. CASE UNCHANGED vars
  BY <1>12 DEF vars, diskVars, chanVars, workVars, procVars, histVars
<1>13. QED
  BY <1>1, <1>2, <1>3, <1>4, <1>5, <1>6, <1>7, <1>8, <1>9, <1>10, <1>11, <1>12
     DEF Next, RequestStep, WorkerStep, MainStep, StopReturns, Crash
-----------------------------------------------------------------------------
(* The channel.                                                            *)

(* Only these steps touch it.                                              *)
LEMMA ChannelMoves ==
    ASSUME [Next]_vars
    PROVE  \/ UNCHANGED <<jobQueue, senders, request, finished, cancelled>>
           \/ \E d \in Deployments :
                 \/ CreateDeployment(d) \/ EnqueueSend(d) \/ EnqueueBlock(d)
                 \/ EnqueueTimeout(d) \/ EnqueueCancelled(d) \/ EnqueuePanic(d)
           \/ \E w \in Workers : Receive(w) \/ FinishExecute(w)
           \/ StopCancel \/ ProcessEnds \/ Restart
BY DEF Next, vars, RequestStep, WorkerStep, MainStep, chanVars, histVars,
       MarkDeploying, StartDeployment, ExitLoop, AcquireSemaphore, UpdateStep,
       ReleaseSemaphore, Report, BeginShutdown, HttpShutdownReturns, ServerError,
       StopClose, StopReturns, Crash

(* No step puts a job into two places of the channel, nor back into it.    *)
LEMMA ChannelKept ==
    ASSUME IInv, [Next]_vars
    PROVE  Channel'
<1> USE DEF IInv, TypeOK, Channel
<1>1. CASE UNCHANGED <<jobQueue, senders, request, finished, cancelled>>
  BY <1>1 DEF Elems, NoRepeat
<1>2. ASSUME NEW d \in Deployments,
             CreateDeployment(d) \/ EnqueueCancelled(d) \/ EnqueuePanic(d)
      PROVE  Channel'
  <2>1. /\ UNCHANGED <<jobQueue, senders, finished, cancelled>>
        /\ \E o \in {"created", "refused", "panicked"} : request' = [request EXCEPT ![d] = o]
        /\ request[d] \in {"none", "created"}
    BY <1>2 DEF CreateDeployment, EnqueueCancelled, EnqueuePanic, Answer, chanVars, histVars
  <2>2. QED
    BY <2>1 DEF Elems, NoRepeat
<1>3. ASSUME NEW d \in Deployments, EnqueueSend(d)
      PROVE  Channel'
  <2>1. d \notin Elems(jobQueue) /\ d \notin Elems(senders) /\ d \notin finished
    BY <1>3 DEF EnqueueSend, History
  <2>2. NoRepeat(jobQueue') /\ Elems(jobQueue') = Elems(jobQueue) \union {d}
    <3>1. jobQueue' = Append(jobQueue, d) /\ jobQueue \in Seq(Deployments) /\ NoRepeat(jobQueue)
      BY <1>3 DEF EnqueueSend
    <3>2. QED
      BY <2>1, <3>1, Joins
  <2>3. NoRepeat(senders') /\ Elems(senders') = Elems(senders)
    BY <1>3 DEF EnqueueSend
  <2>4. \A e \in Deployments \ {d} : request'[e] = request[e]
    BY <1>3 DEF EnqueueSend, Answer
  <2>5. request'[d] = "accepted"
    BY <1>3 DEF EnqueueSend, Answer
  <2>6. Elems(jobQueue) \subseteq Deployments
    BY DEF Elems
  <2>7. \A e \in Elems(jobQueue') : request'[e] = "accepted" /\ e \notin finished'
    BY <1>3, <2>1, <2>2, <2>4, <2>5, <2>6 DEF EnqueueSend
  <2>8. \A e \in Deployments : e \in Elems(senders') <=> request'[e] = "blocked"
    BY <2>1, <2>3, <2>4, <2>5
  <2>9. QED
    BY <1>3, <2>2, <2>3, <2>7, <2>8 DEF EnqueueSend, Elems
<1>4. ASSUME NEW d \in Deployments, EnqueueBlock(d)
      PROVE  Channel'
  <2>1. d \notin Elems(jobQueue) /\ d \notin Elems(senders)
    BY <1>4 DEF EnqueueBlock
  <2>2. NoRepeat(senders') /\ Elems(senders') = Elems(senders) \union {d}
    <3>1. senders' = Append(senders, d) /\ senders \in Seq(Deployments) /\ NoRepeat(senders)
      BY <1>4 DEF EnqueueBlock
    <3>2. QED
      BY <2>1, <3>1, Joins
  <2>3. request' = [request EXCEPT ![d] = "blocked"] /\ UNCHANGED <<jobQueue, finished, cancelled>> /\ ~cancelled
    BY <1>4 DEF EnqueueBlock, Answer, histVars
  <2>4. Elems(jobQueue) \subseteq Deployments /\ Elems(jobQueue') = Elems(jobQueue)
        /\ NoRepeat(jobQueue')
    BY <2>3 DEF Elems
  <2>5. QED
    BY <2>1, <2>2, <2>3, <2>4
<1>5. ASSUME NEW d \in Deployments, EnqueueTimeout(d)
      PROVE  Channel'
  <2>1. PICK i \in DOMAIN senders : senders[i] = d /\ senders' = Without(senders, i)
    BY <1>5 DEF EnqueueTimeout
  <2>2. NoRepeat(senders') /\ Elems(senders') = Elems(senders) \ {d}
    BY <2>1, GivesUp
  <2>3. /\ request' = [request EXCEPT ![d] = "refused"] /\ request[d] = "blocked"
        /\ UNCHANGED <<jobQueue, finished, cancelled>>
    BY <1>5 DEF EnqueueTimeout, Answer, histVars
  <2>4. senders # <<>>
    BY <2>1
  <2>5. Elems(jobQueue) \subseteq Deployments /\ Elems(jobQueue') = Elems(jobQueue)
        /\ NoRepeat(jobQueue')
    BY <2>3 DEF Elems
  <2>6. QED
    BY <2>2, <2>3, <2>4, <2>5
<1>6. ASSUME NEW w \in Workers, Receive(w)
      PROVE  Channel'
  <2> DEFINE q == Tail(jobQueue)
  <2>1. /\ q \in Seq(Deployments) /\ NoRepeat(q)
        /\ Elems(q) \subseteq Elems(jobQueue) /\ Elems(jobQueue) \subseteq Deployments
    BY <1>6, Leaves DEF Receive, Elems
  <2>2. CASE senders = <<>>
    <3>1. jobQueue' = q /\ UNCHANGED <<senders, request, finished, cancelled>>
      BY <1>6, <2>2 DEF Receive
    <3>2. Elems(senders') = Elems(senders) /\ NoRepeat(senders')
      BY <3>1
    <3>3. QED
      BY <2>1, <3>1, <3>2
  <2>3. CASE senders # <<>>
    <3> DEFINE h == Head(senders)
    <3>1. /\ jobQueue' = Append(q, h) /\ senders' = Tail(senders)
          /\ request' = [request EXCEPT ![h] = "accepted"]
          /\ UNCHANGED <<finished, cancelled>>
      BY <1>6, <2>3 DEF Receive, Answer
    <3>2. /\ h \in Deployments /\ h \in Elems(senders) /\ NoRepeat(senders')
          /\ Elems(senders') = Elems(senders) \ {h}
      BY <2>3, <3>1, Leaves
    <3>3. request[h] = "blocked" /\ h \notin Elems(jobQueue) /\ h \notin finished
      BY <3>2 DEF History
    <3>4. NoRepeat(jobQueue') /\ Elems(jobQueue') = Elems(q) \union {h}
      <4> HIDE DEF q, h
      <4>1. h \notin Elems(q)
        BY <2>1, <3>3
      <4>2. QED
        BY <2>1, <3>1, <3>2, <4>1, Joins
    <3> HIDE DEF q, h
    <3>5. \A e \in Elems(jobQueue') : request'[e] = "accepted" /\ e \notin finished'
      BY <2>1, <3>1, <3>2, <3>3, <3>4
    <3>6. \A e \in Deployments : e \in Elems(senders') <=> request'[e] = "blocked"
      BY <3>1, <3>2
    <3>7. ~cancelled'
      BY <2>3, <3>1
    <3>8. QED
      BY <3>2, <3>4, <3>5, <3>6, <3>7
  <2>4. QED
    BY <2>2, <2>3
<1>7. ASSUME NEW w \in Workers, FinishExecute(w)
      PROVE  Channel'
  <2>1. worker[w].job \notin Elems(jobQueue)
    BY <1>7 DEF FinishExecute, At, Hands, Holding
  <2>2. UNCHANGED <<jobQueue, senders, request, cancelled>> /\ finished' = finished \union {worker[w].job}
    BY <1>7 DEF FinishExecute, chanVars
  <2>3. QED
    BY <2>1, <2>2 DEF Elems, NoRepeat
<1>8. CASE StopCancel
  <2>1. NoRepeat(senders') /\ Elems(senders') = {}
    BY <1>8, EmptyQueue DEF StopCancel
  <2>2. NoRepeat(jobQueue') /\ Elems(jobQueue') = Elems(jobQueue) /\ Elems(jobQueue) \subseteq Deployments
    BY <1>8 DEF StopCancel, Elems
  <2>3. QED
    BY <1>8, <2>1, <2>2 DEF StopCancel, histVars
<1>9. CASE ProcessEnds
  <2>1. /\ NoRepeat(senders') /\ Elems(senders') = {} /\ senders' = <<>>
        /\ NoRepeat(jobQueue') /\ Elems(jobQueue') = {}
    BY <1>9, EmptyQueue DEF ProcessEnds
  <2>2. QED
    BY <1>9, <2>1 DEF ProcessEnds
<1>10. CASE Restart
  BY <1>10 DEF Restart, Elems, NoRepeat, histVars
<1>11. QED
  BY <1>1, <1>2, <1>3, <1>4, <1>5, <1>6, <1>7, <1>8, <1>9, <1>10, ChannelMoves
-----------------------------------------------------------------------------
(* The workers.                                                            *)

(* A job that a worker holds stays accepted, finished or not, and out of   *)
(* the channel, whatever the requests do.                                  *)
LEMMA RequestsSpareJobs ==
    ASSUME IInv, NEW d \in Deployments, RequestStep(d)
    PROVE  /\ \A e \in Deployments : request[e] = "accepted" => request'[e] = "accepted"
           /\ Elems(jobQueue') \subseteq Elems(jobQueue) \union {d}
           /\ d \in Elems(jobQueue') => d \in Elems(jobQueue) \/ request[d] # "accepted"
           /\ UNCHANGED <<worker, finished, main>>
<1> USE DEF IInv, TypeOK
<1>1. CASE EnqueueSend(d)
  <2>1. /\ jobQueue' = Append(jobQueue, d) /\ jobQueue \in Seq(Deployments)
        /\ request' = [request EXCEPT ![d] = "accepted"] /\ request[d] = "created"
        /\ UNCHANGED <<worker, finished, main>>
    BY <1>1 DEF EnqueueSend, Answer, workVars, procVars
  <2>2. Elems(jobQueue') = Elems(jobQueue) \union {d}
    BY <2>1, Joins
  <2>3. QED
    BY <2>1, <2>2
<1>2. CASE ~EnqueueSend(d)
  <2>1. UNCHANGED <<jobQueue, worker, finished, main>>
    BY <1>2 DEF RequestStep, CreateDeployment, MarkDeploying, StartDeployment,
       EnqueueBlock, EnqueueTimeout, EnqueueCancelled, EnqueuePanic, chanVars, workVars,
       procVars, histVars
  <2>2. \/ UNCHANGED request
        \/ request[d] # "accepted" /\ \E o \in Requests : request' = [request EXCEPT ![d] = o]
    BY <1>2 DEF RequestStep, CreateDeployment, MarkDeploying, StartDeployment,
       EnqueueBlock, EnqueueTimeout, EnqueueCancelled, EnqueuePanic, Answer, Requests
  <2>3. Elems(jobQueue') = Elems(jobQueue)
    BY <2>1
  <2>4. QED
    BY <2>1, <2>2, <2>3
<1>3. QED
  BY <1>1, <1>2

(* Whatever moves, workers hold jobs of their own.                         *)
LEMMA HandsKept ==
    ASSUME IInv, [Next]_vars
    PROVE  Hands'
<1> USE DEF IInv, TypeOK, Hands, Holding
<1>1. ASSUME NEW d \in Deployments, RequestStep(d)
      PROVE  Hands'
  BY <1>1, RequestsSpareJobs
<1>2. ASSUME NEW w \in Workers, Receive(w)
      PROVE  Hands'
  <2> DEFINE j == Head(jobQueue)
  <2>1. /\ j \in Elems(jobQueue) /\ j \in Deployments /\ j \notin Elems(Tail(jobQueue))
        /\ Tail(jobQueue) \in Seq(Deployments)
        /\ Elems(Tail(jobQueue)) \subseteq Elems(jobQueue)
    BY <1>2, Leaves DEF Receive, Channel
  <2>2. request[j] = "accepted" /\ j \notin finished
    BY <2>1 DEF Channel
  <2>3. \A v \in Workers : worker[v].job # j
    BY <2>1, QueueAssumption
  <2>4. /\ worker' = [worker EXCEPT ![w] = [pc |-> "acquire", job |-> j]]
        /\ worker[w].pc = "select" /\ finished' = finished
    BY <1>2 DEF Receive, At
  <2>5. /\ \A e \in Deployments : request[e] = "accepted" => request'[e] = "accepted"
        /\ \A e \in Deployments :
              request[e] = "accepted" /\ e \in Elems(jobQueue') => e \in Elems(Tail(jobQueue))
    <3>1. CASE senders = <<>>
      BY <1>2, <3>1 DEF Receive
    <3>2. CASE senders # <<>>
      <4> DEFINE h == Head(senders)
      <4>1. /\ jobQueue' = Append(Tail(jobQueue), h)
            /\ request' = [request EXCEPT ![h] = "accepted"]
        BY <1>2, <3>2 DEF Receive, Answer
      <4>2. h \in Deployments /\ h \in Elems(senders)
        BY <3>2, Leaves
      <4>3. request[h] = "blocked"
        BY <4>2 DEF Channel
      <4>4. Elems(jobQueue') = Elems(Tail(jobQueue)) \union {h}
        <5> DEFINE q == Tail(jobQueue)
        <5>1. q \in Seq(Deployments) /\ jobQueue' = Append(q, h)
          BY <2>1, <4>1
        <5> HIDE DEF q, h
        <5>2. Elems(Append(q, h)) = Elems(q) \union {h}
          BY <4>2, <5>1, Joins
        <5>3. QED
          BY <5>1, <5>2 DEF q
      <4>5. QED
        BY <4>1, <4>2, <4>3, <4>4
    <3>3. QED
      BY <3>1, <3>2
  <2> HIDE DEF j
  <2>6. ASSUME NEW v \in Workers
        PROVE  IF worker'[v].pc \in Holding
               THEN /\ worker'[v].job \in Deployments \ Elems(jobQueue')
                    /\ request'[worker'[v].job] = "accepted"
                    /\ worker'[v].job \in finished' <=> worker'[v].pc \in {"release", "report"}
               ELSE worker'[v].job = NoJob
    <3>1. CASE v = w
      BY <2>1, <2>2, <2>4, <2>5, <3>1
    <3>2. CASE v # w
      BY <2>1, <2>4, <2>5, <3>2
    <3>3. QED
      BY <3>1, <3>2
  <2>7. ASSUME NEW u \in Workers, NEW v \in Workers, u # v, worker'[u].job = worker'[v].job
        PROVE  worker'[u].job = NoJob
    BY <2>3, <2>4, <2>7
  <2>8. QED
    BY <2>6, <2>7
<1>3. ASSUME NEW w \in Workers, ExitLoop(w) \/ AcquireSemaphore(w) \/ ReleaseSemaphore(w)
      PROVE  Hands'
  <2>1. UNCHANGED <<jobQueue, request, finished>>
    BY <1>3 DEF ExitLoop, AcquireSemaphore, ReleaseSemaphore, chanVars, histVars
  <2>2. \A v \in Workers :
          /\ worker'[v].job = worker[v].job
          /\ worker'[v].pc \in Holding <=> worker[v].pc \in Holding
          /\ worker'[v].pc \in {"release", "report"} <=> worker[v].pc \in {"release", "report"}
    BY <1>3 DEF ExitLoop, AcquireSemaphore, ReleaseSemaphore, At, Goto
  <2>3. Elems(jobQueue') = Elems(jobQueue)
    BY <2>1
  <2>4. QED
    BY <2>1, <2>2, <2>3
<1>4. ASSUME NEW w \in Workers, UpdateStep(w)
      PROVE  Hands'
  BY <1>4 DEF UpdateStep, chanVars, workVars, histVars, Elems
<1>5. ASSUME NEW w \in Workers, FinishExecute(w)
      PROVE  Hands'
  <2>1. /\ UNCHANGED <<jobQueue, request>> /\ finished' = finished \union {worker[w].job}
        /\ \A v \in Workers : worker'[v].job = worker[v].job
        /\ \A v \in Workers \ {w} : worker'[v].pc = worker[v].pc
        /\ worker[w].pc = "execute" /\ worker'[w].pc = "release"
    BY <1>5 DEF FinishExecute, At, Goto, chanVars
  <2>2. Elems(jobQueue') = Elems(jobQueue)
    BY <2>1
  <2>3. QED
    BY <2>1, <2>2, QueueAssumption
<1>6. ASSUME NEW w \in Workers, Report(w)
      PROVE  Hands'
  <2>1. /\ UNCHANGED <<jobQueue, request, finished>>
        /\ worker' = [worker EXCEPT ![w] = [pc |-> "select", job |-> NoJob]]
    BY <1>6 DEF Report, chanVars, histVars, Idle
  <2>2. Elems(jobQueue') = Elems(jobQueue)
    BY <2>1
  <2>3. QED
    BY <2>1, <2>2
<1>7. CASE BeginShutdown \/ HttpShutdownReturns \/ ServerError \/ StopClose \/ UNCHANGED vars
  <2>1. UNCHANGED <<jobQueue, request, finished, worker>>
    BY <1>7 DEF BeginShutdown, HttpShutdownReturns, ServerError, StopClose, workVars,
       histVars, chanVars, vars
  <2>2. Elems(jobQueue') = Elems(jobQueue)
    BY <2>1
  <2>3. QED
    BY <2>1, <2>2
<1>8. CASE StopCancel
  <2>1. /\ UNCHANGED <<jobQueue, finished, worker>>
        /\ \A e \in Deployments : request[e] = "accepted" => request'[e] = "accepted"
    BY <1>8 DEF StopCancel, workVars, histVars
  <2>2. Elems(jobQueue') = Elems(jobQueue)
    BY <2>1
  <2>3. QED
    BY <2>1, <2>2
<1>9. CASE ProcessEnds
  BY <1>9 DEF ProcessEnds
<1>10. CASE Restart
  BY <1>10 DEF Restart, Idle
<1>11. QED
  BY <1>1, <1>2, <1>3, <1>4, <1>5, <1>6, <1>7, <1>8, <1>9, <1>10
     DEF Next, WorkerStep, MainStep, StopReturns, Crash
-----------------------------------------------------------------------------
(* What is left of a process, and what its successor finds.                *)

(* A finished deployment stays accepted, and rows come with requests.      *)
LEMMA HistoryKept ==
    ASSUME IInv, [Next]_vars
    PROVE  History'
<1> USE DEF IInv, TypeOK, History
<1>1. ASSUME NEW d \in Deployments, RequestStep(d)
      PROVE  History'
  <2>1. finished' = finished /\ \A e \in finished : request'[e] = "accepted"
    BY <1>1, RequestsSpareJobs
  <2>2. \/ UNCHANGED row
        \/ row[d] # "absent" /\ \E r \in Rows : row' = [row EXCEPT ![d] = r]
        \/ CreateDeployment(d)
    BY <1>1 DEF RequestStep, MarkDeploying, StartDeployment, EnqueueSend, EnqueueBlock,
       EnqueueTimeout, EnqueueCancelled, EnqueuePanic, Write, Rows
  <2>3. \A e \in Deployments : request'[e] = "none" => request[e] = "none"
    BY <1>1 DEF RequestStep, CreateDeployment, MarkDeploying, StartDeployment, EnqueueSend,
       EnqueueBlock, EnqueueTimeout, EnqueueCancelled, EnqueuePanic, Answer
  <2>4. CASE CreateDeployment(d)
    BY <2>1, <2>3, <2>4 DEF CreateDeployment, Answer, Write
  <2>5. CASE ~CreateDeployment(d)
    BY <2>1, <2>2, <2>3, <2>5
  <2>6. QED
    BY <2>4, <2>5
<1>2. ASSUME NEW w \in Workers, WorkerStep(w)
      PROVE  History'
  <2>1. CASE Receive(w)
    <3>1. CASE senders = <<>>
      BY <2>1, <3>1 DEF Receive
    <3>2. CASE senders # <<>>
      <4>1. Head(senders) \in Deployments
        BY <3>2, Leaves
      <4>2. request' = [request EXCEPT ![Head(senders)] = "accepted"] /\ UNCHANGED <<row, finished>>
        BY <2>1, <3>2 DEF Receive, Answer
      <4>3. QED
        BY <4>1, <4>2
    <3>3. QED
      BY <3>1, <3>2
  <2>2. CASE FinishExecute(w)
    <3> DEFINE j == worker[w].job
    <3>1. j \in Deployments /\ request[j] = "accepted"
      BY <2>2 DEF FinishExecute, At, Hands, Holding
    <3>2. UNCHANGED request /\ finished' = finished \union {j}
      BY <2>2 DEF FinishExecute
    <3>3. row' = row \/ \E r \in Final : row' = [row EXCEPT ![j] = r]
      BY <2>2 DEF FinishExecute, Write
    <3> HIDE DEF j
    <3>4. QED
      BY <3>1, <3>2, <3>3
  <2>3. CASE UpdateStep(w)
    <3> DEFINE j == worker[w].job
    <3>1. j \in Deployments /\ request[j] = "accepted"
      BY <2>3 DEF UpdateStep, At, Hands, Holding
    <3>2. UNCHANGED <<request, finished>> /\ (row' = row \/ row' = [row EXCEPT ![j] = "active"])
      BY <2>3 DEF UpdateStep, Write, histVars
    <3> HIDE DEF j
    <3>3. QED
      BY <3>1, <3>2
  <2>4. CASE ExitLoop(w) \/ AcquireSemaphore(w) \/ ReleaseSemaphore(w) \/ Report(w)
    BY <2>4 DEF ExitLoop, AcquireSemaphore, ReleaseSemaphore, Report, histVars
  <2>5. QED
    BY <1>2, <2>1, <2>2, <2>3, <2>4 DEF WorkerStep
<1>3. CASE StopCancel
  BY <1>3 DEF StopCancel, histVars
<1>4. CASE ProcessEnds
  BY <1>4 DEF ProcessEnds
<1>5. CASE BeginShutdown \/ HttpShutdownReturns \/ ServerError \/ StopClose \/ Restart \/ UNCHANGED vars
  BY <1>5 DEF BeginShutdown, HttpShutdownReturns, ServerError, StopClose, Restart, histVars,
     vars, diskVars
<1>6. QED
  BY <1>1, <1>2, <1>3, <1>4, <1>5 DEF Next, MainStep, StopReturns, Crash

(* A process that is down takes no step but to start again.                *)
LEMMA DownKept ==
    ASSUME IInv, [Next]_vars
    PROVE  Down'
<1> USE DEF IInv, TypeOK, Down
<1>1. CASE ProcessEnds
  BY <1>1 DEF ProcessEnds
<1>2. CASE Restart \/ BeginShutdown \/ HttpShutdownReturns \/ ServerError \/ StopCancel \/ StopClose
  BY <1>2 DEF Restart, BeginShutdown, HttpShutdownReturns, ServerError, StopCancel, StopClose
<1>3. ASSUME NEW d \in Deployments, RequestStep(d)
      PROVE  Down'
  <2>1. main # "down" /\ main' = main
    BY <1>3 DEF RequestStep, Running, CreateDeployment, MarkDeploying, StartDeployment,
       EnqueueSend, EnqueueBlock, EnqueueTimeout, EnqueueCancelled, EnqueuePanic, procVars
  <2>2. QED
    BY <2>1
<1>4. ASSUME NEW w \in Workers, WorkerStep(w)
      PROVE  Down'
  <2>1. main # "down" /\ main' = main
    BY <1>4 DEF WorkerStep, At, Running, Receive, ExitLoop, AcquireSemaphore, UpdateStep,
       FinishExecute, ReleaseSemaphore, Report, procVars
  <2>2. QED
    BY <2>1
<1>5. CASE UNCHANGED vars
  BY <1>5 DEF vars, chanVars, workVars, procVars, histVars
<1>6. QED
  BY <1>1, <1>2, <1>3, <1>4, <1>5 DEF Next, MainStep, StopReturns, Crash
-----------------------------------------------------------------------------
(* The invariant holds before the first request.                           *)
LEMMA InvInit == Init => IInv
<1> SUFFICES ASSUME Init PROVE IInv
  OBVIOUS
<1> USE DEF Init
<1>1. /\ jobQueue \in Seq(Deployments) /\ senders \in Seq(Deployments)
      /\ accepted \in Seq(Deployments)
      /\ Elems(jobQueue) = {} /\ Elems(senders) = {}
      /\ NoRepeat(jobQueue) /\ NoRepeat(senders)
  BY EmptyQueue
<1>2. worker \in [Workers -> [pc : WorkerPcs, job : Deployments \union {NoJob}]]
  BY DEF Idle, WorkerPcs
<1>3. TypeOK
  BY <1>1, <1>2 DEF TypeOK, Rows, Requests, Mains
<1>4. Holders = {}
  BY DEF Holders, Idle
<1>5. SemaphoreExact
  BY <1>4, FS_EmptySet, QueueAssumption DEF SemaphoreExact
<1>6. Channel /\ Hands /\ History /\ Down
  BY <1>1 DEF Channel, Hands, Holding, Idle, History, Down
<1>7. QED
  BY <1>3, <1>5, <1>6 DEF IInv

(* IInv is inductive.                                                      *)
LEMMA InvNext == IInv /\ [Next]_vars => IInv'
BY TokensKept, Typed, ChannelKept, HandsKept, HistoryKept, DownKept DEF IInv

(* IInv is an invariant of the queue.                                      *)
LEMMA InvHolds == Spec => []IInv
BY InvInit, InvNext, PTL DEF Spec

(* The state has its type in every reachable state; the semaphore never    *)
(* goes below zero, whichever worker gives back a token.                   *)
THEOREM TypeCorrect == Spec => []TypeOK
<1>1. IInv => TypeOK
  BY DEF IInv
<1>2. QED
  BY <1>1, InvHolds, PTL

(* Every token belongs to one execution in progress, and no more than      *)
(* MaxConcurrent run at once.                                              *)
THEOREM TokensExact == Spec => []SemaphoreExact
<1>1. IInv => SemaphoreExact
  BY DEF IInv
<1>2. QED
  BY <1>1, InvHolds, PTL

(* A job is in one place at a time, for any interleaving of handlers,      *)
(* workers, stops and restarts.                                            *)
THEOREM JobsInOnePlace == Spec => []OnePlace
<1>1. IInv => OnePlace
  <2> SUFFICES ASSUME IInv PROVE OnePlace
    OBVIOUS
  <2> USE DEF IInv, TypeOK, Channel, Hands, History, Holding
  <2>1. Elems(jobQueue) \subseteq Deployments /\ Elems(senders) \subseteq Deployments
    BY DEF Elems
  <2>2. Elems(jobQueue) \intersect Elems(senders) = {}
    BY <2>1
  <2>3. /\ NoRepeat(jobQueue \o senders)
        /\ Elems(jobQueue \o senders) = Elems(jobQueue) \union Elems(senders)
    BY <2>2, OneLine
  <2>4. Elems(jobQueue \o senders) \intersect finished = {}
    BY <2>1, <2>3
  <2>5. \A w \in Workers : worker[w].job \notin Elems(jobQueue \o senders)
    BY <2>1, <2>3, QueueAssumption
  <2>6. QED
    BY <2>3, <2>4, <2>5 DEF OnePlace
<1>2. QED
  BY <1>1, InvHolds, PTL
-----------------------------------------------------------------------------
(* The order of service: the buffer, read from its end, is what was        *)
(* accepted, read from its end; and requests wait at a full buffer only.   *)
Suffix(q, s) ==
    /\ Len(q) <= Len(s)
    /\ \A i \in 1..Len(q) : q[i] = s[Len(s) - Len(q) + i]

Line ==
    /\ Suffix(jobQueue, accepted)
    /\ senders # <<>> => Len(jobQueue) = BufferSize

(* A suffix keeps being one when both sequences grow by the same job.      *)
LEMMA SuffixGrows ==
    ASSUME NEW S, NEW q \in Seq(S), NEW s \in Seq(S), NEW e \in S, Suffix(q, s)
    PROVE  Suffix(Append(q, e), Append(s, e))
<1> DEFINE p == Append(q, e)
           t == Append(s, e)
<1>1. /\ Len(p) = Len(q) + 1 /\ Len(t) = Len(s) + 1
      /\ \A k \in 1..Len(q) : p[k] = q[k]
      /\ \A k \in 1..Len(s) : t[k] = s[k]
      /\ p[Len(q) + 1] = e /\ t[Len(s) + 1] = e
  BY Joins
<1>2. Len(q) \in Nat /\ Len(s) \in Nat
  OBVIOUS
<1> HIDE DEF p, t
<1>3. ASSUME NEW i \in 1..Len(p)
      PROVE  p[i] = t[Len(t) - Len(p) + i]
  <2>1. CASE i = Len(q) + 1
    <3>1. Len(t) - Len(p) + i = Len(s) + 1
      BY <1>1, <1>2, <2>1
    <3>2. QED
      BY <1>1, <2>1, <3>1
  <2>2. CASE i # Len(q) + 1
    <3> DEFINE k == Len(s) - Len(q) + i
    <3>1. i \in 1..Len(q) /\ k \in 1..Len(s) /\ Len(t) - Len(p) + i = k
      BY <1>1, <1>2, <2>2 DEF Suffix
    <3>2. q[i] = s[k]
      BY <3>1 DEF Suffix
    <3> HIDE DEF k
    <3>3. QED
      BY <1>1, <3>1, <3>2
  <2>3. QED
    BY <2>1, <2>2
<1>4. Len(p) <= Len(t)
  BY <1>1, <1>2 DEF Suffix
<1>5. Suffix(p, t)
  BY <1>3, <1>4 DEF Suffix
<1>6. QED
  BY <1>5 DEF p, t

(* ... and when its first job is taken.                                    *)
LEMMA SuffixShrinks ==
    ASSUME NEW S, NEW q \in Seq(S), NEW s \in Seq(S), Suffix(q, s), q # <<>>
    PROVE  Suffix(Tail(q), s)
<1> DEFINE p == Tail(q)
<1>1. /\ Len(p) = Len(q) - 1 /\ p \in Seq(S)
      /\ \A k \in 1..Len(p) : p[k] = q[k + 1]
  BY Leaves
<1>2. Len(q) \in Nat /\ Len(s) \in Nat
  OBVIOUS
<1> HIDE DEF p
<1>3. ASSUME NEW i \in 1..Len(p)
      PROVE  p[i] = s[Len(s) - Len(p) + i]
  <2>1. i + 1 \in 1..Len(q) /\ Len(s) - Len(p) + i = Len(s) - Len(q) + (i + 1)
    BY <1>1, <1>2
  <2>2. q[i + 1] = s[Len(s) - Len(q) + (i + 1)]
    BY <2>1 DEF Suffix
  <2>3. QED
    BY <1>1, <2>1, <2>2
<1>4. QED
  BY <1>1, <1>2, <1>3 DEF Suffix, p

(* No step serves a job out of turn.                                       *)
LEMMA LineKept ==
    ASSUME IInv, Line, [Next]_vars
    PROVE  Line'
<1> USE DEF IInv, TypeOK, Line
<1>1. ASSUME NEW d \in Deployments, EnqueueSend(d)
      PROVE  Line'
  <2>1. /\ jobQueue' = Append(jobQueue, d) /\ accepted' = Append(accepted, d)
        /\ senders' = senders /\ Len(jobQueue) < BufferSize
    BY <1>1 DEF EnqueueSend
  <2>2. Suffix(jobQueue', accepted')
    BY <2>1, SuffixGrows
  <2>3. senders = <<>>
    BY <2>1, QueueAssumption
  <2>4. QED
    BY <2>1, <2>2, <2>3
<1>2. ASSUME NEW d \in Deployments, EnqueueBlock(d) \/ EnqueueTimeout(d)
      PROVE  Line'
  <2>1. UNCHANGED <<jobQueue, accepted>> /\ Len(jobQueue) = BufferSize
    BY <1>2 DEF EnqueueBlock, EnqueueTimeout, histVars
  <2>2. QED
    BY <2>1
<1>3. ASSUME NEW w \in Workers, Receive(w)
      PROVE  Line'
  <2> DEFINE q == Tail(jobQueue)
  <2>1. q \in Seq(Deployments) /\ Len(q) = Len(jobQueue) - 1 /\ Suffix(q, accepted)
    BY <1>3, Leaves, SuffixShrinks DEF Receive
  <2>2. CASE senders = <<>>
    BY <1>3, <2>1, <2>2 DEF Receive
  <2>3. CASE senders # <<>>
    <3> DEFINE h == Head(senders)
    <3>1. jobQueue' = Append(q, h) /\ accepted' = Append(accepted, h)
      BY <1>3, <2>3 DEF Receive
    <3>2. h \in Deployments
      BY <2>3, Leaves
    <3> HIDE DEF q, h
    <3>3. Suffix(jobQueue', accepted')
      BY <2>1, <3>1, <3>2, SuffixGrows
    <3>4. Len(jobQueue') = Len(jobQueue)
      BY <2>1, <3>1, <3>2, Joins
    <3>5. QED
      BY <2>3, <3>3, <3>4
  <2>4. QED
    BY <2>2, <2>3
<1>4. CASE StopCancel
  BY <1>4 DEF StopCancel, histVars
<1>5. CASE ProcessEnds
  BY <1>5, EmptyQueue DEF ProcessEnds, Suffix
<1>6. CASE UNCHANGED <<jobQueue, senders, accepted>>
  BY <1>6
<1>7. UNCHANGED <<jobQueue, senders, accepted>>
         \/ (\E d \in Deployments : EnqueueSend(d) \/ EnqueueBlock(d) \/ EnqueueTimeout(d))
         \/ (\E w \in Workers : Receive(w)) \/ StopCancel \/ ProcessEnds
  BY DEF Next, vars, RequestStep, WorkerStep, MainStep, chanVars, histVars, CreateDeployment,
     EnqueueCancelled, EnqueuePanic, FinishExecute, Restart,
     MarkDeploying, StartDeployment, ExitLoop, AcquireSemaphore, UpdateStep,
     ReleaseSemaphore, Report, BeginShutdown, HttpShutdownReturns, ServerError,
     StopClose, StopReturns, Crash
<1>8. QED
  BY <1>1, <1>2, <1>3, <1>4, <1>5, <1>6, <1>7

(* Jobs are served in the order in which they were accepted, and a request *)
(* waits only while the buffer is full.                                    *)
THEOREM ServedInOrder == Spec => []FifoService
<1>1. Init => Line
  BY EmptyQueue DEF Init, Line, Suffix
<1>2. IInv /\ Line /\ [Next]_vars => Line'
  BY LineKept
<1>3. IInv /\ Line => FifoService
  <2> SUFFICES ASSUME IInv, Line PROVE FifoService
    OBVIOUS
  <2> DEFINE m == Len(accepted) - Len(jobQueue) + 1
             n == Len(accepted)
             s == SubSeq(accepted, m, n)
  <2>1. /\ Len(accepted) \in Nat /\ Len(jobQueue) \in Nat /\ Len(jobQueue) <= Len(accepted)
        /\ jobQueue \in Seq(Deployments) /\ accepted \in Seq(Deployments)
    BY DEF IInv, TypeOK, Line, Suffix
  <2>2. m \in Int /\ n \in Int /\ n - m + 1 = Len(jobQueue) /\ \A i \in m..n : accepted[i] \in Deployments
    BY <2>1
  <2>3. /\ s \in Seq(Deployments) /\ Len(s) = IF m <= n THEN n - m + 1 ELSE 0
        /\ \A i \in 1..(n - m + 1) : s[i] = accepted[m + i - 1]
    BY <2>2, SubSeqProperties
  <2>4. Len(s) = Len(jobQueue)
    BY <2>1, <2>2, <2>3
  <2>5. ASSUME NEW i \in 1..Len(jobQueue)
        PROVE  jobQueue[i] = s[i]
    <3>1. m + i - 1 = Len(accepted) - Len(jobQueue) + i
      BY <2>1
    <3>2. jobQueue[i] = accepted[Len(accepted) - Len(jobQueue) + i]
      BY DEF Line, Suffix
    <3> HIDE DEF s, m, n
    <3>3. QED
      BY <2>2, <2>3, <3>1, <3>2
  <2> HIDE DEF s
  <2>6. jobQueue = s
    BY <2>1, <2>3, <2>4, <2>5, SeqEqual
  <2>7. QED
    BY <2>6 DEF FifoService, Line, s
<1>4. QED
  BY <1>1, <1>2, <1>3, InvHolds, PTL DEF Spec

-----------------------------------------------------------------------------
(* DeployQueue implements DeploymentLifecycle: from outside, a job is      *)
(* offered once, accepted or refused, executed at most once and settled,   *)
(* whatever the sizes of the queue.  Each step of the queue is a step of   *)
(* the promise or leaves what the promise shows unchanged.                 *)

(* What the two parts of JobView that look at several variables say.       *)
Executing(d) == \E w \in Workers : worker[w].pc = "execute" /\ worker[w].job = d
Somewhere(d) == d \in Elems(jobQueue) \/ \E w \in Workers : worker[w].job = d

-----------------------------------------------------------------------------
(* JobView, case by case.                                                  *)
Sight(d) ==
    IF request[d] = "none" THEN "new"
    ELSE IF request[d] \in {"created", "blocked"} THEN "offered"
    ELSE IF request[d] # "accepted" THEN "lost"
    ELSE IF d \in finished THEN "settled"
    ELSE IF Executing(d) THEN "executing"
    ELSE IF Somewhere(d) THEN "pending"
    ELSE "lost"

AllSeen == \A d \in Deployments : JobView(d) = Sight(d)

(* They are the cases of JobView.                                          *)
LEMMA Seen == TypeOK => AllSeen
<1> SUFFICES ASSUME TypeOK, NEW d \in Deployments PROVE JobView(d) = Sight(d)
  BY DEF AllSeen
<1>1. \A w \in Workers :
         worker[w] = [pc |-> "execute", job |-> d]
           <=> worker[w].pc = "execute" /\ worker[w].job = d
  BY DEF TypeOK
<1>2. request[d] \in {"none", "created", "blocked", "refused", "panicked", "killed", "accepted"}
  BY DEF TypeOK, Requests
<1>3. CASE request[d] = "accepted"
  BY <1>1, <1>3 DEF JobView, Sight, Executing, Somewhere
<1>4. CASE request[d] # "accepted"
  BY <1>2, <1>4 DEF JobView, Sight
<1>5. QED
  BY <1>3, <1>4

(* ... before a step and after it.                                         *)
LEMMA SeenAfter == TypeOK' => AllSeen'
BY Seen, PTL

(* A job of which nothing changes that matters is seen as before.          *)
LEMMA SeenAsBefore ==
    ASSUME TypeOK, TypeOK', NEW d \in Deployments,
           request'[d] = request[d], d \in finished' <=> d \in finished,
           request[d] = "accepted" /\ d \notin finished =>
              (Executing(d)' <=> Executing(d)) /\ (Somewhere(d)' <=> Somewhere(d))
    PROVE  JobView(d)' = JobView(d)
<1>1. JobView(d) = Sight(d) /\ JobView(d)' = Sight(d)'
  BY Seen, SeenAfter DEF AllSeen
<1>2. Sight(d)' = Sight(d)
  BY DEF Sight
<1>3. QED
  BY <1>1, <1>2
-----------------------------------------------------------------------------
(* Steps of the promise.                                                   *)

(* One job moves.                                                          *)
LEMMA OneMoves ==
    ASSUME NEW d \in Deployments, NEW from, NEW to,
           JobView(d) = from, JobView(d)' = to,
           \A e \in Deployments \ {d} : JobView(e)' = JobView(e)
    PROVE  Promise!Move(d, from, to)
BY DEF Promise!Move

(* Nothing moves.                                                          *)
LEMMA NoneMoves ==
    ASSUME \A e \in Deployments : JobView(e)' = JobView(e), row' = row
    PROVE  UNCHANGED Promise!vars
BY DEF Promise!vars

(* Nothing moves, and a working state may be written.                      *)
LEMMA RowMoves ==
    ASSUME \A e \in Deployments : JobView(e)' = JobView(e),
           NEW d \in Deployments, JobView(d) # "new", Write(d, "active")
    PROVE  [Promise!Next]_(Promise!vars)
<1>1. CASE row' = row
  BY <1>1, NoneMoves
<1>2. CASE row' # row
  <2>1. row' = [row EXCEPT ![d] = "active"]
    BY <1>2 DEF Write
  <2>2. Promise!Activate(d)
    BY <2>1 DEF Promise!Activate
  <2>3. QED
    BY <2>2 DEF Promise!Next
<1>3. QED
  BY <1>1, <1>2

(* The jobs of a set are lost.                                             *)
LEMMA SomeLost ==
    ASSUME NEW S \in SUBSET Deployments, row' = row,
           \A e \in S : JobView(e) \notin {"new", "settled"} /\ JobView(e)' = "lost",
           \A e \in Deployments \ S : JobView(e)' = JobView(e)
    PROVE  [Promise!Next]_(Promise!vars)
<1>1. Promise!Lose(S)
  BY DEF Promise!Lose
<1>2. QED
  BY <1>1 DEF Promise!Next
-----------------------------------------------------------------------------
(* What a job is while a request, the channel or a worker has it.          *)
LEMMA Views ==
    ASSUME IInv, NEW d \in Deployments
    PROVE  /\ JobView(d) = Sight(d)
           /\ request[d] \in {"created", "blocked"} => JobView(d) = "offered"
           /\ request[d] # "accepted" => ~Executing(d) /\ ~Somewhere(d) /\ d \notin finished
           /\ d \in Elems(jobQueue) => JobView(d) = "pending"
           /\ \A w \in Workers : worker[w].job = d =>
                 /\ worker[w].pc = "acquire" => JobView(d) = "pending"
                 /\ worker[w].pc = "execute" => JobView(d) = "executing"
                 /\ worker[w].pc \in {"release", "report"} => JobView(d) = "settled"
<1> USE DEF IInv, TypeOK, Hands, Holding
<1>1. JobView(d) = Sight(d)
  BY Seen DEF AllSeen
<1>2. \A w \in Workers : worker[w].job = d =>
         /\ worker[w].pc \in Holding /\ request[d] = "accepted" /\ d \notin Elems(jobQueue)
         /\ d \in finished <=> worker[w].pc \in {"release", "report"}
         /\ \A v \in Workers : worker[v].job = d => v = w
  BY QueueAssumption
<1>3. request[d] # "accepted" => ~Executing(d) /\ ~Somewhere(d) /\ d \notin finished
  BY <1>2 DEF Channel, History, Executing, Somewhere
<1>4. request[d] \in {"created", "blocked"} => JobView(d) = "offered"
  BY <1>1 DEF Sight
<1>5. d \in Elems(jobQueue) => JobView(d) = "pending"
  BY <1>1, <1>2 DEF Channel, Sight, Executing, Somewhere
<1>6. ASSUME NEW w \in Workers, worker[w].job = d
      PROVE  /\ worker[w].pc = "acquire" => JobView(d) = "pending"
             /\ worker[w].pc = "execute" => JobView(d) = "executing"
             /\ worker[w].pc \in {"release", "report"} => JobView(d) = "settled"
  <2>1. Somewhere(d) /\ (Executing(d) <=> worker[w].pc = "execute")
    BY <1>2, <1>6 DEF Executing, Somewhere
  <2>2. request[d] = "accepted" /\ (d \in finished <=> worker[w].pc \in {"release", "report"})
    BY <1>2, <1>6
  <2>3. QED
    BY <1>1, <2>1, <2>2 DEF Sight
<1>7. QED
  BY <1>1, <1>3, <1>4, <1>5, <1>6

(* A request's step is a step of the promise.                              *)
LEMMA RequestRefines ==
    ASSUME IInv, IInv', NEW d \in Deployments, RequestStep(d)
    PROVE  [Promise!Next]_(Promise!vars)
<1> USE DEF IInv, TypeOK
<1>1. /\ UNCHANGED <<worker, finished>>
      /\ \A e \in Deployments \ {d} : request'[e] = request[e]
      /\ \A e \in Deployments \ {d} : e \in Elems(jobQueue') <=> e \in Elems(jobQueue)
      /\ \/ UNCHANGED jobQueue
         \/ EnqueueSend(d)
  <2>1. CASE EnqueueSend(d)
    <3>1. /\ jobQueue' = Append(jobQueue, d) /\ jobQueue \in Seq(Deployments)
          /\ request' = [request EXCEPT ![d] = "accepted"]
          /\ UNCHANGED <<worker, finished>>
      BY <2>1 DEF EnqueueSend, Answer, workVars
    <3>2. Elems(jobQueue') = Elems(jobQueue) \union {d}
      BY <3>1, Joins
    <3>3. QED
      BY <2>1, <3>1, <3>2
  <2>2. CASE ~EnqueueSend(d)
    <3>1. UNCHANGED <<jobQueue, worker, finished>>
      BY <2>2 DEF RequestStep, CreateDeployment, MarkDeploying, StartDeployment,
         EnqueueBlock, EnqueueTimeout, EnqueueCancelled, EnqueuePanic, chanVars, workVars,
         histVars
    <3>2. \A e \in Deployments \ {d} : request'[e] = request[e]
      BY <2>2 DEF RequestStep, CreateDeployment, MarkDeploying, StartDeployment,
         EnqueueBlock, EnqueueTimeout, EnqueueCancelled, EnqueuePanic, Answer
    <3>3. QED
      BY <3>1, <3>2
  <2>3. QED
    BY <2>1, <2>2
<1>2. ASSUME NEW e \in Deployments \ {d}
      PROVE  JobView(e)' = JobView(e)
  <2>1. (Executing(e)' <=> Executing(e)) /\ (Somewhere(e)' <=> Somewhere(e))
    BY <1>1 DEF Executing, Somewhere
  <2>2. QED
    BY <1>1, <2>1, SeenAsBefore
<1>3. ASSUME UNCHANGED <<request, jobQueue>>
      PROVE  \A e \in Deployments : JobView(e)' = JobView(e)
  <2>1. (Executing(d)' <=> Executing(d)) /\ (Somewhere(d)' <=> Somewhere(d))
    BY <1>1, <1>3 DEF Executing, Somewhere, Elems
  <2>2. JobView(d)' = JobView(d)
    BY <1>1, <1>3, <2>1, SeenAsBefore
  <2>3. QED
    BY <1>2, <2>2
<1>4. CASE CreateDeployment(d)
  <2>1. request[d] = "none" /\ request'[d] = "created" /\ row' = [row EXCEPT ![d] = "queued"]
    BY <1>4 DEF CreateDeployment, Answer, Write
  <2>2. JobView(d) = "new"
    BY <2>1, Seen DEF AllSeen, Sight
  <2>3. JobView(d)' = "offered"
    BY <2>1, SeenAfter DEF AllSeen, Sight
  <2>4. Promise!Create(d)
    BY <1>2, <2>1, <2>2, <2>3, OneMoves DEF Promise!Create
  <2>5. QED
    BY <2>4 DEF Promise!Next
<1>5. CASE MarkDeploying(d)
  <2>1. JobView(d) = "offered" /\ UNCHANGED <<request, jobQueue>> /\ Write(d, "active")
    BY <1>5, Views DEF MarkDeploying, chanVars
  <2>2. QED
    BY <1>3, <2>1, RowMoves
<1>6. CASE StartDeployment(d)
  <2>1. request[d] # "none" /\ UNCHANGED <<request, jobQueue>> /\ Write(d, "active")
    BY <1>6 DEF StartDeployment, History, chanVars
  <2>2. JobView(d) # "new"
    BY <2>1, Seen DEF AllSeen, Sight
  <2>3. QED
    BY <1>3, <2>1, <2>2, RowMoves
<1>7. CASE EnqueueSend(d)
  <2>1. /\ request[d] = "created" /\ request'[d] = "accepted" /\ row' = row
        /\ jobQueue' = Append(jobQueue, d) /\ jobQueue \in Seq(Deployments)
    BY <1>7 DEF EnqueueSend, Answer
  <2>2. JobView(d) = "offered"
    BY <2>1, Views
  <2>3. d \in Elems(jobQueue')
    BY <2>1, Joins
  <2>4. JobView(d)' = "pending"
    <3>1. d \notin finished' /\ ~Executing(d)'
      BY <1>1, <2>1, Views DEF Executing
    <3>2. Somewhere(d)'
      BY <2>3 DEF Somewhere
    <3>3. QED
      BY <2>1, <3>1, <3>2, SeenAfter DEF AllSeen, Sight
  <2>5. Promise!Accept(d)
    BY <1>2, <2>1, <2>2, <2>4, OneMoves DEF Promise!Accept
  <2>6. QED
    BY <2>5 DEF Promise!Next
<1>8. CASE EnqueueBlock(d)
  <2>1. request[d] = "created" /\ request'[d] = "blocked" /\ row' = row
    BY <1>8 DEF EnqueueBlock, Answer
  <2>2. JobView(d) = "offered" /\ JobView(d)' = "offered"
    BY <2>1, Seen, SeenAfter DEF AllSeen, Sight
  <2>3. QED
    BY <1>2, <2>1, <2>2, NoneMoves
<1>9. CASE EnqueueTimeout(d) \/ EnqueueCancelled(d) \/ EnqueuePanic(d)
  <2>1. /\ request[d] \in {"created", "blocked"} /\ request'[d] \in {"refused", "panicked"}
        /\ row' = row
    BY <1>9 DEF EnqueueTimeout, EnqueueCancelled, EnqueuePanic, Answer
  <2>2. JobView(d) = "offered" /\ JobView(d)' = "lost"
    BY <2>1, Seen, SeenAfter DEF AllSeen, Sight
  <2>3. QED
    <3> DEFINE S == {d}
    <3>1. S \in SUBSET Deployments /\ \A e \in S : e = d
      OBVIOUS
    <3>2. \A e \in Deployments \ S : JobView(e)' = JobView(e)
      BY <1>2
    <3> HIDE DEF S
    <3>3. QED
      BY <2>1, <2>2, <3>1, <3>2, SomeLost
<1>10. QED
  BY <1>4, <1>5, <1>6, <1>7, <1>8, <1>9 DEF RequestStep
-----------------------------------------------------------------------------
(* A receive moves one job to the worker, unseen, and may accept another.  *)
LEMMA ReceiveRefines ==
    ASSUME IInv, IInv', NEW w \in Workers, Receive(w)
    PROVE  [Promise!Next]_(Promise!vars)
<1> USE DEF IInv, TypeOK
<1> DEFINE j == Head(jobQueue)
           q == Tail(jobQueue)
<1>1. /\ j \in Deployments /\ j \in Elems(jobQueue) /\ j \notin Elems(q)
      /\ Elems(jobQueue) = Elems(q) \union {j} /\ q \in Seq(Deployments)
  BY Leaves DEF Receive, Channel
<1>2. /\ worker[w].job = NoJob
      /\ worker' = [worker EXCEPT ![w] = [pc |-> "acquire", job |-> j]]
      /\ UNCHANGED <<row, finished>>
  BY DEF Receive, At, Hands, Holding
<1> HIDE DEF j, q
<1>3. /\ worker'[w].job = j /\ worker'[w].pc = "acquire" /\ worker[w].pc # "execute"
      /\ \A v \in Workers \ {w} : worker'[v] = worker[v]
  BY <1>2 DEF Receive, At
<1>4. ASSUME NEW e \in Deployments, request'[e] = request[e],
             e # j => (e \in Elems(jobQueue') <=> e \in Elems(q))
      PROVE  JobView(e)' = JobView(e)
  <2>1. Executing(e)' <=> Executing(e)
    BY <1>3 DEF Executing
  <2>2. Somewhere(e)' <=> Somewhere(e)
    BY <1>1, <1>2, <1>3, <1>4, QueueAssumption DEF Somewhere
  <2>3. QED
    BY <1>2, <1>4, <2>1, <2>2, SeenAsBefore
<1>5. CASE senders = <<>>
  <2>1. jobQueue' = q /\ request' = request
    BY <1>5 DEF Receive, q
  <2>2. \A e \in Deployments : JobView(e)' = JobView(e)
    BY <1>4, <2>1
  <2>3. QED
    BY <1>2, <2>2, NoneMoves
<1>6. CASE senders # <<>>
  <2>0. PICK h : h = Head(senders)
    OBVIOUS
  <2>1. /\ jobQueue' = Append(q, h) /\ request' = [request EXCEPT ![h] = "accepted"]
        /\ h \in Deployments /\ h \in Elems(senders)
    BY <1>6, <2>0, Leaves DEF Receive, Answer, q
  <2>2. request[h] = "blocked" /\ request'[h] = "accepted"
    BY <2>1 DEF Channel
  <2>3. Elems(jobQueue') = Elems(q) \union {h}
    BY <1>1, <2>1, Joins
  <2>4. \A e \in Deployments \ {h} : JobView(e)' = JobView(e)
    BY <1>4, <2>1, <2>3
  <2>5. JobView(h) = "offered" /\ JobView(h)' = "pending"
    <3>1. JobView(h) = "offered" /\ ~Executing(h) /\ h \notin finished
      BY <2>1, <2>2, Views
    <3>2. ~Executing(h)' /\ Somewhere(h)'
      BY <1>3, <2>3, <3>1 DEF Executing, Somewhere
    <3>3. QED
      BY <1>2, <2>1, <2>2, <3>1, <3>2, SeenAfter DEF AllSeen, Sight
  <2>6. Promise!Accept(h)
    BY <1>2, <2>1, <2>4, <2>5, OneMoves DEF Promise!Accept
  <2>7. QED
    BY <2>1, <2>6 DEF Promise!Next
<1>7. QED
  BY <1>5, <1>6

(* Every other step of a worker concerns the job that it holds.            *)
LEMMA WorkerRefines ==
    ASSUME IInv, IInv', NEW w \in Workers, WorkerStep(w)
    PROVE  [Promise!Next]_(Promise!vars)
<1> USE DEF IInv, TypeOK
<1>0. PICK j : j = worker[w].job
  OBVIOUS
<1>1. CASE Receive(w)
  BY <1>1, ReceiveRefines
<1>2. ASSUME ~Receive(w)
      PROVE  /\ UNCHANGED <<request, jobQueue>>
             /\ \A v \in Workers \ {w} : worker'[v] = worker[v]
  BY <1>2 DEF WorkerStep, ExitLoop, AcquireSemaphore, UpdateStep, FinishExecute,
     ReleaseSemaphore, Report, Goto, chanVars, workVars
<1>3. ASSUME ~Receive(w), NEW e \in Deployments, e # j, e \in finished' <=> e \in finished,
             worker'[w].job \in {j, NoJob}
      PROVE  JobView(e)' = JobView(e)
  <2>1. (Executing(e)' <=> Executing(e)) /\ (Somewhere(e)' <=> Somewhere(e))
    BY <1>0, <1>2, <1>3, QueueAssumption DEF Executing, Somewhere
  <2>2. QED
    BY <1>2, <1>3, <2>1, SeenAsBefore
<1>4. worker[w].pc \in Holding =>
         /\ j \in Deployments /\ request[j] = "accepted" /\ j \notin Elems(jobQueue)
         /\ j \in finished <=> worker[w].pc \in {"release", "report"}
         /\ \A v \in Workers \ {w} : worker[v].job # j
  BY <1>0, QueueAssumption DEF Hands
<1>5. CASE ExitLoop(w)
  <2>1. /\ worker[w].job = NoJob /\ worker'[w].job = NoJob /\ UNCHANGED <<row, finished>>
        /\ ~Receive(w)
    BY <1>5 DEF ExitLoop, At, Goto, Hands, Holding, Receive, histVars
  <2>2. \A e \in Deployments : JobView(e)' = JobView(e)
    BY <1>0, <1>3, <2>1, QueueAssumption
  <2>3. QED
    BY <2>1, <2>2, NoneMoves
<1>6. CASE AcquireSemaphore(w)
  <2>1. /\ worker[w].pc = "acquire" /\ worker'[w].pc = "execute" /\ worker'[w].job = j
        /\ UNCHANGED <<row, finished>> /\ ~Receive(w)
    BY <1>0, <1>6 DEF AcquireSemaphore, At, Goto, Receive, histVars
  <2>2. JobView(j) = "pending" /\ JobView(j)' = "executing" /\ j \in Deployments
    <3>1. j \in Deployments /\ JobView(j) = "pending"
      BY <1>0, <1>4, <2>1, Views DEF Holding
    <3>2. request'[j] = "accepted" /\ j \notin finished' /\ Executing(j)'
      BY <1>0, <1>2, <1>4, <2>1 DEF Executing, Holding
    <3>3. JobView(j)' = "executing"
      BY <3>1, <3>2, SeenAfter DEF AllSeen, Sight
    <3>4. QED
      BY <3>1, <3>3
  <2>3. Promise!Begin(j)
    <3>1. \A e \in Deployments \ {j} : JobView(e)' = JobView(e)
      BY <1>3, <2>1
    <3>2. QED
      BY <2>1, <2>2, <3>1, OneMoves DEF Promise!Begin
  <2>4. QED
    BY <2>2, <2>3 DEF Promise!Next
<1>7. CASE UpdateStep(w)
  <2>1. /\ worker[w].pc = "execute" /\ Write(j, "active") /\ worker' = worker
        /\ UNCHANGED <<finished, request, jobQueue>>
    BY <1>0, <1>7 DEF UpdateStep, At, histVars, workVars, chanVars
  <2>2. ASSUME NEW e \in Deployments PROVE JobView(e)' = JobView(e)
    <3>1. (Executing(e)' <=> Executing(e)) /\ (Somewhere(e)' <=> Somewhere(e))
      BY <2>1 DEF Executing, Somewhere, Elems
    <3>2. QED
      BY <2>1, <3>1, SeenAsBefore
  <2>3. j \in Deployments /\ JobView(j) = "executing"
    BY <1>0, <1>4, <2>1, Views DEF Holding
  <2>4. QED
    BY <2>1, <2>2, <2>3, RowMoves
<1>8. CASE FinishExecute(w)
  <2>1. /\ worker[w].pc = "execute" /\ worker'[w].job = j /\ finished' = finished \union {j}
        /\ row' = row \/ \E r \in Final : row' = [row EXCEPT ![j] = r]
        /\ ~Receive(w)
    BY <1>0, <1>8 DEF FinishExecute, At, Goto, Receive, Write
  <2>2. JobView(j) = "executing" /\ JobView(j)' = "settled" /\ j \in Deployments
    <3>1. j \in Deployments /\ JobView(j) = "executing"
      BY <1>0, <1>4, <2>1, Views DEF Holding
    <3>2. request'[j] = "accepted" /\ j \in finished'
      BY <1>2, <1>4, <2>1 DEF Holding
    <3>3. JobView(j)' = "settled"
      BY <3>1, <3>2, SeenAfter DEF AllSeen, Sight
    <3>4. QED
      BY <3>1, <3>3
  <2>3. Promise!Settle(j)
    <3>1. \A e \in Deployments \ {j} : JobView(e)' = JobView(e)
      BY <1>3, <2>1
    <3>2. Promise!Move(j, "executing", "settled")
      BY <2>2, <3>1, OneMoves
    <3>3. QED
      BY <2>1, <3>2 DEF Promise!Settle, Promise!Final, Final
  <2>4. QED
    BY <2>2, <2>3 DEF Promise!Next
<1>9. CASE ReleaseSemaphore(w) \/ Report(w)
  <2>1. /\ worker[w].pc \in {"release", "report"} /\ worker'[w].job \in {j, NoJob}
        /\ UNCHANGED <<row, finished>> /\ ~Receive(w)
    BY <1>0, <1>9 DEF ReleaseSemaphore, Report, At, Goto, Idle, Receive, histVars
  <2>2. j \in Deployments /\ j \in finished
    BY <1>4, <2>1 DEF Holding
  <2>3. JobView(j)' = JobView(j)
    BY <1>2, <2>1, <2>2, SeenAsBefore
  <2>4. \A e \in Deployments : JobView(e)' = JobView(e)
    BY <1>3, <2>1, <2>3
  <2>5. QED
    BY <2>1, <2>4, NoneMoves
<1>10. QED
  BY <1>1, <1>5, <1>6, <1>7, <1>8, <1>9 DEF WorkerStep
-----------------------------------------------------------------------------
(* A stop refuses the requests that wait; the end of the process loses     *)
(* every job that it had; nothing else of app.Run is seen.                 *)
LEMMA MainRefines ==
    ASSUME IInv, IInv', MainStep
    PROVE  [Promise!Next]_(Promise!vars)
<1> USE DEF IInv, TypeOK
<1>1. CASE BeginShutdown \/ HttpShutdownReturns \/ ServerError \/ StopClose
  <2>1. UNCHANGED <<row, request, jobQueue, worker, finished>>
    BY <1>1 DEF BeginShutdown, HttpShutdownReturns, ServerError, StopClose, chanVars,
       workVars, histVars
  <2>2. ASSUME NEW e \in Deployments PROVE JobView(e)' = JobView(e)
    <3>1. (Executing(e)' <=> Executing(e)) /\ (Somewhere(e)' <=> Somewhere(e))
      BY <2>1 DEF Executing, Somewhere, Elems
    <3>2. QED
      BY <2>1, <3>1, SeenAsBefore
  <2>3. QED
    BY <2>1, <2>2, NoneMoves
<1>2. CASE StopCancel
  <2> DEFINE S == {e \in Deployments : request[e] = "blocked"}
  <2>1. /\ UNCHANGED <<row, jobQueue, worker, finished>>
        /\ \A e \in Deployments : request'[e] = IF e \in S THEN "refused" ELSE request[e]
    BY <1>2 DEF StopCancel, workVars, histVars
  <2>2. ASSUME NEW e \in S PROVE JobView(e) = "offered" /\ JobView(e)' = "lost"
    BY <2>1, <2>2, Seen, SeenAfter DEF AllSeen, Sight
  <2>3. ASSUME NEW e \in Deployments \ S PROVE JobView(e)' = JobView(e)
    <3>1. (Executing(e)' <=> Executing(e)) /\ (Somewhere(e)' <=> Somewhere(e))
      BY <2>1 DEF Executing, Somewhere, Elems
    <3>2. QED
      BY <2>1, <3>1, SeenAsBefore
  <2>4. S \in SUBSET Deployments
    OBVIOUS
  <2> HIDE DEF S
  <2>5. QED
    BY <2>1, <2>2, <2>3, <2>4, SomeLost
<1>3. CASE ProcessEnds
  <2> DEFINE S == {e \in Deployments : JobView(e) \notin {"new", "settled"}}
  <2>1. /\ UNCHANGED <<row, finished>> /\ jobQueue' = <<>>
        /\ \A e \in Deployments : request'[e] =
              IF request[e] \in {"created", "blocked"} THEN "killed" ELSE request[e]
        /\ \A v \in Workers : worker'[v].pc = "exited" /\ worker'[v].job = NoJob
    BY <1>3 DEF ProcessEnds
  <2>2. ASSUME NEW e \in Deployments
        PROVE  JobView(e)' = IF JobView(e) \in {"new", "settled"} THEN JobView(e) ELSE "lost"
    <3>1. ~Executing(e)' /\ ~Somewhere(e)'
      BY <2>1, EmptyQueue, QueueAssumption DEF Executing, Somewhere
    <3>2. JobView(e) = Sight(e) /\ JobView(e)' = Sight(e)'
      BY Seen, SeenAfter DEF AllSeen
    <3>3. Sight(e)' = IF Sight(e) \in {"new", "settled"} THEN Sight(e) ELSE "lost"
      BY <2>1, <3>1 DEF Sight, Requests
    <3>4. QED
      BY <3>2, <3>3
  <2>3. \A e \in S : JobView(e) \notin {"new", "settled"} /\ JobView(e)' = "lost"
    BY <2>2
  <2>4. \A e \in Deployments \ S : JobView(e)' = JobView(e)
    BY <2>2
  <2>5. S \in SUBSET Deployments
    OBVIOUS
  <2> HIDE DEF S
  <2>6. QED
    BY <2>1, <2>3, <2>4, <2>5, SomeLost
<1>4. CASE Restart
  <2>1. /\ UNCHANGED <<row, request, jobQueue, finished>>
        /\ \A v \in Workers : /\ worker[v].job = NoJob /\ worker'[v].job = NoJob
                              /\ worker[v].pc = "exited" /\ worker'[v].pc = "select"
    BY <1>4 DEF Restart, Down, Idle, histVars
  <2>2. ASSUME NEW e \in Deployments PROVE JobView(e)' = JobView(e)
    <3>1. (Executing(e)' <=> Executing(e)) /\ (Somewhere(e)' <=> Somewhere(e))
      BY <2>1 DEF Executing, Somewhere, Elems
    <3>2. QED
      BY <2>1, <3>1, SeenAsBefore
  <2>3. QED
    BY <2>1, <2>2, NoneMoves
<1>5. QED
  BY <1>1, <1>2, <1>3, <1>4 DEF MainStep, StopReturns, Crash

(* The queue, of whatever size, executes each job at most once and keeps   *)
(* the rest of what DeploymentLifecycle promises.                          *)
THEOREM ExecutesAtMostOnce == Spec => AtMostOnce
<1>1. Init => Promise!Init
  <2> SUFFICES ASSUME Init PROVE Promise!Init
    OBVIOUS
  <2>1. ASSUME NEW d \in Deployments PROVE JobView(d) = "new"
    BY InvInit, Seen DEF Init, IInv, AllSeen, Sight
  <2>2. QED
    BY <2>1 DEF Init, Promise!Init
<1>2. IInv /\ IInv' /\ [Next]_vars => [Promise!Next]_(Promise!vars)
  <2> SUFFICES ASSUME IInv, IInv', [Next]_vars PROVE [Promise!Next]_(Promise!vars)
    OBVIOUS
  <2>1. CASE UNCHANGED vars
    <3>1. UNCHANGED <<row, request, jobQueue, worker, finished>>
      BY <2>1 DEF vars, diskVars, chanVars, workVars, histVars
    <3>2. ASSUME NEW e \in Deployments PROVE JobView(e)' = JobView(e)
      <4>1. (Executing(e)' <=> Executing(e)) /\ (Somewhere(e)' <=> Somewhere(e))
        BY <3>1 DEF Executing, Somewhere, Elems
      <4>2. QED
        BY <3>1, <4>1, SeenAsBefore DEF IInv
    <3>3. QED
      BY <3>1, <3>2, NoneMoves
  <2>2. QED
    BY <2>1, RequestRefines, WorkerRefines, MainRefines DEF Next
<1>3. QED
  BY <1>1, <1>2, InvHolds, PTL DEF Spec, AtMostOnce, Promise!Spec
=============================================================================
