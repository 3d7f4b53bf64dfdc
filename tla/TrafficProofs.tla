---------------------------- MODULE TrafficProofs --------------------------
(***************************************************************************)
(* Proofs about the components of Traffic, for any number of deployments,  *)
(* channels, events, clients and requests.  The webhooks: once all is      *)
(* quiet, the application runs the last commit.  The rate limiter: what a  *)
(* client is served, and which buckets are dropped.  The notifications: who*)
(* is told, and of what time each call has.                                *)
(***************************************************************************)
EXTENDS Traffic, Sequences, FiniteSetTheorems, TLAPS

(* The instances have the operators on finite sets by names of their own.  *)
LEMMA TrafficFiniteAlike ==
    \A S : (N!IsFiniteSet(S) <=> IsFiniteSet(S)) /\ (B!IsFiniteSet(S) <=> IsFiniteSet(S))
  BY DEF N!IsFiniteSet, B!IsFiniteSet, IsFiniteSet

LEMMA TrafficCardinalityAlike ==
    \A S : N!Cardinality(S) = Cardinality(S) /\ B!Cardinality(S) = Cardinality(S)
  BY DEF N!Cardinality, B!Cardinality, Cardinality

USE TrafficFiniteAlike, TrafficCardinalityAlike

(* A delivery is of a commit the branch has had, and one that names a      *)
(* commit is of the branch the application is deployed from.               *)
Announced == \A d \in pending \union sent :
    d.commit <= head /\ (d.commit # 0 => H!Relevant(d))

(* Jobs have rows; the worker has one at a time.  Nothing newer than the   *)
(* branch is deployed, and a rollback serves no delivery.                  *)
Served ==
    /\ \A x \in offering : row[x] # None
    /\ \A i \in DOMAIN queue : row[queue[i]] # None
    /\ \A x, y \in Deployments : H!Active(x) /\ H!Active(y) => x = y
    /\ running <= head
    /\ \A x \in Deployments : row[x] # None =>
          row[x].built <= head /\ (row[x].source = "image" => row[x].commit = 0)

(* The last commit runs or has come to nothing, or something on the way    *)
(* will make it run: its delivery, its deployment before Enqueue or in the *)
(* queue, or a deployment in progress that builds it.                      *)
Coming ==
    \/ running = head \/ head \in lost
    \/ \E d \in pending : d.commit = head /\ H!Relevant(d)
    \/ \E x \in offering : row[x].commit = head
    \/ \E i \in DOMAIN queue : row[queue[i]].commit = head
    \/ \E x \in Deployments : H!Active(x) /\ row[x].built = head

HookInv == H!TypeOK /\ Announced /\ Served /\ Coming

-----------------------------------------------------------------------------
LEMMA RelevantAsBefore == ASSUME host' = host PROVE \A d : H!Relevant(d)' <=> H!Relevant(d)
  BY DEF H!Relevant, H!HandleGitHub, H!HandleGitLab, H!HandleGeneric

LEMMA ActiveAsBefore == ASSUME row' = row PROVE \A x : H!Active(x)' <=> H!Active(x)
  BY DEF H!Active

LEMMA HooksInitially == ASSUME H!WebhooksAssumption, H!Init PROVE HookInv
<1>1. H!TypeOK
  BY DEF H!WebhooksAssumption, H!Init, H!TypeOK, H!Row, H!Statuses, H!Delivery
<1>2. Announced /\ Served /\ Coming
  BY DEF H!Init, Announced, Served, Coming, H!Active
<1>3. QED
  BY <1>1, <1>2 DEF HookInv

(* What the Git host does, and deliveries that start nothing.              *)
LEMMA PushKeeps == ASSUME H!WebhooksAssumption, HookInv, H!Push PROVE HookInv'
<1> DEFINE ref == IF host = "generic" THEN "none" ELSE "target"
           new == [ref |-> ref, commit |-> head + 1]
<1>0. MaxCommits \in Nat /\ head \in 0..MaxCommits /\ head < MaxCommits
  BY DEF H!WebhooksAssumption, HookInv, H!TypeOK, H!Push
<1>2. head \in Nat /\ head + 1 \in 0..MaxCommits /\ head + 1 # 0
  BY <1>0
<1>1. /\ head' = head + 1 /\ pending' = pending \union {new} /\ host \in H!Kinds
      /\ UNCHANGED <<host, sent, secret, shared, row, offering, queue, running,
                     stray, losses, lost>>
  BY DEF H!WebhooksAssumption, HookInv, H!TypeOK, H!Push, H!deployVars, H!boundVars
<1>3. new \in H!Delivery /\ new.commit = head + 1 /\ H!Relevant(new)
  BY <1>1, <1>2 DEF H!Delivery, H!Relevant, H!HandleGitHub, H!HandleGitLab, H!HandleGeneric,
                    H!Kinds
<1>4. H!TypeOK'
  BY <1>1, <1>2, <1>3 DEF HookInv, H!TypeOK
<1>5. \A d : H!Relevant(d)' <=> H!Relevant(d)
  BY <1>1, RelevantAsBefore
<1>6. \A d \in pending \union sent : d.commit \in Nat
  BY <1>0 DEF HookInv, H!TypeOK, H!Delivery
<1>7. Announced'
  <2>1. \A d \in pending \union sent : d.commit <= head + 1
    BY <1>2, <1>6 DEF HookInv, Announced
  <2>2. new.commit <= head + 1
    BY <1>2, <1>3
  <2>3. \A d \in pending' \union sent' : d \in pending \union sent \/ d = new
    BY <1>1
  <2>4. QED
    BY <1>1, <1>3, <1>5, <2>1, <2>2, <2>3 DEF HookInv, Announced
<1>8. Served'
  <2>1. running \in Nat /\ \A x \in Deployments : row[x] # None => row[x].built \in Nat
    BY <1>0 DEF HookInv, H!TypeOK, H!Row
  <2>2. \A x \in Deployments : H!Active(x)' <=> H!Active(x)
    BY <1>1, ActiveAsBefore
  <2>3. head \in Nat /\ running <= head
        /\ \A x \in Deployments : row[x] # None => row[x].built <= head
    BY <1>2 DEF HookInv, Served
  <2>4. running <= head' /\ \A x \in Deployments : row[x] # None => row[x].built <= head'
    BY <1>1, <2>1, <2>3
  <2>5. QED
    BY <1>1, <2>2, <2>4 DEF HookInv, Served
<1>9. Coming'
  BY <1>1, <1>3, <1>5 DEF Coming
<1>10. QED
  BY <1>4, <1>7, <1>8, <1>9 DEF HookInv

(* A delivery is made: nothing else of the invariant looks at deliveries.  *)
LEMMA DeliveryKeeps ==
    ASSUME H!WebhooksAssumption, HookInv,
           \/ H!PushElsewhere \/ H!RegenerateWebhookSecret \/ H!ShareSecret
           \/ \E d \in H!Delivery : H!Redeliver(d) \/ H!Lose(d) \/ H!Refuse(d) \/ H!Ignore(d)
    PROVE  HookInv'
<1>1. /\ UNCHANGED <<host, head, row, offering, queue, running>>
      /\ secret' \in Nat /\ shared' \in Nat /\ stray' \in Nat /\ losses' \in Nat
  BY DEF HookInv, H!TypeOK, H!PushElsewhere, H!RegenerateWebhookSecret, H!ShareSecret,
         H!Redeliver, H!Lose,
         H!Refuse, H!Ignore, H!Handled, H!Fails, H!deployVars, H!boundVars
<1>2. /\ lost \subseteq lost' /\ lost' \subseteq 0..MaxCommits
      /\ pending' \union sent' \subseteq
            pending \union sent \union {[ref |-> "other", commit |-> 0]}
      /\ \A d \in pending \ pending' : d.commit \in lost' \/ ~ H!Relevant(d)
  BY DEF HookInv, H!TypeOK, H!PushElsewhere, H!RegenerateWebhookSecret, H!ShareSecret,
         H!Redeliver, H!Lose,
         H!Refuse, H!Ignore, H!Handled, H!Delivery, H!deployVars, H!boundVars
<1>3. \A d : H!Relevant(d)' <=> H!Relevant(d)
  BY <1>1, RelevantAsBefore
<1>4. MaxCommits \in Nat /\ [ref |-> "other", commit |-> 0] \in H!Delivery /\ head \in Nat
  BY DEF H!WebhooksAssumption, H!Delivery, HookInv, H!TypeOK
<1>5. H!TypeOK'
  BY <1>1, <1>2, <1>4 DEF HookInv, H!TypeOK
<1>6. Announced'
  BY <1>1, <1>2, <1>3, <1>4 DEF HookInv, Announced
<1>7. \A x : H!Active(x)' <=> H!Active(x)
  BY <1>1, ActiveAsBefore
<1>8. Served'
  BY <1>1, <1>7 DEF HookInv, Served
<1>9. Coming'
  BY <1>1, <1>2, <1>3, <1>7 DEF HookInv, Coming
<1>10. QED
  BY <1>5, <1>6, <1>8, <1>9 DEF HookInv

(* A new row is nobody's yet.                                              *)
LEMMA NewRowFacts ==
    ASSUME H!WebhooksAssumption, HookInv, NEW x \in Deployments,
           NEW source \in {"repository", "image"},
           NEW c \in 0..MaxCommits, NEW b \in 0..MaxCommits, H!Insert(x, source, c, b)
    PROVE  /\ row' \in [Deployments -> H!Row \union {None}] /\ row'[x] # None
           /\ row'[x].commit = c /\ row'[x].built = b /\ row'[x].source = source
           /\ row[x] = None
           /\ \A y \in Deployments : y # x => row'[y] = row[y]
           /\ ~ row'[x].status = "active"
<1> DEFINE new == [source |-> source, status |-> "queued", commit |-> c, built |-> b]
<1>1. new \in H!Row
  BY DEF H!WebhooksAssumption, H!Row, H!Statuses
<1>2. row' = [row EXCEPT ![x] = new] /\ row \in [Deployments -> H!Row \union {None}]
      /\ row[x] = None
  BY DEF H!Insert, HookInv, H!TypeOK
<1>3. row'[x] = new /\ \A y \in Deployments : y # x => row'[y] = row[y]
  BY <1>2
<1>4. QED
  BY <1>1, <1>2, <1>3 DEF H!WebhooksAssumption

(* The handlers: a delivery turns into a deployment or is lost.            *)
LEMMA DeploymentKeeps ==
    ASSUME H!WebhooksAssumption, HookInv, NEW x \in Deployments,
           \/ H!DeployByAPI(x) \/ \E y \in Deployments : H!Rollback(x, y)
           \/ \E d \in H!Delivery : H!DispatchDeployment(d, x)
    PROVE  HookInv'
<1>1. /\ UNCHANGED <<host, head, secret, shared, queue, running, stray>>
      /\ pending' \subseteq pending /\ sent' \subseteq pending \union sent
      /\ lost \subseteq lost' /\ lost' \subseteq 0..MaxCommits /\ losses' \in Nat
  <2>1. CASE H!DeployByAPI(x) \/ \E y \in Deployments : H!Rollback(x, y)
    BY <2>1 DEF HookInv, H!TypeOK, H!DeployByAPI, H!Rollback, H!deliveryVars, H!boundVars
  <2>2. ASSUME NEW d \in H!Delivery, H!DispatchDeployment(d, x)
        PROVE  /\ UNCHANGED <<host, head, secret, shared, queue, running, stray>>
               /\ pending' \subseteq pending /\ sent' \subseteq pending \union sent
               /\ lost \subseteq lost' /\ lost' \subseteq 0..MaxCommits /\ losses' \in Nat
    <3>1. d \in pending /\ d.commit \in 0..MaxCommits
      BY <2>2 DEF H!DispatchDeployment, H!Delivery
    <3>2. /\ lost' = lost \/ lost' = lost \union {d.commit}
          /\ losses' = losses \/ losses' = losses + 1
      BY <2>2 DEF H!DispatchDeployment, H!Works, H!Fails
    <3>3. lost \subseteq 0..MaxCommits /\ losses \in Nat
      BY DEF HookInv, H!TypeOK
    <3>4. losses' \in Nat
      BY <3>2, <3>3
    <3>5. QED
      BY <2>2, <3>1, <3>2, <3>3, <3>4 DEF H!DispatchDeployment, H!Handled
  <2>3. QED
    BY <2>1, <2>2
<1>2. \/ /\ UNCHANGED <<row, offering>>
         /\ \A d \in pending \ pending' : d.commit \in lost'
      \/ /\ offering' = offering \union {x}
         /\ \E c, b \in 0..MaxCommits, source \in {"repository", "image"} :
            /\ H!Insert(x, source, c, b)
            /\ b <= head /\ (source = "image" => c = 0)
            /\ \A d \in pending \ pending' : d.commit = c
  <2>0. 0 \in 0..MaxCommits /\ 0 <= head
    BY DEF H!WebhooksAssumption, HookInv, H!TypeOK
  <2>1. CASE H!DeployByAPI(x)
    BY <2>0, <2>1 DEF H!DeployByAPI, H!NewRow, H!deliveryVars
  <2>4. ASSUME NEW y \in Deployments, H!Rollback(x, y)
        PROVE  /\ offering' = offering \union {x}
               /\ \E c, b \in 0..MaxCommits, source \in {"repository", "image"} :
                     /\ H!Insert(x, source, c, b)
                     /\ b <= head /\ (source = "image" => c = 0)
                     /\ \A d \in pending \ pending' : d.commit = c
    <3>1. row[y] \in H!Row /\ row[y] # None
      BY <2>4 DEF H!Rollback, HookInv, H!TypeOK
    <3>2. row[y].built \in 0..MaxCommits /\ row[y].built <= head
      BY <3>1 DEF HookInv, Served, H!Row
    <3>3. H!Insert(x, "image", 0, row[y].built) /\ offering' = offering \union {x}
          /\ pending' = pending
      BY <2>4 DEF H!Rollback, H!deliveryVars
    <3>4. QED
      BY <2>0, <3>2, <3>3
  <2>2. ASSUME NEW d \in H!Delivery, H!DispatchDeployment(d, x)
        PROVE  \/ /\ UNCHANGED <<row, offering>>
                  /\ \A e \in pending \ pending' : e.commit \in lost'
               \/ /\ offering' = offering \union {x}
                  /\ \E c, b \in 0..MaxCommits, source \in {"repository", "image"} :
                        /\ H!Insert(x, source, c, b)
                        /\ b <= head /\ (source = "image" => c = 0)
                        /\ \A e \in pending \ pending' : e.commit = c
    <3>1. d.commit \in 0..MaxCommits /\ pending' = pending \ {d}
      BY <2>2 DEF H!Delivery, H!DispatchDeployment, H!Handled
    <3>2. QED
      BY <2>0, <2>2, <3>1 DEF H!DispatchDeployment, H!NewRow
  <2>3. QED
    BY <2>1, <2>2, <2>4
<1>3. \A d : H!Relevant(d)' <=> H!Relevant(d)
  BY <1>1, RelevantAsBefore
<1>4. Announced'
  BY <1>1, <1>3 DEF HookInv, Announced
<1>5. CASE UNCHANGED <<row, offering>> /\ \A d \in pending \ pending' : d.commit \in lost'
  <2>1. \A y : H!Active(y)' <=> H!Active(y)
    BY <1>5 DEF H!Active
  <2>2. H!TypeOK'
    BY <1>1, <1>5 DEF HookInv, H!TypeOK
  <2>3. Served'
    BY <1>1, <1>5, <2>1 DEF HookInv, Served
  <2>4. Coming'
    BY <1>1, <1>3, <1>5, <2>1 DEF HookInv, Coming
  <2>5. QED
    BY <1>4, <2>2, <2>3, <2>4 DEF HookInv
<1>6. ASSUME NEW c \in 0..MaxCommits, NEW b \in 0..MaxCommits,
             NEW source \in {"repository", "image"}, H!Insert(x, source, c, b),
             b <= head, source = "image" => c = 0, offering' = offering \union {x},
             \A d \in pending \ pending' : d.commit = c
      PROVE  HookInv'
  <2>1. /\ row' \in [Deployments -> H!Row \union {None}] /\ row'[x] # None
        /\ row'[x].commit = c /\ row'[x].built = b /\ row'[x].source = source
        /\ row[x] = None
        /\ \A y \in Deployments : y # x => row'[y] = row[y]
        /\ ~ row'[x].status = "active"
    BY <1>6, NewRowFacts
  <2>2. \A y \in Deployments : H!Active(y)' <=> H!Active(y)
    BY <2>1 DEF H!Active
  <2>3. \A y \in Deployments : row[y] # None => row'[y] = row[y]
    BY <2>1
  <2>4. /\ offering \subseteq Deployments /\ \A i \in DOMAIN queue : queue[i] \in Deployments
    BY DEF HookInv, H!TypeOK
  <2>5. H!TypeOK'
    BY <1>1, <1>6, <2>1 DEF HookInv, H!TypeOK
  <2>6. Served'
    <3>1. \A y \in offering' : row'[y] # None
      BY <1>6, <2>1, <2>3, <2>4 DEF HookInv, Served
    <3>2. \A i \in DOMAIN queue : row'[queue[i]] # None
      BY <2>3, <2>4 DEF HookInv, Served
    <3>3. \A y \in Deployments : row'[y] # None =>
             row'[y].built <= head /\ (row'[y].source = "image" => row'[y].commit = 0)
      BY <1>6, <2>1 DEF HookInv, Served
    <3>4. QED
      BY <1>1, <2>2, <3>1, <3>2, <3>3 DEF HookInv, Served
  <2>7. Coming'
    <3>1. ASSUME NEW d \in pending, d.commit = head, H!Relevant(d) PROVE Coming'
      BY <1>1, <1>3, <1>6, <2>1, <3>1 DEF Coming
    <3>2. ASSUME NEW y \in offering, row[y].commit = head PROVE Coming'
      <4>1. row'[y] = row[y]
        BY <2>3, <2>4 DEF HookInv, Served
      <4>2. QED
        BY <1>1, <1>6, <3>2, <4>1 DEF Coming
    <3>3. ASSUME NEW y \in Deployments, H!Active(y), row[y].built = head PROVE Coming'
      <4>1. row'[y] = row[y]
        BY <2>3, <3>3 DEF H!Active
      <4>2. QED
        BY <1>1, <2>2, <3>3, <4>1 DEF Coming
    <3>4. ASSUME NEW i \in DOMAIN queue, row[queue[i]].commit = head PROVE Coming'
      <4>1. row'[queue[i]] = row[queue[i]]
        BY <2>3, <2>4, <3>4 DEF HookInv, Served
      <4>2. QED
        BY <1>1, <3>4, <4>1 DEF Coming
    <3>5. QED
      BY <1>1, <3>1, <3>2, <3>3, <3>4 DEF HookInv, Coming
  <2>8. QED
    BY <1>4, <2>5, <2>6, <2>7 DEF HookInv
<1>7. QED
  BY <1>2, <1>5, <1>6

(* Enqueue: the job is in the queue, or its commit is noted.               *)
LEMMA OfferKeeps ==
    ASSUME H!WebhooksAssumption, HookInv, NEW x \in Deployments, H!Offer(x)
    PROVE  HookInv'
<1>1. /\ UNCHANGED <<host, head, pending, sent, secret, shared, row, running, stray>>
      /\ x \in offering /\ offering' = offering \ {x} /\ losses' \in Nat
      /\ \/ queue' = Append(queue, x) /\ UNCHANGED lost
         \/ lost' = lost \union {row[x].commit} /\ UNCHANGED queue
  BY DEF HookInv, H!TypeOK, H!Offer, H!Works, H!Fails, H!deliveryVars
<1>2. row[x] # None /\ row[x] \in H!Row /\ row[x].commit \in 0..MaxCommits
  BY <1>1 DEF HookInv, H!TypeOK, Served, H!Row
<1>3. \A d : (H!Relevant(d)' <=> H!Relevant(d)) /\ (H!Active(d)' <=> H!Active(d))
  BY <1>1, RelevantAsBefore, ActiveAsBefore
<1>4. queue \in Seq(Deployments)
  BY DEF HookInv, H!TypeOK
<1>5. /\ queue' \in Seq(Deployments)
      /\ \A i \in DOMAIN queue' : row[queue'[i]] # None
  BY <1>1, <1>2, <1>4 DEF HookInv, Served
<1>6. H!TypeOK'
  BY <1>1, <1>2, <1>5 DEF HookInv, H!TypeOK
<1>7. Announced' /\ Served'
  BY <1>1, <1>3, <1>5 DEF HookInv, Announced, Served
<1>8. Coming'
  <2>1. CASE queue' = Append(queue, x)
    <3>1. /\ \A i \in DOMAIN queue : i \in DOMAIN queue' /\ queue'[i] = queue[i]
          /\ Len(queue) + 1 \in DOMAIN queue' /\ queue'[Len(queue) + 1] = x
      BY <1>4, <2>1
    <3>2. row[x].commit = head => \E i \in DOMAIN queue' : row[queue'[i]].commit = head
      BY <3>1
    <3>3. \A y \in offering : y # x => y \in offering'
      BY <1>1
    <3>4. lost' = lost
      BY <1>1, <1>4, <2>1
    <3>5. QED
      BY <1>1, <1>3, <3>1, <3>2, <3>3, <3>4 DEF HookInv, Coming
  <2>2. CASE lost' = lost \union {row[x].commit} /\ UNCHANGED queue
    BY <1>1, <1>3, <2>2 DEF HookInv, Coming
  <2>3. QED
    BY <1>1, <2>1, <2>2
<1>9. QED
  BY <1>6, <1>7, <1>8 DEF HookInv

(* The worker has the branch as it is, or an image of an earlier commit.   *)
LEMMA TakenKeeps ==
    ASSUME H!WebhooksAssumption, HookInv, NEW built \in 0..MaxCommits, built <= head,
           built = head \/ row[Head(queue)].source = "image", H!Taken(built)
    PROVE  HookInv'
<1>0. PICK x : x = Head(queue)
  OBVIOUS
<1>1. /\ UNCHANGED <<host, head, pending, sent, secret, shared, offering, running,
                     stray, losses, lost>>
      /\ queue # <<>> /\ queue' = Tail(queue) /\ queue \in Seq(Deployments)
      /\ \A y \in Deployments : ~ H!Active(y)
      /\ row' = [row EXCEPT ![x] = [row[x] EXCEPT !.status = "active", !.built = built]]
      /\ row \in [Deployments -> H!Row \union {None}] /\ head \in 0..MaxCommits
  BY <1>0 DEF HookInv, H!TypeOK, H!Taken, H!deliveryVars, H!boundVars
<1>2. /\ x \in Deployments /\ 1 \in DOMAIN queue /\ x = queue[1]
      /\ queue' \in Seq(Deployments)
      /\ \A i \in DOMAIN queue' : i + 1 \in DOMAIN queue /\ queue'[i] = queue[i + 1]
      /\ \A i \in DOMAIN queue : i # 1 => i - 1 \in DOMAIN queue' /\ queue'[i - 1] = queue[i]
  BY <1>0, <1>1
<1>3. row[x] # None /\ row[x] \in H!Row
  BY <1>1, <1>2 DEF HookInv, Served
<1>4. PICK new \in H!Row : new = [row[x] EXCEPT !.status = "active", !.built = built]
  BY <1>3 DEF H!Row, H!Statuses
<1>5. /\ new.status = "active" /\ new.built = built /\ new.commit = row[x].commit
      /\ new.source = row[x].source
  BY <1>3, <1>4 DEF H!Row
<1>6. row' = [row EXCEPT ![x] = new]
  BY <1>1, <1>4
<1>7. /\ row' \in [Deployments -> H!Row \union {None}] /\ row'[x] = new
      /\ \A y \in Deployments : y # x => row'[y] = row[y]
  BY <1>1, <1>2, <1>6
<1>8. H!Active(x)' /\ \A y \in Deployments : H!Active(y)' => y = x
  <2>1. new # None
    BY DEF H!WebhooksAssumption
  <2>2. H!Active(x)'
    BY <1>5, <1>7, <2>1 DEF H!Active
  <2>3. ASSUME NEW y \in Deployments, y # x PROVE ~ H!Active(y)'
    BY <1>1, <1>7, <2>3 DEF H!Active
  <2>4. QED
    BY <2>2, <2>3
<1>9. \A y \in Deployments : row[y] # None => row'[y] # None /\ row'[y].commit = row[y].commit
  BY <1>5, <1>7 DEF H!WebhooksAssumption
<1>10. \A d : H!Relevant(d)' <=> H!Relevant(d)
  BY <1>1, RelevantAsBefore
<1>11. H!TypeOK'
  BY <1>1, <1>2, <1>7 DEF HookInv, H!TypeOK
<1>12. Announced'
  BY <1>1, <1>10 DEF HookInv, Announced
<1>13. offering \subseteq Deployments /\ \A i \in DOMAIN queue : queue[i] \in Deployments
  BY DEF HookInv, H!TypeOK
<1>14. Served'
  <2>1. \A i \in DOMAIN queue' : row'[queue'[i]] # None
    BY <1>2, <1>9, <1>13 DEF HookInv, Served
  <2>2. \A y \in offering' : row'[y] # None
    BY <1>1, <1>9, <1>13 DEF HookInv, Served
  <2>3. \A y, z \in Deployments : H!Active(y)' /\ H!Active(z)' => y = z
    BY <1>8
  <2>4. \A y \in Deployments : row'[y] # None =>
           row'[y].built <= head /\ (row'[y].source = "image" => row'[y].commit = 0)
    BY <1>3, <1>5, <1>7 DEF HookInv, Served
  <2>5. running' = running /\ head' = head /\ running <= head
    BY <1>1 DEF HookInv, Served
  <2>6. QED
    BY <2>1, <2>2, <2>3, <2>4, <2>5 DEF Served
<1>15. Coming'
  <2>1. CASE built = head
    <3>1. row'[x].built = head' /\ x \in Deployments /\ H!Active(x)'
      BY <1>1, <1>2, <1>5, <1>7, <1>8, <2>1
    <3>2. QED
      BY <3>1 DEF Coming
  <2>2. CASE row[x].source = "image"
    <3>1. row[x].commit = 0
      BY <1>2, <1>3, <2>2 DEF HookInv, Served
    <3>2. CASE head = 0
      BY <1>1, <3>2 DEF HookInv, H!TypeOK, Served, Coming
    <3>3. ASSUME NEW i \in DOMAIN queue, row[queue[i]].commit = head, head # 0
          PROVE  Coming'
      <4>1. i # 1 /\ i - 1 \in DOMAIN queue' /\ queue'[i - 1] = queue[i]
        BY <1>2, <3>1, <3>3
      <4>2. row'[queue[i]].commit = head
        BY <1>9, <1>13, <3>3 DEF HookInv, Served
      <4>3. QED
        BY <1>1, <4>1, <4>2 DEF Coming
    <3>4. ASSUME NEW y \in offering, row[y].commit = head PROVE Coming'
      <4>1. row'[y].commit = head
        BY <1>9, <1>13, <3>4 DEF HookInv, Served
      <4>2. QED
        BY <1>1, <4>1 DEF Coming
    <3>5. QED
      BY <1>1, <1>10, <3>2, <3>3, <3>4 DEF HookInv, Coming
  <2>3. QED
    BY <1>0, <2>1, <2>2
<1>16. QED
  BY <1>11, <1>12, <1>14, <1>15 DEF HookInv

LEMMA CloneKeeps ==
    ASSUME H!WebhooksAssumption, HookInv, H!CloneGitRepo \/ H!PullImage
    PROVE  HookInv'
<1>1. head \in 0..MaxCommits /\ head <= head
  BY DEF HookInv, H!TypeOK, H!WebhooksAssumption
<1>2. CASE H!CloneGitRepo
  BY <1>1, <1>2, TakenKeeps DEF H!CloneGitRepo
<1>3. CASE H!PullImage
  <2>1. PICK b : b = row[Head(queue)].built
    OBVIOUS
  <2>2. row[Head(queue)].source = "image" /\ queue # <<>> /\ H!Taken(b)
    BY <1>3, <2>1 DEF H!PullImage
  <2>3. Head(queue) \in Deployments /\ row[Head(queue)] # None /\ row[Head(queue)] \in H!Row
    <3>1. queue \in Seq(Deployments)
      BY DEF HookInv, H!TypeOK
    <3>2. 1 \in DOMAIN queue /\ Head(queue) = queue[1] /\ queue[1] \in Deployments
      BY <2>2, <3>1
    <3>3. QED
      BY <3>2 DEF HookInv, H!TypeOK, Served
  <2>4. b \in 0..MaxCommits /\ b <= head
    BY <2>1, <2>3 DEF HookInv, Served, H!Row
  <2>5. QED
    BY <2>2, <2>4, TakenKeeps
<1>4. QED
  BY <1>2, <1>3

(* Where a deployment ends, what runs is not newer than the branch, and the*)
(* last commit still runs or is noted if it ran or was being deployed.     *)
LEMMA EndFacts ==
    ASSUME H!WebhooksAssumption, HookInv, NEW x \in Deployments, H!Active(x),
           NEW end \in {H!Replaces(x), H!Stays(x), H!Removes(x)}
    PROVE  /\ end.runs \in 0..MaxCommits /\ end.runs <= head
           /\ end.lost \subseteq 0..MaxCommits
           /\ running = head \/ row[x].built = head => end.runs = head \/ head \in end.lost
<1>1. /\ row[x] # None /\ row[x] \in H!Row /\ row[x].built \in 0..MaxCommits
      /\ row[x].built <= head
      /\ head \in 0..MaxCommits /\ running \in 0..MaxCommits /\ running <= head
      /\ MaxCommits \in Nat
  BY DEF H!Active, H!Row, HookInv, H!TypeOK, Served, H!WebhooksAssumption
<1>2. CASE end = H!Replaces(x)
  <2>1. end.runs = row[x].built /\ end.lost = (row[x].built + 1)..running
    BY <1>2 DEF H!Replaces
  <2>2. QED
    BY <1>1, <2>1
<1>3. CASE end = H!Stays(x)
  <2>1. end.runs = running /\ end.lost = 1..row[x].built
    BY <1>3 DEF H!Stays
  <2>2. QED
    BY <1>1, <2>1
<1>4. CASE end = H!Removes(x)
  <2>1. end.runs = 0 /\ end.lost = 1..row[x].built \union 1..running
    BY <1>4 DEF H!Removes
  <2>2. QED
    BY <1>1, <2>1
<1>5. QED
  BY <1>2, <1>3, <1>4

(* A deployment ends, well or badly.                                       *)
LEMMA HookEndKeeps ==
    ASSUME H!WebhooksAssumption, HookInv, NEW x \in Deployments, H!Succeed(x) \/ H!Fail(x)
    PROVE  HookInv'
<1>1. /\ UNCHANGED <<host, head, pending, sent, secret, shared, offering, queue, stray>>
      /\ H!Active(x) /\ losses' \in Nat
      /\ row \in [Deployments -> H!Row \union {None}] /\ lost \subseteq 0..MaxCommits
  BY DEF HookInv, H!TypeOK, H!Succeed, H!Fail, H!Fails, H!deliveryVars, H!boundVars
<1>2. PICK s \in {"success", "failed"} : row' = [row EXCEPT ![x].status = s]
  BY DEF H!Succeed, H!Fail
<1>3. PICK end \in {H!Replaces(x), H!Stays(x), H!Removes(x)} :
         running' = end.runs /\ lost' = lost \union end.lost
  BY DEF H!Succeed, H!Fail
<1>4. row[x] \in H!Row /\ row[x] # None
  BY <1>1 DEF H!Active
<1>5. PICK new : new = [row[x] EXCEPT !.status = s]
  OBVIOUS
<1>6. /\ new \in H!Row /\ new.status = s /\ new.commit = row[x].commit
      /\ new.built = row[x].built /\ new.source = row[x].source
  BY <1>4, <1>5 DEF H!Row, H!Statuses
<1>7. /\ row' \in [Deployments -> H!Row \union {None}] /\ row'[x] = new
      /\ \A y \in Deployments : y # x => row'[y] = row[y]
  BY <1>1, <1>2, <1>5, <1>6
<1>8. \A y \in Deployments : ~ H!Active(y)'
  BY <1>1, <1>6, <1>7 DEF HookInv, Served, H!Active
<1>9. \A y \in Deployments :
         /\ row[y] # None => row'[y] # None
         /\ row'[y] # None => /\ row[y] # None /\ row'[y].commit = row[y].commit
                              /\ row'[y].built = row[y].built
                              /\ row'[y].source = row[y].source
  BY <1>4, <1>6, <1>7 DEF H!WebhooksAssumption
<1>10. \A d : H!Relevant(d)' <=> H!Relevant(d)
  BY <1>1, RelevantAsBefore
<1>11. /\ running' \in 0..MaxCommits /\ running' <= head /\ lost' \subseteq 0..MaxCommits
       /\ lost \subseteq lost'
       /\ running = head \/ row[x].built = head => running' = head \/ head \in lost'
  BY <1>1, <1>3, EndFacts
<1>12. H!TypeOK'
  BY <1>1, <1>7, <1>11 DEF HookInv, H!TypeOK
<1>13. Announced'
  BY <1>1, <1>10 DEF HookInv, Announced
<1>14. offering \subseteq Deployments /\ \A i \in DOMAIN queue : queue[i] \in Deployments
  BY DEF HookInv, H!TypeOK
<1>15. Served'
  BY <1>1, <1>8, <1>9, <1>11, <1>14 DEF HookInv, Served
<1>16. Coming'
  <2>1. ASSUME NEW y \in Deployments, H!Active(y), row[y].built = head PROVE Coming'
    <3>1. row[x].built = head
      BY <1>1, <2>1 DEF HookInv, Served
    <3>2. QED
      BY <1>1, <1>11, <3>1 DEF Coming
  <2>2. ASSUME NEW d \in pending, d.commit = head, H!Relevant(d) PROVE Coming'
    BY <1>1, <1>10, <2>2 DEF Coming
  <2>3. ASSUME NEW y \in offering, row[y].commit = head PROVE Coming'
    <3>1. row'[y].commit = head
      BY <1>9, <1>14, <2>3 DEF HookInv, Served
    <3>2. QED
      BY <1>1, <3>1 DEF Coming
  <2>4. ASSUME NEW i \in DOMAIN queue, row[queue[i]].commit = head PROVE Coming'
    <3>1. row'[queue[i]].commit = head
      BY <1>9, <1>14, <2>4 DEF HookInv, Served
    <3>2. QED
      BY <1>1, <2>4, <3>1 DEF Coming
  <2>5. CASE running = head \/ head \in lost
    BY <1>1, <1>11, <2>5 DEF Coming
  <2>6. QED
    BY <2>1, <2>2, <2>3, <2>4, <2>5 DEF HookInv, Coming
<1>17. QED
  BY <1>12, <1>13, <1>15, <1>16 DEF HookInv

(* What the process had accepted is noted.                                 *)
LEMMA HookCrashKeeps == ASSUME H!WebhooksAssumption, HookInv, H!Crash PROVE HookInv'
<1> DEFINE dropped == lost \union {row[x].commit : x \in H!Accepted}
<1>1. /\ UNCHANGED <<host, head, pending, sent, secret, shared, stray>>
      /\ queue' = <<>> /\ offering' = {} /\ losses' \in Nat
      /\ row \in [Deployments -> H!Row \union {None}] /\ lost \subseteq 0..MaxCommits
      /\ running \in 0..MaxCommits /\ running <= head
  BY DEF HookInv, H!TypeOK, Served, H!Crash, H!Fails, H!deliveryVars
<1>2. /\ offering \subseteq Deployments /\ \A i \in DOMAIN queue : queue[i] \in Deployments
      /\ H!Accepted \subseteq Deployments
      /\ \A x \in H!Accepted : row[x] # None
  BY DEF HookInv, H!TypeOK, Served, H!Accepted
<1>3. dropped \subseteq 0..MaxCommits
  <2>1. \A x \in H!Accepted : row[x] \in H!Row
    BY <1>1, <1>2
  <2>2. \A x \in H!Accepted : row[x].commit \in 0..MaxCommits
    BY <2>1 DEF H!Row
  <2>3. QED
    BY <1>1, <2>2
<1> HIDE DEF dropped
<1>4. /\ \A x \in offering : row[x].commit \in dropped
      /\ \A i \in DOMAIN queue : row[queue[i]].commit \in dropped
      /\ lost \subseteq dropped
  BY DEF dropped, H!Accepted
<1>5. /\ running' \in 0..MaxCommits /\ running' <= head /\ lost' \subseteq 0..MaxCommits
      /\ dropped \subseteq lost'
      /\ running = head => running' = head \/ head \in lost'
      /\ \A x \in Deployments : H!Active(x) /\ row[x].built = head =>
                                   running' = head \/ head \in lost'
  <2>1. CASE /\ \A x \in Deployments : ~ H!Active(x)
             /\ running' = running /\ lost' = dropped
    BY <1>1, <1>3, <2>1
  <2>2. ASSUME NEW x \in Deployments, H!Active(x),
               NEW end \in {H!Replaces(x), H!Stays(x), H!Removes(x)},
               running' = end.runs, lost' = dropped \union end.lost
        PROVE  /\ running' \in 0..MaxCommits /\ running' <= head /\ lost' \subseteq 0..MaxCommits
               /\ dropped \subseteq lost'
               /\ running = head => running' = head \/ head \in lost'
               /\ \A y \in Deployments : H!Active(y) /\ row[y].built = head =>
                                            running' = head \/ head \in lost'
    <3>1. \A y \in Deployments : H!Active(y) => y = x
      BY <2>2 DEF HookInv, Served
    <3>2. QED
      BY <1>3, <2>2, <3>1, EndFacts
  <2>3. QED
    BY <2>1, <2>2 DEF H!Crash, dropped
<1>6. /\ row' \in [Deployments -> H!Row \union {None}]
      /\ \A x \in Deployments :
            /\ ~ H!Active(x)'
            /\ row'[x] # None => /\ row[x] # None /\ row'[x].commit = row[x].commit
                                 /\ row'[x].built = row[x].built
                                 /\ row'[x].source = row[x].source
  <2>1. ASSUME NEW x \in Deployments
        PROVE  /\ row'[x] \in H!Row \union {None} /\ ~ H!Active(x)'
               /\ row'[x] # None => /\ row[x] # None /\ row'[x].commit = row[x].commit
                                    /\ row'[x].built = row[x].built
                                    /\ row'[x].source = row[x].source
    <3>1. CASE H!Active(x)
      <4>1. row[x] \in H!Row /\ row[x] # None
        BY <1>1, <3>1 DEF H!Active
      <4>2. row'[x] = [row[x] EXCEPT !.status = "left"]
        BY <3>1 DEF H!Crash
      <4>3. PICK new : new = [row[x] EXCEPT !.status = "left"]
        OBVIOUS
      <4>4. /\ new \in H!Row /\ new.status = "left" /\ new.commit = row[x].commit
            /\ new.built = row[x].built /\ new.source = row[x].source
        BY <4>1, <4>3 DEF H!Row, H!Statuses
      <4>5. QED
        BY <4>1, <4>2, <4>3, <4>4 DEF H!Active
    <3>2. CASE ~ H!Active(x)
      <4>1. row'[x] = row[x]
        BY <3>2 DEF H!Crash
      <4>2. QED
        BY <1>1, <3>2, <4>1 DEF H!Active
    <3>3. QED
      BY <3>1, <3>2
  <2>2. row' = [x \in Deployments |-> row'[x]]
    BY DEF H!Crash
  <2>3. QED
    BY <2>1, <2>2
<1>7. \A d : H!Relevant(d)' <=> H!Relevant(d)
  BY <1>1, RelevantAsBefore
<1>8. H!TypeOK'
  BY <1>1, <1>5, <1>6 DEF HookInv, H!TypeOK
<1>9. Announced'
  BY <1>1, <1>7 DEF HookInv, Announced
<1>10. Served'
  BY <1>1, <1>5, <1>6 DEF HookInv, Served
<1>11. Coming'
  BY <1>1, <1>4, <1>5, <1>7 DEF HookInv, Coming
<1>12. QED
  BY <1>8, <1>9, <1>10, <1>11 DEF HookInv

LEMMA HooksKeep == ASSUME H!WebhooksAssumption, HookInv, [H!Next]_(H!vars) PROVE HookInv'
<1>1. CASE H!Push
  BY <1>1, PushKeeps
<1>2. CASE \/ H!PushElsewhere \/ H!RegenerateWebhookSecret \/ H!ShareSecret
           \/ \E d \in H!Delivery : H!Redeliver(d) \/ H!Lose(d) \/ H!Refuse(d) \/ H!Ignore(d)
  BY <1>2, DeliveryKeeps
<1>3. ASSUME NEW x \in Deployments, NEW d \in H!Delivery, H!DispatchDeployment(d, x)
      PROVE  HookInv'
  BY <1>3, DeploymentKeeps
<1>4. ASSUME NEW x \in Deployments,
             \/ H!DeployByAPI(x) \/ H!Offer(x) \/ H!Succeed(x) \/ H!Fail(x)
             \/ \E y \in Deployments : H!Rollback(x, y)
      PROVE  HookInv'
  BY <1>4, DeploymentKeeps, OfferKeeps, HookEndKeeps
<1>5. CASE H!CloneGitRepo \/ H!PullImage \/ H!Crash
  BY <1>5, CloneKeeps, HookCrashKeeps
<1>6. CASE UNCHANGED H!vars
  <2>1. /\ UNCHANGED <<host, head, pending, sent, secret, shared, row, offering, queue, running>>
        /\ UNCHANGED <<stray, losses, lost>>
    BY <1>6 DEF H!vars, H!deliveryVars, H!deployVars, H!boundVars
  <2>2. \A d : (H!Relevant(d)' <=> H!Relevant(d)) /\ (H!Active(d)' <=> H!Active(d))
    BY <2>1, RelevantAsBefore, ActiveAsBefore
  <2>3. H!TypeOK' /\ Announced' /\ Served' /\ Coming'
    BY <2>1, <2>2 DEF HookInv, H!TypeOK, Announced, Served, Coming
  <2>4. QED
    BY <2>3 DEF HookInv
<1>7. QED
  BY <1>1, <1>2, <1>3, <1>4, <1>5, <1>6 DEF H!Next

(* Webhooks: for any number of deployments, rollbacks, pushes, crashes and *)
(* mishaps, and however deliveries are repeated and reordered, once all is *)
(* quiet the application runs the last commit, unless that one came to     *)
(* nothing or its container was taken away                                 *)
(* (modules/applications/webhooks.go, dispatchDeployment;                  *)
(* modules/deployments/handler.go, Rollback).                              *)
THEOREM CaughtUpHolds == H!WebhooksAssumption => (H!Spec => []CaughtUp)
<1> SUFFICES ASSUME H!WebhooksAssumption PROVE H!Spec => []CaughtUp
  OBVIOUS
<1>1. H!Init => HookInv
  BY HooksInitially
<1>2. HookInv /\ [H!Next]_(H!vars) => HookInv'
  BY HooksKeep
<1>3. HookInv => CaughtUp
  BY DEF HookInv, Coming, CaughtUp, H!CaughtUp, H!Quiet
<1>4. QED
  BY <1>1, <1>2, <1>3, PTL DEF H!Spec

-----------------------------------------------------------------------------
(* A client's bucket in the map is one of its own; what a request holds is *)
(* a bucket.                                                               *)
Owned ==
    /\ \A c \in Clients : limiters[c] # None =>
          limiters[c] \in DOMAIN buckets /\ buckets[limiters[c]].client = c
    /\ \A r \in Requests : grip[r] # None => grip[r] \in DOMAIN buckets

(* What a client may still take at once: the tokens of its bucket, a full  *)
(* one where it has none, and one for each request in hand whose bucket is *)
(* no longer in the map.                                                   *)
Left(c) == IF limiters[c] = None THEN Burst ELSE buckets[limiters[c]].tokens
Outdated(c) ==
    {r \in Requests : grip[r] # None /\ grip[r] # limiters[c] /\ buckets[grip[r]].client = c}

Allowance(time, sweeps) == Burst + Rate * time + (Burst + Cardinality(Requests)) * sweeps
Within(c) == passed[c] + Left(c) + Cardinality(Outdated(c)) <= Allowance(clock, cleanups)

(* A bucket that outlives a clean-up was empty then, and its client has    *)
(* been silent for that one only; it has a token once time has passed.     *)
Refilled == \A c \in Clients : quiet[c] >= 1 /\ limiters[c] # None =>
    quiet[c] = 1 /\ (clock > cleaned => buckets[limiters[c]].tokens > 0)

LimiterInv == B!TypeOK /\ Owned /\ (\A c \in Clients : Within(c)) /\ Refilled

-----------------------------------------------------------------------------
LEMMA AllowanceFacts ==
    ASSUME B!LimiterAssumption, NEW time \in Nat, NEW sweeps \in Nat
    PROVE  /\ Allowance(time, sweeps) \in Nat
           /\ Allowance(0, 0) = Burst
           /\ Allowance(time + 1, sweeps) = Allowance(time, sweeps) + Rate
           /\ Allowance(time, sweeps + 1) =
                 Allowance(time, sweeps) + Burst + Cardinality(Requests)
<1>1. PICK n \in Nat : n = Cardinality(Requests)
  BY FS_CardinalityType DEF B!LimiterAssumption
<1>2. PICK b, a \in Nat : b = Burst /\ a = Rate
  BY DEF B!LimiterAssumption
<1>3. /\ a * time \in Nat /\ (b + n) * sweeps \in Nat
      /\ a * 0 = 0 /\ (b + n) * 0 = 0
      /\ a * (time + 1) = a * time + a
      /\ (b + n) * (sweeps + 1) = (b + n) * sweeps + b + n
  OBVIOUS
<1>4. /\ Allowance(time, sweeps) = b + a * time + (b + n) * sweeps
      /\ Allowance(time + 1, sweeps) = b + a * (time + 1) + (b + n) * sweeps
      /\ Allowance(time, sweeps + 1) = b + a * time + (b + n) * (sweeps + 1)
      /\ Allowance(0, 0) = b + a * 0 + (b + n) * 0
  BY <1>1, <1>2 DEF Allowance
<1>5. PICK p, q \in Nat : p = a * time /\ q = (b + n) * sweeps
  BY <1>3
<1>6. /\ Allowance(time, sweeps) = b + p + q /\ Allowance(0, 0) = b
      /\ Allowance(time + 1, sweeps) = b + (p + a) + q
      /\ Allowance(time, sweeps + 1) = b + p + (q + b + n)
  BY <1>3, <1>4, <1>5
<1>7. QED
  BY <1>1, <1>2, <1>5, <1>6

(* Requests with outdated buckets are some of all.                         *)
LEMMA OutdatedFacts ==
    ASSUME B!LimiterAssumption, NEW c
    PROVE  /\ IsFiniteSet(Outdated(c)) /\ Cardinality(Outdated(c)) \in Nat
           /\ Cardinality(Outdated(c)) <= Cardinality(Requests)
           /\ IsFiniteSet(Outdated(c)') /\ Cardinality(Outdated(c)') \in Nat
           /\ Cardinality(Outdated(c)') <= Cardinality(Requests)
<1>1. Outdated(c) \subseteq Requests /\ Outdated(c)' \subseteq Requests
  BY DEF Outdated
<1>2. QED
  BY <1>1, FS_Subset, FS_CardinalityType DEF B!LimiterAssumption

LEMMA LeftFacts ==
    ASSUME B!LimiterAssumption, LimiterInv, NEW c \in Clients
    PROVE  /\ Left(c) \in 0..Burst /\ passed[c] \in Nat
           /\ limiters[c] # None => buckets[limiters[c]] \in B!Bucket
<1>1. limiters[c] # None => buckets[limiters[c]] \in B!Bucket
  BY DEF LimiterInv, B!TypeOK, Owned
<1>2. Burst \in Nat /\ passed[c] \in Nat
  BY DEF B!LimiterAssumption, LimiterInv, B!TypeOK
<1>3. QED
  BY <1>1, <1>2 DEF Left, B!Bucket

(* The numbers that Within adds up.                                        *)
LEMMA Figures ==
    ASSUME B!LimiterAssumption, LimiterInv, NEW c \in Clients
    PROVE  \E x, y, z, m, n \in Nat :
              /\ x = Left(c) /\ y = Cardinality(Outdated(c)) /\ z = passed[c]
              /\ m = Allowance(clock, cleanups) /\ n = Cardinality(Requests)
              /\ z + x + y <= m
<1>1. clock \in Nat /\ cleanups \in Nat
  BY DEF LimiterInv, B!TypeOK, B!LimiterAssumption
<1>2. Allowance(clock, cleanups) \in Nat
  BY <1>1, AllowanceFacts
<1>3. Left(c) \in Nat /\ passed[c] \in Nat
  BY LeftFacts DEF B!LimiterAssumption
<1>4. Cardinality(Requests) \in Nat /\ Cardinality(Outdated(c)) \in Nat
  BY OutdatedFacts, FS_CardinalityType DEF B!LimiterAssumption
<1>5. QED
  BY <1>2, <1>3, <1>4 DEF LimiterInv, Within

LEMMA LimiterInitially == ASSUME B!LimiterAssumption, B!Init PROVE LimiterInv
<1>1. B!TypeOK /\ Owned /\ Refilled
  BY DEF B!LimiterAssumption, B!Init, B!TypeOK, Owned, Refilled
<1>2. ASSUME NEW c \in Clients PROVE Within(c)
  <2>1. Left(c) = Burst /\ passed[c] = 0 /\ clock = 0 /\ cleanups = 0
    BY DEF B!Init, Left
  <2>2. Outdated(c) = {}
    BY DEF B!Init, Outdated
  <2>3. Burst \in Nat /\ Cardinality(Outdated(c)) = 0
    BY <2>2, FS_EmptySet DEF B!LimiterAssumption
  <2>4. QED
    BY <2>1, <2>3, AllowanceFacts DEF Within
<1>3. QED
  BY <1>1, <1>2 DEF LimiterInv

(* A request finds its client's bucket or makes a full one.                *)
LEMMA GetKeeps ==
    ASSUME B!LimiterAssumption, LimiterInv, NEW r \in Requests, NEW c \in Clients,
           B!GetLimiter(r, c)
    PROVE  LimiterInv'
<1> DEFINE full == [client |-> c, tokens |-> Burst]
<1>1. /\ grip[r] = None /\ grip' = [grip EXCEPT ![r] = limiters'[c]]
      /\ quiet' = [quiet EXCEPT ![c] = 0]
      /\ UNCHANGED <<clock, cleaned, cleanups, passed>>
      /\ calls' \in 0..MaxCalls
  BY DEF B!GetLimiter, LimiterInv, B!TypeOK, B!LimiterAssumption
<1>2. /\ None \notin Nat /\ Burst \in Nat
      /\ limiters \in [Clients -> Nat \union {None}] /\ grip \in [Requests -> Nat \union {None}]
      /\ buckets \in Seq(B!Bucket) /\ quiet \in [Clients -> Nat] /\ passed \in [Clients -> Nat]
  BY DEF B!LimiterAssumption, LimiterInv, B!TypeOK
<1>3. full \in B!Bucket /\ full.client = c /\ full.tokens = Burst
  BY <1>2 DEF B!Bucket
<1>4. /\ buckets' \in Seq(B!Bucket) /\ DOMAIN buckets \subseteq DOMAIN buckets'
      /\ \A i \in DOMAIN buckets : buckets'[i] = buckets[i]
      /\ limiters' \in [Clients -> Nat \union {None}]
      /\ \A d \in Clients : d # c => limiters'[d] = limiters[d]
      /\ limiters'[c] # None /\ limiters'[c] \in DOMAIN buckets'
      /\ buckets'[limiters'[c]].client = c
      /\ Left(c)' = Left(c)
      /\ limiters'[c] = limiters[c] \/ (limiters[c] = None /\ limiters'[c] \notin DOMAIN buckets)
  <2>1. CASE limiters[c] # None /\ UNCHANGED <<limiters, buckets>>
    <3>1. limiters' = limiters /\ buckets' = buckets
      BY <2>1
    <3>2. limiters[c] \in DOMAIN buckets /\ buckets[limiters[c]].client = c
      BY <2>1 DEF LimiterInv, Owned
    <3>3. Left(c)' = Left(c)
      BY <3>1 DEF Left
    <3>4. QED
      BY <1>2, <2>1, <3>1, <3>2, <3>3
  <2>2. CASE /\ limiters[c] = None /\ buckets' = Append(buckets, full)
             /\ limiters' = [limiters EXCEPT ![c] = Len(buckets')]
    <3>1. PICK n \in Nat : n = Len(buckets)
      BY <1>2
    <3>2. /\ buckets' \in Seq(B!Bucket) /\ Len(buckets') = n + 1
          /\ DOMAIN buckets = 1..n /\ DOMAIN buckets' = 1..(n + 1)
          /\ buckets'[n + 1] = full /\ \A i \in 1..n : buckets'[i] = buckets[i]
      BY <1>2, <1>3, <2>2, <3>1
    <3>3. /\ limiters'[c] = n + 1 /\ \A d \in Clients : d # c => limiters'[d] = limiters[d]
          /\ limiters' \in [Clients -> Nat \union {None}]
      BY <1>2, <2>2, <3>2
    <3>4. n + 1 \in 1..(n + 1) /\ n + 1 \notin 1..n /\ 1..n \subseteq 1..(n + 1)
          /\ n + 1 # None
      BY <1>2
    <3>5. Left(c)' = Left(c)
      BY <1>3, <2>2, <3>2, <3>3, <3>4 DEF Left
    <3>6. QED
      BY <1>3, <2>2, <3>2, <3>3, <3>4, <3>5
  <2>3. QED
    BY <2>1, <2>2 DEF B!GetLimiter, B!NewLimiter
<1>5. /\ grip' \in [Requests -> Nat \union {None}] /\ grip'[r] = limiters'[c]
      /\ \A q \in Requests : q # r => grip'[q] = grip[q]
      /\ quiet' \in [Clients -> Nat] /\ quiet'[c] = 0
      /\ \A d \in Clients : d # c => quiet'[d] = quiet[d]
  BY <1>1, <1>2, <1>4
<1>6. B!TypeOK'
  BY <1>1, <1>2, <1>4, <1>5 DEF LimiterInv, B!TypeOK
<1>7. Owned'
  BY <1>1, <1>4, <1>5 DEF LimiterInv, Owned
<1>8. ASSUME NEW d \in Clients PROVE Within(d)'
  <2>1. Outdated(d)' = Outdated(d)
    <3>1. ASSUME NEW q \in Requests PROVE q \in Outdated(d)' <=> q \in Outdated(d)
      <4>1. CASE q = r
        BY <1>1, <1>4, <1>5, <4>1 DEF Outdated
      <4>2. CASE q # r /\ grip[q] = None
        BY <1>5, <4>2 DEF Outdated
      <4>3. CASE q # r /\ grip[q] # None
        <5>1. grip'[q] = grip[q] /\ grip[q] \in DOMAIN buckets
          BY <1>5, <4>3 DEF LimiterInv, Owned
        <5>2. grip[q] # limiters'[d] <=> grip[q] # limiters[d]
          BY <1>4, <4>3, <5>1
        <5>3. QED
          BY <1>4, <4>3, <5>1, <5>2 DEF Outdated
      <4>4. QED
        BY <4>1, <4>2, <4>3
    <3>2. QED
      BY <3>1 DEF Outdated
  <2>2. Left(d)' = Left(d)
    <3>1. CASE d = c
      BY <1>4, <3>1
    <3>2. CASE d # c
      BY <1>4, <3>2 DEF Left, LimiterInv, Owned
    <3>3. QED
      BY <3>1, <3>2
  <2>3. QED
    BY <1>1, <2>1, <2>2 DEF LimiterInv, Within
<1>9. Refilled'
  <2>1. ASSUME NEW d \in Clients, d # c, quiet'[d] >= 1, limiters'[d] # None
        PROVE  quiet'[d] = 1 /\ (clock' > cleaned' => buckets'[limiters'[d]].tokens > 0)
    <3>1. limiters'[d] = limiters[d] /\ quiet'[d] = quiet[d] /\ limiters[d] \in DOMAIN buckets
      BY <1>4, <1>5, <2>1 DEF LimiterInv, Owned
    <3>2. QED
      BY <1>1, <1>4, <2>1, <3>1 DEF LimiterInv, Refilled
  <2>2. ~ quiet'[c] >= 1
    BY <1>5
  <2>3. QED
    BY <2>1, <2>2 DEF Refilled
<1>10. QED
  BY <1>6, <1>7, <1>8, <1>9 DEF LimiterInv

(* A request takes a token of the bucket it holds, in the map or not.      *)
LEMMA AllowKeeps ==
    ASSUME B!LimiterAssumption, LimiterInv, NEW r \in Requests, B!Middleware(r)
    PROVE  LimiterInv'
<1>0. PICK i, b : i = grip[r] /\ b = buckets[i]
  OBVIOUS
<1>1. /\ None \notin Nat /\ Burst \in Nat
      /\ limiters \in [Clients -> Nat \union {None}] /\ grip \in [Requests -> Nat \union {None}]
      /\ buckets \in Seq(B!Bucket) /\ quiet \in [Clients -> Nat] /\ passed \in [Clients -> Nat]
  BY DEF B!LimiterAssumption, LimiterInv, B!TypeOK
<1>2. i # None /\ i \in DOMAIN buckets /\ b \in B!Bucket
  BY <1>0, <1>1 DEF LimiterInv, Owned, B!Middleware
<1>3. PICK c \in Clients, t \in Nat : c = b.client /\ t = b.tokens /\ t <= Burst
  BY <1>1, <1>2 DEF B!Bucket
<1>4. PICK new : new = B!Taken(b)
  OBVIOUS
<1>5. PICK u : u = (IF t > 0 THEN t - 1 ELSE 0)
  OBVIOUS
<1>6. u \in Nat /\ u <= Burst /\ u <= t /\ (t > 0 => u + 1 = t)
  BY <1>1, <1>3, <1>5
<1>7. new \in B!Bucket /\ new.client = c /\ new.tokens = u
  <2>1. new = [b EXCEPT !.tokens = u]
    BY <1>3, <1>4, <1>5 DEF B!Taken
  <2>2. u \in 0..Burst
    BY <1>1, <1>6
  <2>3. QED
    BY <1>2, <1>3, <2>1, <2>2 DEF B!Bucket
<1>8. /\ grip' = [grip EXCEPT ![r] = None] /\ buckets' = [buckets EXCEPT ![i] = new]
      /\ passed' = [passed EXCEPT ![c] = IF t > 0 THEN passed[c] + 1 ELSE passed[c]]
      /\ quiet' = [quiet EXCEPT ![c] = 0]
      /\ UNCHANGED <<limiters, calls, clock, cleaned, cleanups>>
  BY <1>0, <1>3, <1>4 DEF B!Middleware
<1>9. /\ buckets' \in Seq(B!Bucket) /\ DOMAIN buckets' = DOMAIN buckets
      /\ buckets'[i] = new /\ \A j \in DOMAIN buckets : j # i => buckets'[j] = buckets[j]
      /\ \A j \in DOMAIN buckets : buckets'[j].client = buckets[j].client
  <2>1. /\ buckets' \in Seq(B!Bucket) /\ DOMAIN buckets' = DOMAIN buckets
        /\ buckets'[i] = new /\ \A j \in DOMAIN buckets : j # i => buckets'[j] = buckets[j]
    BY <1>1, <1>2, <1>7, <1>8
  <2>2. QED
    BY <1>0, <1>3, <1>7, <2>1
<1>10. PICK v \in Nat : v = passed[c]
  BY <1>1
<1>11. /\ grip' \in [Requests -> Nat \union {None}] /\ grip'[r] = None
       /\ \A q \in Requests : q # r => grip'[q] = grip[q]
       /\ quiet' \in [Clients -> Nat] /\ quiet'[c] = 0
       /\ \A d \in Clients : d # c => quiet'[d] = quiet[d] /\ passed'[d] = passed[d]
       /\ passed' \in [Clients -> Nat] /\ passed'[c] = v + (t - u)
  <2>1. v + 1 \in Nat /\ (t > 0 => t - u = 1) /\ (~ t > 0 => t - u = 0)
    BY <1>3, <1>5, <1>6
  <2>2. (IF t > 0 THEN v + 1 ELSE v) = v + (t - u) /\ v + (t - u) \in Nat
    <3>1. CASE t > 0
      BY <2>1, <3>1
    <3>2. CASE ~ t > 0
      BY <2>1, <3>2
    <3>3. QED
      BY <3>1, <3>2
  <2>3. passed' = [passed EXCEPT ![c] = v + (t - u)]
    BY <1>8, <1>10, <2>2
  <2>4. QED
    BY <1>1, <1>8, <2>2, <2>3
<1>12. B!TypeOK'
  BY <1>8, <1>9, <1>11 DEF LimiterInv, B!TypeOK
<1>13. Owned'
  BY <1>8, <1>9, <1>11 DEF LimiterInv, Owned
<1>14. ASSUME NEW d \in Clients PROVE Within(d)'
  <2>1. \A q \in Requests : q # r => (q \in Outdated(d)' <=> q \in Outdated(d))
    <3>1. ASSUME NEW q \in Requests, q # r PROVE q \in Outdated(d)' <=> q \in Outdated(d)
      <4>1. grip'[q] = grip[q] /\ (grip[q] # None => grip[q] \in DOMAIN buckets)
        BY <1>11, <3>1 DEF LimiterInv, Owned
      <4>2. grip[q] # None => buckets'[grip[q]].client = buckets[grip[q]].client
        BY <1>9, <4>1
      <4>3. QED
        BY <1>8, <4>1, <4>2 DEF Outdated
    <3>2. QED
      BY <3>1
  <2>2. r \notin Outdated(d)'
    BY <1>11 DEF Outdated
  <2>3. r \in Outdated(d) <=> d = c /\ limiters[c] # i
    BY <1>0, <1>2, <1>3 DEF Outdated
  <2>4. limiters[d] = i => d = c
    BY <1>0, <1>2, <1>3 DEF LimiterInv, Owned
  <2>5. PICK x, y, z, m, n \in Nat :
           /\ x = Left(d) /\ y = Cardinality(Outdated(d)) /\ z = passed[d]
           /\ m = Allowance(clock, cleanups) /\ n = Cardinality(Requests)
           /\ z + x + y <= m
    BY Figures
  <2>6. z + x + y <= m
    BY <2>5
  <2>7. Allowance(clock, cleanups)' = m
    BY <1>8, <2>5 DEF Allowance
  <2>8. CASE limiters[d] = i
    <3>1. Outdated(d)' = Outdated(d)
      BY <2>1, <2>2, <2>3, <2>4, <2>8 DEF Outdated
    <3>2. Left(d) = t /\ Left(d)' = u
      BY <1>0, <1>2, <1>3, <1>7, <1>8, <1>9, <2>8 DEF Left
    <3>3. passed'[d] = z + (t - u)
      BY <1>10, <1>11, <2>4, <2>5, <2>8
    <3>4. z + (t - u) + u + y <= m
      BY <1>6, <2>5, <2>6, <3>2
    <3>5. QED
      BY <2>5, <2>7, <3>1, <3>2, <3>3, <3>4 DEF Within
  <2>9. CASE limiters[d] # i
    <3>1. Left(d)' = Left(d)
      BY <1>8, <1>9, <2>9 DEF Left, LimiterInv, Owned
    <3>2. CASE d = c
      <4>1. Outdated(d)' = Outdated(d) \ {r} /\ r \in Outdated(d)
        BY <2>1, <2>2, <2>3, <2>9, <3>2 DEF Outdated
      <4>2. Cardinality(Outdated(d)') = y - 1
        <5>1. PICK S : S = Outdated(d)
          OBVIOUS
        <5>2. IsFiniteSet(S) /\ r \in S /\ Cardinality(S) = y
          BY <2>5, <4>1, <5>1, OutdatedFacts
        <5>3. Cardinality(S \ {r}) = y - 1
          BY <5>2, FS_RemoveElement
        <5>4. QED
          BY <4>1, <5>1, <5>3
      <4>3. passed'[d] = z + (t - u) /\ t - u <= 1 /\ t - u \in Nat
        <5>1. (t > 0 => t - u = 1) /\ (~ t > 0 => t - u = 0)
          BY <1>3, <1>5, <1>6
        <5>2. t - u <= 1 /\ t - u \in Nat
          BY <5>1
        <5>3. v = z
          BY <1>10, <2>5, <3>2
        <5>4. QED
          BY <1>11, <3>2, <5>2, <5>3
      <4>4. z + (t - u) + x + (y - 1) <= m
        BY <2>5, <2>6, <4>3
      <4>5. QED
        BY <2>5, <2>7, <3>1, <4>2, <4>3, <4>4 DEF Within
    <3>3. CASE d # c
      <4>1. Outdated(d)' = Outdated(d)
        BY <2>1, <2>2, <2>3, <3>3 DEF Outdated
      <4>2. QED
        BY <1>11, <2>5, <2>6, <2>7, <3>1, <3>3, <4>1 DEF Within
    <3>4. QED
      BY <3>2, <3>3
  <2>10. QED
    BY <2>8, <2>9
<1>15. Refilled'
  <2>1. ASSUME NEW d \in Clients, d # c, quiet'[d] >= 1, limiters'[d] # None
        PROVE  quiet'[d] = 1 /\ (clock' > cleaned' => buckets'[limiters'[d]].tokens > 0)
    <3>1. /\ limiters'[d] = limiters[d] /\ quiet'[d] = quiet[d]
          /\ limiters[d] \in DOMAIN buckets /\ limiters[d] # i
      BY <1>0, <1>3, <1>8, <1>11, <2>1 DEF LimiterInv, Owned
    <3>2. QED
      BY <1>8, <1>9, <2>1, <3>1 DEF LimiterInv, Refilled
  <2>2. ~ quiet'[c] >= 1
    BY <1>11
  <2>3. QED
    BY <2>1, <2>2 DEF Refilled
<1>16. QED
  BY <1>12, <1>13, <1>14, <1>15 DEF LimiterInv

(* Every bucket gets Rate tokens, up to Burst.                             *)
LEMMA FilledFacts ==
    ASSUME B!LimiterAssumption, NEW b \in B!Bucket
    PROVE  /\ B!Filled(b) \in B!Bucket /\ B!Filled(b).client = b.client
           /\ B!Filled(b).tokens > 0 /\ B!Filled(b).tokens <= b.tokens + Rate
<1>1. PICK t \in Nat : t = b.tokens /\ t <= Burst
  BY DEF B!LimiterAssumption, B!Bucket
<1>2. PICK u : u = (IF t + Rate < Burst THEN t + Rate ELSE Burst)
  OBVIOUS
<1>3. u \in Nat /\ u <= Burst /\ u > 0 /\ u <= t + Rate
  BY <1>1, <1>2 DEF B!LimiterAssumption
<1>4. B!Filled(b) = [b EXCEPT !.tokens = u]
  BY <1>1, <1>2 DEF B!Filled
<1>5. QED
  BY <1>1, <1>3, <1>4 DEF B!Bucket, B!LimiterAssumption

LEMMA TakenFacts ==
    ASSUME B!LimiterAssumption, NEW b \in B!Bucket
    PROVE  /\ B!Taken(b) \in B!Bucket /\ B!Taken(b).client = b.client
           /\ b.tokens = 0 => B!Taken(b).tokens = 0
<1>1. PICK t \in Nat : t = b.tokens /\ t <= Burst
  BY DEF B!LimiterAssumption, B!Bucket
<1>2. PICK u : u = (IF t > 0 THEN t - 1 ELSE 0)
  OBVIOUS
<1>3. u \in Nat /\ u <= Burst /\ (t = 0 => u = 0)
  BY <1>1, <1>2 DEF B!LimiterAssumption
<1>4. B!Taken(b) = [b EXCEPT !.tokens = u]
  BY <1>1, <1>2 DEF B!Taken
<1>5. QED
  BY <1>1, <1>3, <1>4 DEF B!Bucket, B!LimiterAssumption

LEMMA TimeKeeps == ASSUME B!LimiterAssumption, LimiterInv, B!TimePasses PROVE LimiterInv'
<1>1. /\ clock' = clock + 1 /\ clock' \in 0..MaxTicks /\ clock \in Nat /\ cleaned \in 0..clock
      /\ buckets' = [i \in DOMAIN buckets |-> B!Filled(buckets[i])]
      /\ UNCHANGED <<limiters, grip, calls, cleaned, cleanups, passed, quiet>>
      /\ buckets \in Seq(B!Bucket)
  BY DEF B!LimiterAssumption, LimiterInv, B!TypeOK, B!TimePasses, B!histVars
<1>2. /\ \A i \in DOMAIN buckets : buckets[i] \in B!Bucket /\ buckets'[i] = B!Filled(buckets[i])
      /\ DOMAIN buckets' = DOMAIN buckets
  BY <1>1
<1>3. \A i \in DOMAIN buckets :
         /\ buckets'[i] \in B!Bucket /\ buckets'[i].client = buckets[i].client
         /\ buckets'[i].tokens > 0 /\ buckets'[i].tokens <= buckets[i].tokens + Rate
  BY <1>2, FilledFacts
<1>4. buckets' \in Seq(B!Bucket)
  <2>1. PICK n \in Nat : DOMAIN buckets = 1..n
    BY <1>1
  <2>2. buckets' \in [1..n -> B!Bucket]
    BY <1>1, <1>3, <2>1
  <2>3. QED
    BY <2>1, <2>2
<1>5. cleaned' \in 0..clock'
  BY <1>1
<1>6. B!TypeOK'
  BY <1>1, <1>4, <1>5 DEF LimiterInv, B!TypeOK
<1>7. Owned'
  BY <1>1, <1>2, <1>3 DEF LimiterInv, Owned
<1>8. ASSUME NEW d \in Clients PROVE Within(d)'
  <2>1. Outdated(d)' = Outdated(d)
    BY <1>1, <1>2, <1>3 DEF Outdated, LimiterInv, Owned
  <2>2. PICK x, y, z, m, n \in Nat :
           /\ x = Left(d) /\ y = Cardinality(Outdated(d)) /\ z = passed[d]
           /\ m = Allowance(clock, cleanups) /\ n = Cardinality(Requests)
           /\ z + x + y <= m
    BY Figures
  <2>3. z + x + y <= m
    BY <2>2
  <2>4. Allowance(clock, cleanups)' = m + Rate
    <3>1. cleanups \in Nat /\ Allowance(clock, cleanups)' = Allowance(clock + 1, cleanups)
      BY <1>1 DEF Allowance, LimiterInv, B!TypeOK
    <3>2. QED
      BY <1>1, <2>2, <3>1, AllowanceFacts
  <2>5. PICK w \in Nat : w = Left(d)' /\ w <= x + Rate
    <3>1. CASE limiters[d] = None
      BY <1>1, <2>2, <3>1 DEF Left, B!LimiterAssumption
    <3>2. CASE limiters[d] # None
      <4>1. limiters[d] \in DOMAIN buckets
        BY <3>2 DEF LimiterInv, Owned
      <4>2. PICK k : k = buckets'[limiters[d]]
        OBVIOUS
      <4>3. Left(d)' = k.tokens /\ Left(d) = buckets[limiters[d]].tokens
        BY <1>1, <3>2, <4>2 DEF Left
      <4>4. k \in B!Bucket /\ k.tokens <= x + Rate
        BY <1>3, <2>2, <4>1, <4>2, <4>3
      <4>5. k.tokens \in Nat
        BY <4>4 DEF B!Bucket, B!LimiterAssumption
      <4>6. QED
        BY <4>3, <4>4, <4>5
    <3>3. QED
      BY <3>1, <3>2
  <2>6. Rate \in Nat /\ z + w + y <= m + Rate
    BY <2>2, <2>3, <2>5 DEF B!LimiterAssumption
  <2>7. passed'[d] = z
    BY <1>1, <2>2
  <2>8. QED
    BY <2>1, <2>2, <2>4, <2>5, <2>6, <2>7 DEF Within
<1>9. Refilled'
  BY <1>1, <1>3 DEF LimiterInv, Refilled, Owned
<1>10. QED
  BY <1>6, <1>7, <1>8, <1>9 DEF LimiterInv

(* Buckets that had a token are dropped from the map.                      *)
LEMMA CleanUpKeeps == ASSUME B!LimiterAssumption, LimiterInv, B!CleanUp PROVE LimiterInv'
<1>1. /\ cleaned' = clock /\ cleanups' = cleanups + 1 /\ clock > cleaned
      /\ limiters' = [c \in Clients |->
            IF limiters[c] # None /\ buckets[limiters[c]].tokens > 0 THEN None
                                                                   ELSE limiters[c]]
      /\ quiet' = [c \in Clients |-> quiet[c] + 1]
      /\ UNCHANGED <<grip, calls, clock, passed>>
  BY DEF B!CleanUp
<1>2. /\ None \notin Nat /\ Burst \in Nat /\ clock \in Nat /\ cleanups \in Nat
      /\ limiters \in [Clients -> Nat \union {None}]
      /\ buckets \in Seq(B!Bucket) /\ quiet \in [Clients -> Nat]
  BY DEF B!LimiterAssumption, LimiterInv, B!TypeOK
<1>3. /\ DOMAIN buckets' = DOMAIN buckets
      /\ \A i \in DOMAIN buckets : buckets[i] \in B!Bucket
      /\ \A i \in DOMAIN buckets : buckets'[i] \in {buckets[i], B!Taken(buckets[i])}
      /\ buckets' = [i \in DOMAIN buckets |-> buckets'[i]]
  <2>1. PICK inMap : buckets' = [i \in DOMAIN buckets |->
                        IF i \in inMap THEN B!Taken(buckets[i]) ELSE buckets[i]]
    BY DEF B!CleanUp
  <2>2. QED
    BY <1>2, <2>1
<1>4. \A i \in DOMAIN buckets :
         /\ buckets'[i] \in B!Bucket /\ buckets'[i].client = buckets[i].client
         /\ buckets[i].tokens = 0 => buckets'[i].tokens = 0
  BY <1>3, TakenFacts
<1>5. buckets' \in Seq(B!Bucket)
  <2>1. PICK n \in Nat : DOMAIN buckets = 1..n
    BY <1>2
  <2>2. buckets' \in [1..n -> B!Bucket]
    BY <1>3, <1>4, <2>1
  <2>3. QED
    BY <2>1, <2>2
<1>6. \A c \in Clients :
         \/ limiters'[c] = None
         \/ /\ limiters'[c] = limiters[c] /\ limiters[c] \in DOMAIN buckets
            /\ buckets[limiters[c]].tokens = 0 /\ buckets'[limiters[c]].tokens = 0
            /\ buckets'[limiters[c]].client = c
  <2>1. ASSUME NEW c \in Clients, limiters[c] # None, ~ buckets[limiters[c]].tokens > 0
        PROVE  /\ limiters[c] \in DOMAIN buckets /\ buckets[limiters[c]].tokens = 0
               /\ buckets'[limiters[c]].tokens = 0 /\ buckets'[limiters[c]].client = c
    <3>1. limiters[c] \in DOMAIN buckets /\ buckets[limiters[c]].client = c
      BY <2>1 DEF LimiterInv, Owned
    <3>2. PICK b : b = buckets[limiters[c]]
      OBVIOUS
    <3>3. b \in B!Bucket /\ ~ b.tokens > 0
      BY <1>3, <2>1, <3>1, <3>2
    <3>4. b.tokens = 0
      BY <1>2, <3>3 DEF B!Bucket
    <3>5. QED
      BY <1>4, <3>1, <3>2, <3>4
  <2>2. QED
    BY <1>1, <2>1
<1>7. /\ limiters' \in [Clients -> Nat \union {None}] /\ quiet' \in [Clients -> Nat]
      /\ cleanups' \in Nat /\ cleaned' \in 0..clock'
  BY <1>1, <1>2
<1>8. B!TypeOK'
  BY <1>1, <1>5, <1>7 DEF LimiterInv, B!TypeOK
<1>9. Owned'
  BY <1>1, <1>3, <1>6 DEF LimiterInv, Owned
<1>10. ASSUME NEW d \in Clients PROVE Within(d)'
  <2>1. PICK x, y, z, m, n \in Nat :
           /\ x = Left(d) /\ y = Cardinality(Outdated(d)) /\ z = passed[d]
           /\ m = Allowance(clock, cleanups) /\ n = Cardinality(Requests)
           /\ z + x + y <= m
    BY Figures
  <2>2. z + x + y <= m
    BY <2>1
  <2>3. Allowance(clock, cleanups)' = m + Burst + n
    <3>1. Allowance(clock, cleanups)' = Allowance(clock, cleanups + 1)
      BY <1>1 DEF Allowance
    <3>2. QED
      BY <1>2, <2>1, <3>1, AllowanceFacts
  <2>4. PICK k \in Nat : k = Cardinality(Outdated(d)') /\ k <= n
    BY <2>1, OutdatedFacts
  <2>5. PICK w \in Nat : w = Left(d)' /\ w <= Burst
    <3>1. CASE limiters'[d] = None
      BY <1>2, <3>1 DEF Left
    <3>2. CASE limiters'[d] # None
      BY <1>2, <1>6, <3>2 DEF Left
    <3>3. QED
      BY <3>1, <3>2
  <2>6. z + w + k <= m + Burst + n
    <3>1. PICK b \in Nat : b = Burst
      BY <1>2
    <3>2. z <= m /\ w <= b /\ k <= n
      BY <2>2, <2>4, <2>5, <3>1
    <3>3. z + w + k <= m + b + n
      BY <3>2
    <3>4. QED
      BY <3>1, <3>3
  <2>7. passed'[d] = z
    BY <1>1, <2>1
  <2>8. QED
    BY <2>3, <2>4, <2>5, <2>6, <2>7 DEF Within
<1>11. Refilled'
  <2>1. ASSUME NEW c \in Clients, limiters'[c] # None
        PROVE  quiet'[c] = 1
    <3>1. limiters'[c] = limiters[c] /\ limiters[c] # None /\ buckets[limiters[c]].tokens = 0
      BY <1>6, <2>1
    <3>2. ~ quiet[c] >= 1
      BY <1>1, <3>1 DEF LimiterInv, Refilled
    <3>3. QED
      BY <1>1, <1>2, <3>2
  <2>2. ~ clock' > cleaned'
    BY <1>1, <1>2
  <2>3. QED
    BY <2>1, <2>2 DEF Refilled
<1>12. QED
  BY <1>8, <1>9, <1>10, <1>11 DEF LimiterInv

LEMMA LimiterKeeps == ASSUME B!LimiterAssumption, LimiterInv, [B!Next]_(B!vars) PROVE LimiterInv'
<1>1. ASSUME NEW r \in Requests, B!Middleware(r) \/ \E c \in Clients : B!GetLimiter(r, c)
      PROVE  LimiterInv'
  BY <1>1, AllowKeeps, GetKeeps
<1>2. CASE B!TimePasses \/ B!CleanUp
  BY <1>2, TimeKeeps, CleanUpKeeps
<1>3. CASE UNCHANGED B!vars
  <2>1. UNCHANGED <<limiters, buckets, grip, calls, clock, cleaned, cleanups, passed, quiet>>
    BY <1>3 DEF B!vars, B!histVars
  <2>2. \A c : Outdated(c)' = Outdated(c) /\ Left(c)' = Left(c)
    BY <2>1 DEF Outdated, Left
  <2>3. \A c \in Clients : Within(c)'
    BY <2>1, <2>2 DEF LimiterInv, Within, Allowance
  <2>4. B!TypeOK' /\ Owned' /\ Refilled'
    BY <2>1 DEF LimiterInv, B!TypeOK, Owned, Refilled
  <2>5. QED
    BY <2>3, <2>4 DEF LimiterInv
<1>4. QED
  BY <1>1, <1>2, <1>3 DEF B!Next

LEMMA LimiterTells == ASSUME B!LimiterAssumption, LimiterInv PROVE B!WithinBudget /\ B!Swept
<1>1. ASSUME NEW c \in Clients
      PROVE  passed[c] <= Burst + Rate * clock + (Burst + Cardinality(Requests)) * cleanups
  <2>1. PICK x, y, z, m, n \in Nat :
           /\ x = Left(c) /\ y = Cardinality(Outdated(c)) /\ z = passed[c]
           /\ m = Allowance(clock, cleanups) /\ n = Cardinality(Requests)
           /\ z + x + y <= m
    BY Figures
  <2>2. z + x + y <= m
    BY <2>1
  <2>3. z <= m
    BY <2>1, <2>2
  <2>4. Allowance(clock, cleanups)
           = Burst + Rate * clock + (Burst + Cardinality(Requests)) * cleanups
    BY Zenon DEF Allowance
  <2>5. passed[c] <= Allowance(clock, cleanups)
    BY <2>1, <2>3
  <2>6. QED
    BY <2>4, <2>5
<1>2. B!Swept
  <2>1. ASSUME NEW c \in Clients, quiet[c] >= 2, limiters[c] # None PROVE FALSE
    <3>1. quiet[c] \in Nat
      BY DEF LimiterInv, B!TypeOK
    <3>2. quiet[c] >= 1
      BY <2>1, <3>1
    <3>3. quiet[c] = 1
      BY <2>1, <3>2, Zenon DEF LimiterInv, Refilled
    <3>4. QED
      BY <2>1, <3>3
  <2>2. QED
    BY <2>1, Zenon DEF B!Swept
<1>3. QED
  BY <1>1, <1>2 DEF B!WithinBudget

(* RateLimiter: for any number of clients and requests, no client takes    *)
(* more than its budget, whatever bucket its requests hold while the map   *)
(* changes, and the buckets of silent clients are dropped                  *)
(* (middleware/ratelimit.go, getLimiter, Middleware and cleanupLoop).      *)
THEOREM LimiterHolds == B!LimiterAssumption => (B!Spec => [](B!WithinBudget /\ B!Swept))
<1> SUFFICES ASSUME B!LimiterAssumption PROVE B!Spec => [](B!WithinBudget /\ B!Swept)
  OBVIOUS
<1>1. B!Init => LimiterInv
  BY LimiterInitially
<1>2. LimiterInv /\ [B!Next]_(B!vars) => LimiterInv'
  BY LimiterKeeps
<1>3. LimiterInv => B!WithinBudget /\ B!Swept
  BY LimiterTells
<1>4. QED
  BY <1>1, <1>2, <1>3, PTL DEF B!Spec

-----------------------------------------------------------------------------
(* The channels an event has been told to.                                 *)
Told(d) == {dispatch[d].told[i].channel : i \in DOMAIN dispatch[d].told}

(* The parts of FairShare, event by event, and what they rest on: each call*)
(* takes its own limit at most, and nothing has been told before the list. *)
Timed(d) ==
    /\ dispatch[d].spent <= dispatch[d].listing + CallLimit * Len(dispatch[d].told)
    /\ \A i \in DOMAIN dispatch[d].told :
          i <= (Budget - dispatch[d].listing) \div CallLimit
             => dispatch[d].told[i].had = CallLimit
Complete(d) == \A i \in DOMAIN dispatch[d].told :
    dispatch[d].told[i].result = "cut short" => channel[dispatch[d].told[i].channel].complete
ToldOnce(d) ==
    /\ N!ToSet(dispatch[d].queue) \union Told(d) = dispatch[d].due
    /\ Len(dispatch[d].told) + Len(dispatch[d].queue) = Cardinality(dispatch[d].due)
    /\ dispatch[d].pc = "list" => dispatch[d].told = <<>>
Meant(d) == \A c \in dispatch[d].due :
    /\ channel[c].state # "none"
    /\ channel[c].project \in {None, dispatch[d].project}
    /\ dispatch[d].type \in channel[c].on

ShareAt(d) == Timed(d) /\ Complete(d) /\ ToldOnce(d) /\ Meant(d)
ShareInv == N!TypeOK /\ \A d \in Dispatches : ShareAt(d)

-----------------------------------------------------------------------------
LEMMA AllowedFacts ==
    ASSUME N!NotificationsAssumption, NEW s \in 0..Budget
    PROVE  /\ N!Allowed(s) \in 0..CallLimit /\ s + N!Allowed(s) \in 0..Budget
           /\ CallLimit <= Budget - s => N!Allowed(s) = CallLimit
<1>1. PICK l, r \in Nat : l = CallLimit /\ r = Budget - s
  BY DEF N!NotificationsAssumption
<1>2. PICK m : m \in {l, r} /\ m <= l /\ m <= r
  BY <1>1
<1>3. \A k \in {l, r} : (\A j \in {l, r} : k <= j) <=> k = m
  BY <1>2
<1>4. N!Min({l, r}) = m
  BY <1>2, <1>3 DEF N!Min
<1>5. QED
  BY <1>1, <1>2, <1>4 DEF N!Allowed, N!NotificationsAssumption

(* The first calls after the listing have their whole time.                *)
LEMMA WholeCalls ==
    ASSUME N!NotificationsAssumption, NEW n \in Nat, NEW s \in Nat, NEW t \in 0..Budget,
           s <= t + CallLimit * n, n + 1 <= (Budget - t) \div CallLimit
    PROVE  CallLimit <= Budget - s
<1>0. Budget \in Nat /\ CallLimit \in Nat /\ CallLimit > 0
  BY DEF N!NotificationsAssumption
<1>1. PICK l, b, q \in Nat : l = CallLimit /\ b = Budget - t /\ q = b \div l /\ l > 0
  <2>1. Budget - t \in Nat
    BY <1>0
  <2>2. (Budget - t) \div CallLimit \in Nat
    BY <1>0, <2>1
  <2>3. QED
    BY <1>0, <2>1, <2>2
<1>2. l * q <= b
  BY <1>1
<1>3. n + 1 <= q
  BY <1>1
<1>4. l * (n + 1) <= l * q
  BY <1>3
<1>5. l * (n + 1) = l * n + l
  OBVIOUS
<1>6. PICK p \in Nat : p = l * n
  OBVIOUS
<1>7. s <= t + p /\ p + l <= b
  BY <1>1, <1>2, <1>4, <1>5, <1>6
<1>8. QED
  BY <1>0, <1>1, <1>7

(* An order of a finite set has all of it.                                 *)
LEMMA OrderFacts ==
    ASSUME NEW S, IsFiniteSet(S), NEW order \in N!SetToSeqs(S)
    PROVE  /\ order \in Seq(S) /\ N!ToSet(order) = S /\ Len(order) = Cardinality(S)
<1>1. PICK n \in Nat : n = Cardinality(S)
  BY FS_CardinalityType
<1>2. order \in [1..n -> S] /\ \A i, j \in 1..n : i # j => order[i] # order[j]
  BY <1>1 DEF N!SetToSeqs
<1>3. order \in Injection(1..n, S)
  BY <1>2 DEF Injection, IsInjective
<1>4. Cardinality(1..n) = n
  BY FS_Interval
<1>5. order \in Surjection(1..n, S)
  BY <1>1, <1>3, <1>4, FS_Injection
<1>6. DOMAIN order = 1..n /\ \A x \in S : \E i \in 1..n : order[i] = x
  BY <1>2, <1>5 DEF Surjection
<1>7. order \in Seq(S) /\ Len(order) = n
  BY <1>2
<1>8. QED
  BY <1>1, <1>2, <1>6, <1>7 DEF N!ToSet

(* What is said of an event stays when no call is made for it.             *)
LEMMA SameShare ==
    ASSUME NEW d, ShareAt(d), channel' = channel,
           dispatch'[d].queue = dispatch[d].queue, dispatch'[d].told = dispatch[d].told,
           dispatch'[d].due = dispatch[d].due, dispatch'[d].spent = dispatch[d].spent,
           dispatch'[d].listing = dispatch[d].listing,
           dispatch'[d].type = dispatch[d].type, dispatch'[d].project = dispatch[d].project,
           dispatch'[d].pc = "list" => dispatch[d].pc = "list"
    PROVE  ShareAt(d)'
<1>1. Timed(d)'
  BY DEF ShareAt, Timed
<1>2. Complete(d)'
  BY DEF ShareAt, Complete
<1>3. Told(d)' = Told(d)
  BY DEF Told
<1>4. ToldOnce(d)'
  BY <1>3 DEF ShareAt, ToldOnce
<1>5. Meant(d)'
  BY DEF ShareAt, Meant
<1>6. QED
  BY <1>1, <1>2, <1>4, <1>5 DEF ShareAt

(* Only the goroutine of one event moves.                                  *)
LEMMA OneMoves ==
    ASSUME N!NotificationsAssumption, ShareInv, NEW d \in Dispatches, NEW new \in N!Telling,
           dispatch' = [dispatch EXCEPT ![d] = new], channel' = channel,
           events' \in 0..MaxEvents, troubles' \in 0..MaxTroubles,
           ShareAt(d)'
    PROVE  ShareInv'
<1>1. /\ dispatch' \in [Dispatches -> N!Telling]
      /\ \A e \in Dispatches : e # d => dispatch'[e] = dispatch[e]
  BY DEF ShareInv, N!TypeOK
<1>2. ASSUME NEW e \in Dispatches, e # d PROVE ShareAt(e)'
  <2>1. dispatch'[e] = dispatch[e] /\ ShareAt(e)
    BY <1>1, <1>2 DEF ShareInv
  <2>2. QED
    BY <2>1, SameShare
<1>3. N!TypeOK'
  BY <1>1 DEF ShareInv, N!TypeOK
<1>4. QED
  BY <1>2, <1>3 DEF ShareInv

(* An event of which nothing has been told.                                *)
Fresh(w) ==
    w.told = <<>> /\ w.queue = <<>> /\ w.due = {} /\ w.spent = 0 /\ w.listing = 0

LEMMA FreshShare ==
    ASSUME N!NotificationsAssumption, NEW d, Fresh(dispatch[d])
    PROVE  ShareAt(d)
<1>1. /\ Len(dispatch[d].told) = 0 /\ DOMAIN dispatch[d].told = {}
      /\ Len(dispatch[d].queue) = 0 /\ DOMAIN dispatch[d].queue = {}
  BY DEF Fresh
<1>2. Told(d) = {} /\ N!ToSet(dispatch[d].queue) = {} /\ Cardinality(dispatch[d].due) = 0
  BY <1>1, FS_EmptySet DEF Told, N!ToSet, Fresh
<1>3. dispatch[d].spent <= dispatch[d].listing + CallLimit * Len(dispatch[d].told)
  BY <1>1 DEF Fresh, N!NotificationsAssumption
<1>4. QED
  BY <1>1, <1>2, <1>3 DEF ShareAt, Timed, Complete, ToldOnce, Meant, Fresh

LEMMA FreshShareNext ==
    ASSUME N!NotificationsAssumption, NEW d, Fresh(dispatch'[d])
    PROVE  ShareAt(d)'
<1>1. /\ Len(dispatch'[d].told) = 0 /\ DOMAIN dispatch'[d].told = {}
      /\ Len(dispatch'[d].queue) = 0 /\ DOMAIN dispatch'[d].queue = {}
  BY DEF Fresh
<1>2. Told(d)' = {} /\ N!ToSet(dispatch'[d].queue) = {} /\ Cardinality(dispatch'[d].due) = 0
  BY <1>1, FS_EmptySet DEF Told, N!ToSet, Fresh
<1>3. dispatch'[d].spent <= dispatch'[d].listing + CallLimit * Len(dispatch'[d].told)
  BY <1>1 DEF Fresh, N!NotificationsAssumption
<1>4. QED
  BY <1>1, <1>2, <1>3 DEF ShareAt, Timed, Complete, ToldOnce, Meant, Fresh

LEMMA QuietFacts ==
    ASSUME N!NotificationsAssumption
    PROVE  /\ N!Quiet \in N!Telling /\ Fresh(N!Quiet)
           /\ \A type \in EventTypes, project \in N!Scopes :
                 LET new == [N!Quiet EXCEPT !.pc = "list", !.type = type, !.project = project]
                 IN  new \in N!Telling /\ Fresh(new)
<1>1. (CHOOSE type \in EventTypes : TRUE) \in EventTypes
  BY DEF N!NotificationsAssumption
<1>2. <<>> \in Seq(Channels) /\ <<>> \in Seq(N!Call) /\ 0 \in 0..Budget /\ None \in N!Scopes
  BY DEF N!NotificationsAssumption, N!Scopes
<1>3. N!Quiet \in N!Telling /\ Fresh(N!Quiet)
  BY <1>1, <1>2 DEF N!Quiet, N!Telling, Fresh
<1>4. ASSUME NEW type \in EventTypes, NEW project \in N!Scopes
      PROVE  LET new == [N!Quiet EXCEPT !.pc = "list", !.type = type, !.project = project]
             IN  new \in N!Telling /\ Fresh(new)
  BY <1>2 DEF N!Quiet, N!Telling, Fresh
<1>5. QED
  BY <1>3, <1>4

LEMMA ShareInitially == ASSUME N!NotificationsAssumption, N!Init PROVE ShareInv
<1>1. N!NoChannel \in N!Channel
  BY DEF N!NoChannel, N!Channel, N!Scopes
<1>2. N!TypeOK
  <2>1. 0 \in 0..MaxEvents /\ 0 \in 0..MaxTroubles
    BY DEF N!NotificationsAssumption
  <2>2. N!Quiet \in N!Telling
    BY QuietFacts
  <2>3. QED
    BY <1>1, <2>1, <2>2 DEF N!Init, N!TypeOK
<1>3. \A d \in Dispatches : dispatch[d] = N!Quiet
  BY DEF N!Init
<1>4. QED
  BY <1>2, <1>3, QuietFacts, FreshShare DEF ShareInv

(* Channels: what is in a row does not change, and who is due has a row.   *)
LEMMA ChannelsKeep ==
    ASSUME N!NotificationsAssumption, ShareInv, NEW c \in Channels,
           \/ N!Delete(c)
           \/ \E project \in N!Scopes, on \in SUBSET EventTypes, complete \in BOOLEAN :
                 N!Create(c, project, on, complete)
    PROVE  ShareInv'
<1>1. /\ UNCHANGED <<dispatch, events, troubles>>
      /\ channel' \in [Channels -> N!Channel]
      /\ \A b \in Channels : channel[b].state # "none" =>
            /\ channel'[b].state # "none" /\ channel'[b].project = channel[b].project
            /\ channel'[b].on = channel[b].on /\ channel'[b].complete = channel[b].complete
  <2>1. CASE N!Delete(c)
    <3>1. PICK new : new = [channel[c] EXCEPT !.state = "deleted"]
      OBVIOUS
    <3>2. channel' = [channel EXCEPT ![c] = new] /\ UNCHANGED <<dispatch, events, troubles>>
      BY <2>1, <3>1 DEF N!Delete
    <3>3. channel \in [Channels -> N!Channel] /\ channel[c] \in N!Channel
      BY DEF ShareInv, N!TypeOK
    <3>4. /\ new \in N!Channel /\ new.state = "deleted" /\ new.project = channel[c].project
          /\ new.on = channel[c].on /\ new.complete = channel[c].complete
      BY <3>1, <3>3 DEF N!Channel
    <3>5. /\ channel' \in [Channels -> N!Channel] /\ channel'[c] = new
          /\ \A b \in Channels : b # c => channel'[b] = channel[b]
      BY <3>2, <3>3, <3>4
    <3>6. QED
      BY <3>2, <3>4, <3>5
  <2>2. ASSUME NEW project \in N!Scopes, NEW on \in SUBSET EventTypes, NEW complete \in BOOLEAN,
               N!Create(c, project, on, complete)
        PROVE  /\ UNCHANGED <<dispatch, events, troubles>>
               /\ channel' \in [Channels -> N!Channel]
               /\ \A b \in Channels : channel[b].state # "none" =>
                     /\ channel'[b].state # "none" /\ channel'[b].project = channel[b].project
                     /\ channel'[b].on = channel[b].on
                     /\ channel'[b].complete = channel[b].complete
    <3>1. PICK new : new = [state |-> "enabled", project |-> project, on |-> on,
                            complete |-> complete]
      OBVIOUS
    <3>2. /\ channel' = [channel EXCEPT ![c] = new] /\ UNCHANGED <<dispatch, events, troubles>>
          /\ channel[c] = N!NoChannel /\ channel \in [Channels -> N!Channel]
      BY <2>2, <3>1 DEF N!Create, ShareInv, N!TypeOK
    <3>3. new \in N!Channel /\ channel[c].state = "none"
      BY <3>1, <3>2 DEF N!Channel, N!NoChannel
    <3>4. /\ channel' \in [Channels -> N!Channel]
          /\ \A b \in Channels : b # c => channel'[b] = channel[b]
      BY <3>2, <3>3
    <3>5. QED
      BY <3>2, <3>3, <3>4
  <2>3. QED
    BY <2>1, <2>2
<1>2. N!TypeOK'
  BY <1>1 DEF ShareInv, N!TypeOK
<1>3. ASSUME NEW d \in Dispatches PROVE ShareAt(d)'
  <2>1. dispatch[d] \in N!Telling /\ dispatch' = dispatch /\ ShareAt(d)
    BY <1>1 DEF ShareInv, N!TypeOK
  <2>2. Timed(d)' /\ ToldOnce(d)'
    BY <2>1 DEF ShareAt, Timed, ToldOnce, Told
  <2>3. dispatch[d].due \subseteq Channels /\ Told(d) \subseteq dispatch[d].due
    BY <2>1 DEF N!Telling, ShareAt, ToldOnce
  <2>4. Meant(d)'
    BY <1>1, <2>1, <2>3 DEF ShareAt, Meant
  <2>5. Complete(d)'
    <3>1. ASSUME NEW i \in DOMAIN dispatch[d].told, dispatch[d].told[i].result = "cut short"
          PROVE  channel'[dispatch[d].told[i].channel].complete
      <4>1. PICK b : b = dispatch[d].told[i].channel
        OBVIOUS
      <4>2. b \in dispatch[d].due
        BY <2>3, <4>1 DEF Told
      <4>3. b \in Channels /\ channel[b].state # "none"
        BY <2>1, <2>3, <4>2 DEF ShareAt, Meant
      <4>4. channel[b].complete
        BY <2>1, <3>1, <4>1 DEF ShareAt, Complete
      <4>5. channel'[b].complete = channel[b].complete
        BY <1>1, <4>3
      <4>6. QED
        BY <4>1, <4>4, <4>5
    <3>2. QED
      BY <2>1, <3>1 DEF Complete
  <2>6. QED
    BY <2>2, <2>4, <2>5 DEF ShareAt
<1>4. QED
  BY <1>2, <1>3 DEF ShareInv

LEMMA DispatchKeeps ==
    ASSUME N!NotificationsAssumption, ShareInv, NEW d \in Dispatches, NEW type \in EventTypes,
           NEW project \in N!Scopes, N!Dispatch(d, type, project)
    PROVE  ShareInv'
<1>1. PICK new : new = [N!Quiet EXCEPT !.pc = "list", !.type = type, !.project = project]
  OBVIOUS
<1>2. new \in N!Telling /\ Fresh(new)
  BY <1>1, QuietFacts
<1>3. dispatch' = [dispatch EXCEPT ![d] = new] /\ channel' = channel
  BY <1>1 DEF N!Dispatch
<1>4. dispatch'[d] = new
  BY <1>3 DEF ShareInv, N!TypeOK
<1>5. ShareAt(d)'
  BY <1>2, <1>4, FreshShareNext
<1>6. events' \in 0..MaxEvents /\ troubles' \in 0..MaxTroubles
  BY DEF N!Dispatch, ShareInv, N!TypeOK, N!NotificationsAssumption
<1>7. QED
  BY <1>2, <1>3, <1>5, <1>6, OneMoves

LEMMA CallTakes ==
    ASSUME NEW l \in Nat, NEW b \in Nat, NEW had \in 0..l, NEW s \in 0..b, s + had \in 0..b,
           NEW time \in 0..had
    PROVE  s + time \in 0..b /\ time <= l /\ time \in Nat
  OBVIOUS

LEMMA OneOver == \A n, k \in Nat : n + (k + 1) = (n + 1) + k
  OBVIOUS

(* What the two updates of a goroutine come to.                            *)
AfterList(w, rest, due, time) ==
    [[[[[w EXCEPT !.pc = "send"] EXCEPT !.queue = rest] EXCEPT !.due = due]
        EXCEPT !.spent = time] EXCEPT !.listing = time]
AfterSend(w, rest, spent, told) ==
    [[[w EXCEPT !.queue = rest] EXCEPT !.spent = spent] EXCEPT !.told = told]

LEMMA ListedRecord ==
    ASSUME NEW w \in N!Telling, NEW rest, NEW due, NEW time
    PROVE  AfterList(w, rest, due, time)
               = [pc |-> "send", type |-> w.type, project |-> w.project, queue |-> rest,
                  spent |-> time, told |-> w.told, due |-> due, listing |-> time]
<1>1. PICK x, y, z, u, v :
         /\ x = [w EXCEPT !.pc = "send"] /\ y = [x EXCEPT !.queue = rest]
         /\ z = [y EXCEPT !.due = due] /\ u = [z EXCEPT !.spent = time]
         /\ v = [u EXCEPT !.listing = time]
  OBVIOUS
<1>2. x = [pc |-> "send", type |-> w.type, project |-> w.project, queue |-> w.queue,
           spent |-> w.spent, told |-> w.told, due |-> w.due, listing |-> w.listing]
  BY <1>1 DEF N!Telling
<1>3. y = [pc |-> "send", type |-> w.type, project |-> w.project, queue |-> rest,
           spent |-> w.spent, told |-> w.told, due |-> w.due, listing |-> w.listing]
  BY <1>1, <1>2
<1>4. z = [pc |-> "send", type |-> w.type, project |-> w.project, queue |-> rest,
           spent |-> w.spent, told |-> w.told, due |-> due, listing |-> w.listing]
  BY <1>1, <1>3
<1>5. u = [pc |-> "send", type |-> w.type, project |-> w.project, queue |-> rest,
           spent |-> time, told |-> w.told, due |-> due, listing |-> w.listing]
  BY <1>1, <1>4
<1>6. v = [pc |-> "send", type |-> w.type, project |-> w.project, queue |-> rest,
           spent |-> time, told |-> w.told, due |-> due, listing |-> time]
  BY <1>1, <1>5
<1>7. QED
  BY <1>1, <1>6, Zenon DEF AfterList

LEMMA SentRecord ==
    ASSUME NEW w \in N!Telling, NEW rest, NEW spent, NEW told
    PROVE  AfterSend(w, rest, spent, told)
               = [pc |-> w.pc, type |-> w.type, project |-> w.project, queue |-> rest,
                  spent |-> spent, told |-> told, due |-> w.due, listing |-> w.listing]
<1>1. PICK x, y, z : /\ x = [w EXCEPT !.queue = rest] /\ y = [x EXCEPT !.spent = spent]
                     /\ z = [y EXCEPT !.told = told]
  OBVIOUS
<1>2. x = [pc |-> w.pc, type |-> w.type, project |-> w.project, queue |-> rest,
           spent |-> w.spent, told |-> w.told, due |-> w.due, listing |-> w.listing]
  BY <1>1 DEF N!Telling
<1>3. y = [pc |-> w.pc, type |-> w.type, project |-> w.project, queue |-> rest,
           spent |-> spent, told |-> w.told, due |-> w.due, listing |-> w.listing]
  BY <1>1, <1>2
<1>4. z = [pc |-> w.pc, type |-> w.type, project |-> w.project, queue |-> rest,
           spent |-> spent, told |-> told, due |-> w.due, listing |-> w.listing]
  BY <1>1, <1>3
<1>5. QED
  BY <1>1, <1>4, Zenon DEF AfterSend

LEMMA MishapsBounded ==
    ASSUME N!NotificationsAssumption, ShareInv, N!Works \/ N!Fails
    PROVE  troubles' \in 0..MaxTroubles
<1>1. troubles \in 0..MaxTroubles /\ MaxTroubles \in Nat
  BY DEF ShareInv, N!TypeOK, N!NotificationsAssumption
<1>2. QED
  BY <1>1 DEF N!Works, N!Fails

LEMMA ListKeeps ==
    ASSUME N!NotificationsAssumption, ShareInv, NEW d \in Dispatches, N!ListActiveForEvent(d)
    PROVE  ShareInv'
<1>1. /\ dispatch[d] \in N!Telling /\ dispatch[d].pc = "list" /\ channel' = channel
      /\ dispatch \in [Dispatches -> N!Telling]
      /\ events' \in 0..MaxEvents /\ troubles' \in 0..MaxTroubles /\ ShareAt(d)
  <2>1. dispatch \in [Dispatches -> N!Telling] /\ ShareAt(d) /\ events \in 0..MaxEvents
    BY DEF ShareInv, N!TypeOK
  <2>2. dispatch[d].pc = "list" /\ channel' = channel /\ events' = events
    BY DEF N!ListActiveForEvent
  <2>3. N!Works \/ N!Fails
    BY DEF N!ListActiveForEvent
  <2>4. QED
    BY <2>1, <2>2, <2>3, MishapsBounded
<1>2. PICK S : S = N!Active(dispatch[d].type, dispatch[d].project)
  OBVIOUS
<1>3. /\ S \subseteq Channels /\ IsFiniteSet(S)
      /\ \A c \in S : /\ channel[c].state # "none"
                      /\ channel[c].project \in {None, dispatch[d].project}
                      /\ dispatch[d].type \in channel[c].on
  <2>1. S \subseteq Channels
    BY <1>2 DEF N!Active
  <2>2. IsFiniteSet(S)
    BY <2>1, FS_Subset DEF N!NotificationsAssumption
  <2>3. QED
    BY <1>2, <2>1, <2>2 DEF N!Active
<1>4. ASSUME NEW L \in SUBSET S, NEW time \in 0..Budget, NEW order \in N!SetToSeqs(L),
             dispatch' = [dispatch EXCEPT ![d].pc = "send", ![d].queue = order,
                          ![d].due = L, ![d].spent = time, ![d].listing = time]
      PROVE  ShareInv'
  <2>0. L \subseteq Channels /\ IsFiniteSet(L)
    BY <1>3, FS_Subset
  <2>1. order \in Seq(L) /\ N!ToSet(order) = L /\ Len(order) = Cardinality(L)
    BY <2>0, OrderFacts
  <2>2. PICK new : new = [pc |-> "send", type |-> dispatch[d].type,
                          project |-> dispatch[d].project, queue |-> order,
                          spent |-> time, told |-> dispatch[d].told, due |-> L,
                          listing |-> time]
    OBVIOUS
  <2>3. order \in Seq(Channels)
    BY <2>0, <2>1
  <2>4. new \in N!Telling
    BY <1>1, <2>0, <2>2, <2>3 DEF N!Telling
  <2>5. dispatch' = [dispatch EXCEPT ![d] = new]
    <3>1. dispatch' = [dispatch EXCEPT ![d] = AfterList(dispatch[d], order, L, time)]
      BY <1>1, <1>4 DEF AfterList
    <3>2. AfterList(dispatch[d], order, L, time) = new
      BY <1>1, <2>2, ListedRecord
    <3>3. QED
      BY <3>1, <3>2
  <2>6. /\ dispatch'[d] = new /\ new.pc = "send" /\ new.type = dispatch[d].type
        /\ new.project = dispatch[d].project /\ new.queue = order
        /\ new.spent = time /\ new.told = dispatch[d].told /\ new.due = L
        /\ new.listing = time
    BY <1>1, <2>2, <2>5
  <2>11. dispatch[d].told = <<>>
    BY <1>1 DEF ShareAt, ToldOnce
  <2>7. Timed(d)' /\ Complete(d)'
    <3>1. Len(new.told) = 0 /\ DOMAIN new.told = {}
      BY <2>6, <2>11
    <3>2. time <= time + CallLimit * 0
      BY DEF N!NotificationsAssumption
    <3>3. QED
      BY <2>6, <3>1, <3>2 DEF Timed, Complete
  <2>8. Meant(d)'
    BY <1>1, <1>3, <2>6 DEF Meant
  <2>9. ToldOnce(d)'
    <3>2. Told(d)' = {} /\ Len(new.told) = 0
      BY <2>6, <2>11 DEF Told
    <3>3. Cardinality(L) \in Nat
      BY <2>0, FS_CardinalityType
    <3>4. QED
      BY <2>1, <2>6, <3>2, <3>3 DEF ToldOnce
  <2>10. QED
    BY <1>1, <2>4, <2>5, <2>7, <2>8, <2>9, OneMoves DEF ShareAt
<1>5. CASE dispatch' = [dispatch EXCEPT ![d].pc = "over"]
  <2>1. PICK new : new = [dispatch[d] EXCEPT !.pc = "over"]
    OBVIOUS
  <2>2. /\ new \in N!Telling /\ new.pc = "over" /\ new.type = dispatch[d].type
        /\ new.project = dispatch[d].project /\ new.queue = dispatch[d].queue
        /\ new.spent = dispatch[d].spent /\ new.told = dispatch[d].told
        /\ new.due = dispatch[d].due /\ new.listing = dispatch[d].listing
    BY <1>1, <2>1 DEF N!Telling
  <2>3. dispatch' = [dispatch EXCEPT ![d] = new] /\ dispatch'[d] = new
    BY <1>1, <1>5, <2>1
  <2>4. ShareAt(d)'
    BY <1>1, <2>2, <2>3, SameShare
  <2>5. QED
    BY <1>1, <2>2, <2>3, <2>4, OneMoves
<1>6. QED
  BY <1>2, <1>4, <1>5 DEF N!ListActiveForEvent

(* One call: its channel moves from the queue to those told.               *)
LEMMA SendKeeps ==
    ASSUME N!NotificationsAssumption, ShareInv, NEW d \in Dispatches, N!SendToChannel(d)
    PROVE  ShareInv'
<1>1. /\ dispatch[d] \in N!Telling /\ dispatch[d].pc = "send" /\ channel' = channel
      /\ dispatch[d].queue # <<>> /\ dispatch \in [Dispatches -> N!Telling]
      /\ events' \in 0..MaxEvents /\ troubles' \in 0..MaxTroubles /\ ShareAt(d)
  <2>1. dispatch \in [Dispatches -> N!Telling] /\ ShareAt(d) /\ events \in 0..MaxEvents
    BY DEF ShareInv, N!TypeOK
  <2>2. /\ dispatch[d].pc = "send" /\ dispatch[d].queue # <<>>
        /\ channel' = channel /\ events' = events
    BY DEF N!SendToChannel
  <2>3. N!Works \/ N!Fails
    BY DEF N!SendToChannel
  <2>4. QED
    BY <2>1, <2>2, <2>3, MishapsBounded
<1>2. PICK w, c, had : w = dispatch[d] /\ c = Head(w.queue) /\ had = N!Allowed(w.spent)
  OBVIOUS
<1>3. PICK outcome :
         /\ outcome \in N!Outcomes(c, w.spent)
         /\ dispatch' = [dispatch EXCEPT ![d].queue = Tail(@), ![d].spent = @ + outcome[2],
                     ![d].told = Append(@, [channel |-> c, result |-> outcome[1], had |-> had])]
  BY <1>2 DEF N!SendToChannel
<1>4. PICK result, time : result = outcome[1] /\ time = outcome[2]
  OBVIOUS
<1>5. PICK s, n \in Nat : s = w.spent /\ n = Len(w.told) /\ s \in 0..Budget
  BY <1>1, <1>2 DEF N!Telling, N!NotificationsAssumption
<1>6. /\ had \in 0..CallLimit /\ s + had \in 0..Budget /\ CallLimit \in Nat
      /\ CallLimit <= Budget - s => had = CallLimit
  BY <1>2, <1>5, AllowedFacts DEF N!NotificationsAssumption
<1>7. /\ result \in N!Results /\ time \in 0..had
      /\ result = "cut short" => channel[c].complete
  <2>1. 0 \in 0..had /\ had \in 0..had
    BY <1>6
  <2>2. CASE ~ channel[c].complete
    <3>1. outcome = <<"refused", 0>>
      BY <1>3, <2>2 DEF N!Outcomes
    <3>2. result = "refused" /\ time = 0
      BY <1>4, <3>1
    <3>3. QED
      BY <2>1, <3>2 DEF N!Results
  <2>3. CASE channel[c].complete
    <3>1. \/ \E r \in {"sent", "refused"}, t \in 0..had : outcome = <<r, t>>
          \/ outcome = <<"cut short", had>>
      <4>1. outcome \in ({"sent", "refused"} \X (0..had)) \union {<<"cut short", had>>}
        <5>1. N!Outcomes(c, w.spent) = ({"sent", "refused"} \X (0..N!Allowed(w.spent)))
                                          \union {<<"cut short", N!Allowed(w.spent)>>}
          BY <2>3 DEF N!Outcomes
        <5>2. QED
          BY <1>2, <1>3, <5>1, Zenon
      <4>2. CASE outcome \in {"sent", "refused"} \X (0..had)
        <5>1. /\ outcome[1] \in {"sent", "refused"} /\ outcome[2] \in 0..had
              /\ outcome = <<outcome[1], outcome[2]>>
          BY <4>2
        <5>2. QED
          BY <5>1, Zenon
      <4>3. CASE outcome \in {<<"cut short", had>>}
        BY <4>3, Zenon
      <4>4. QED
        BY <4>1, <4>2, <4>3, Zenon
    <3>2. ASSUME NEW r \in {"sent", "refused"}, NEW t \in 0..had, outcome = <<r, t>>
          PROVE  result \in {"sent", "refused"} /\ time \in 0..had
      BY <1>4, <3>2
    <3>3. ASSUME outcome = <<"cut short", had>>
          PROVE  result = "cut short" /\ time = had
      BY <1>4, <3>3
    <3>4. \/ result \in {"sent", "refused"} /\ time \in 0..had
          \/ result = "cut short" /\ time = had
      BY <3>1, <3>2, <3>3, Zenon
    <3>5. QED
      BY <2>1, <2>3, <3>4 DEF N!Results
  <2>4. QED
    BY <2>2, <2>3
<1>8. s + time \in 0..Budget /\ time <= CallLimit /\ time \in Nat
  <2>1. PICK l, b \in Nat : l = CallLimit /\ b = Budget
    BY DEF N!NotificationsAssumption
  <2>2. had \in 0..l /\ s \in 0..b /\ s + had \in 0..b /\ time \in 0..had
    BY <1>5, <1>6, <1>7, <2>1
  <2>3. s + time \in 0..b /\ time <= l /\ time \in Nat
    BY <2>2, CallTakes
  <2>4. QED
    BY <2>1, <2>3
<1>9. /\ w.queue \in Seq(Channels) /\ w.queue # <<>> /\ w.told \in Seq(N!Call)
  BY <1>1, <1>2 DEF N!Telling
<1>10. /\ c \in Channels /\ Tail(w.queue) \in Seq(Channels)
       /\ Len(Tail(w.queue)) + 1 = Len(w.queue)
       /\ N!ToSet(w.queue) = {c} \union N!ToSet(Tail(w.queue))
  <2>1. PICK q \in Seq(Channels) : q = w.queue /\ q # <<>>
    BY <1>9
  <2>2. /\ Len(q) \in Nat /\ Len(q) >= 1 /\ c = q[1] /\ Tail(q) \in Seq(Channels)
        /\ Len(Tail(q)) = Len(q) - 1
        /\ \A i \in 1..Len(q) - 1 : Tail(q)[i] = q[i + 1]
    BY <1>2, <2>1
  <2>3. DOMAIN q = 1..Len(q) /\ DOMAIN Tail(q) = 1..Len(q) - 1
    BY <2>2
  <2>4. \A i \in 1..Len(q) : i = 1 \/ (i - 1 \in 1..Len(q) - 1 /\ Tail(q)[i - 1] = q[i])
    BY <2>2
  <2>5. \A i \in 1..Len(q) - 1 : i + 1 \in 1..Len(q)
    BY <2>2
  <2>6. N!ToSet(q) = {c} \union N!ToSet(Tail(q))
    <3>1. ASSUME NEW x \in N!ToSet(q) PROVE x \in {c} \union N!ToSet(Tail(q))
      <4>1. PICK i \in 1..Len(q) : x = q[i]
        BY <2>3, <3>1 DEF N!ToSet
      <4>2. CASE i = 1
        BY <2>2, <4>1, <4>2
      <4>3. CASE i - 1 \in 1..Len(q) - 1 /\ Tail(q)[i - 1] = q[i]
        <5>1. i - 1 \in DOMAIN Tail(q) /\ x = Tail(q)[i - 1]
          BY <2>3, <4>1, <4>3
        <5>2. QED
          BY <5>1 DEF N!ToSet
      <4>4. QED
        BY <2>4, <4>1, <4>2, <4>3
    <3>2. ASSUME NEW x \in {c} \union N!ToSet(Tail(q)) PROVE x \in N!ToSet(q)
      <4>1. CASE x = c
        BY <2>2, <2>3, <4>1 DEF N!ToSet
      <4>2. CASE x \in N!ToSet(Tail(q))
        BY <2>2, <2>3, <2>5, <4>2 DEF N!ToSet
      <4>3. QED
        BY <3>2, <4>1, <4>2
    <3>3. QED
      BY <3>1, <3>2
  <2>7. QED
    BY <2>1, <2>2, <2>6
<1>11. PICK call : call = [channel |-> c, result |-> result, had |-> had]
  OBVIOUS
<1>12. call \in N!Call /\ call.channel = c /\ call.result = result /\ call.had = had
  BY <1>6, <1>7, <1>10, <1>11 DEF N!Call
<1>13. PICK told : told = Append(w.told, call)
  OBVIOUS
<1>14. /\ told \in Seq(N!Call) /\ Len(told) = n + 1 /\ DOMAIN told = 1..n + 1
       /\ DOMAIN w.told = 1..n /\ told[n + 1] = call
       /\ \A i \in 1..n : told[i] = w.told[i]
  BY <1>5, <1>9, <1>12, <1>13
<1>15. PICK new : new = [pc |-> "send", type |-> w.type, project |-> w.project,
                         queue |-> Tail(w.queue), spent |-> s + time, told |-> told,
                         due |-> w.due, listing |-> w.listing]
  OBVIOUS
<1>16. new \in N!Telling
  BY <1>1, <1>2, <1>8, <1>10, <1>14, <1>15 DEF N!Telling
<1>17. dispatch' = [dispatch EXCEPT ![d] = new]
  <2>1. PICK q, x : q = Tail(w.queue) /\ x = w.spent + time
    OBVIOUS
  <2>2. dispatch' = [dispatch EXCEPT ![d] = AfterSend(w, q, x, told)]
    BY <1>1, <1>2, <1>3, <1>4, <1>11, <1>13, <2>1 DEF AfterSend
  <2>3. AfterSend(w, q, x, told)
           = [pc |-> "send", type |-> w.type, project |-> w.project, queue |-> q,
              spent |-> x, told |-> told, due |-> w.due, listing |-> w.listing]
    BY <1>1, <1>2, SentRecord
  <2>4. new = AfterSend(w, q, x, told)
    BY <1>5, <1>15, <2>1, <2>3
  <2>5. QED
    BY <2>2, <2>4
<1>18. /\ dispatch'[d] = new /\ new.pc = "send" /\ new.type = w.type /\ new.project = w.project
       /\ new.queue = Tail(w.queue) /\ new.spent = s + time /\ new.told = told /\ new.due = w.due
       /\ new.listing = w.listing
  BY <1>1, <1>15, <1>17
<1>19. Timed(d)'
  <2>0. PICK t \in 0..Budget : t = w.listing
    BY <1>1, <1>2 DEF N!Telling
  <2>9. t \in Nat
    BY <2>0 DEF N!NotificationsAssumption
  <2>1. s <= t + CallLimit * n
    BY <1>1, <1>2, <1>5, <2>0 DEF ShareAt, Timed
  <2>2. s + time <= t + CallLimit * (n + 1)
    <3>1. CallLimit * (n + 1) = CallLimit * n + CallLimit /\ CallLimit * n \in Nat
      BY <1>6
    <3>2. QED
      BY <1>5, <1>6, <1>8, <2>1, <2>9, <3>1
  <2>3. n + 1 <= (Budget - t) \div CallLimit => had = CallLimit
    BY <1>5, <1>6, <2>1, WholeCalls
  <2>4. \A i \in 1..n : i <= (Budget - t) \div CallLimit => told[i].had = CallLimit
    BY <1>1, <1>2, <1>14, <2>0 DEF ShareAt, Timed
  <2>5. \A i \in 1..n + 1 : i \in 1..n \/ i = n + 1
    BY <1>5
  <2>6. \A i \in 1..n + 1 : i <= (Budget - t) \div CallLimit => told[i].had = CallLimit
    BY <1>12, <1>14, <2>3, <2>4, <2>5
  <2>7. QED
    BY <1>14, <1>18, <2>0, <2>2, <2>6 DEF Timed
<1>20. Complete(d)'
  <2>1. \A i \in 1..n + 1 : i \in 1..n \/ i = n + 1
    BY <1>5
  <2>2. \A i \in 1..n + 1 : told[i].result = "cut short" => channel[told[i].channel].complete
    BY <1>1, <1>2, <1>7, <1>12, <1>14, <2>1 DEF ShareAt, Complete
  <2>3. QED
    BY <1>1, <1>14, <1>18, <2>2 DEF Complete
<1>21. ToldOnce(d)'
  <2>1. Told(d)' = Told(d) \union {c}
    <3>1. \A i \in 1..n + 1 : i \in 1..n \/ i = n + 1
      BY <1>5
    <3>2. n + 1 \in 1..n + 1 /\ 1..n \subseteq 1..n + 1
      BY <1>5
    <3>3. Told(d)' = {told[i].channel : i \in 1..n + 1}
      BY <1>14, <1>18 DEF Told
    <3>4. Told(d) = {told[i].channel : i \in 1..n}
      BY <1>2, <1>14 DEF Told
    <3>5. {told[i].channel : i \in 1..n + 1} = {told[i].channel : i \in 1..n} \union {c}
      BY <1>12, <1>14, <3>1, <3>2
    <3>6. QED
      BY <3>3, <3>4, <3>5
  <2>2. N!ToSet(w.queue) \union Told(d) = w.due
    BY <1>1, <1>2 DEF ShareAt, ToldOnce
  <2>3. N!ToSet(new.queue) \union Told(d)' = w.due
    BY <1>10, <1>18, <2>1, <2>2
  <2>4. n + Len(w.queue) = Cardinality(w.due)
    BY <1>1, <1>2, <1>5 DEF ShareAt, ToldOnce
  <2>5. (n + 1) + Len(new.queue) = Cardinality(w.due)
    <3>1. PICK k \in Nat : k = Len(Tail(w.queue)) /\ Len(w.queue) = k + 1
      BY <1>10
    <3>2. QED
      BY <1>18, <2>4, <3>1, OneOver
  <2>6. QED
    BY <1>14, <1>18, <2>3, <2>5 DEF ToldOnce
<1>22. Meant(d)'
  BY <1>1, <1>2, <1>18 DEF ShareAt, Meant
<1>23. ShareAt(d)'
  BY <1>19, <1>20, <1>21, <1>22 DEF ShareAt
<1>24. QED
  BY <1>1, <1>16, <1>17, <1>23, OneMoves

LEMMA FinishKeeps ==
    ASSUME N!NotificationsAssumption, ShareInv, NEW d \in Dispatches, N!Finish(d)
    PROVE  ShareInv'
<1>1. /\ dispatch[d] \in N!Telling /\ channel' = channel
      /\ dispatch' = [dispatch EXCEPT ![d].pc = "over"] /\ dispatch \in [Dispatches -> N!Telling]
      /\ events' \in 0..MaxEvents /\ troubles' \in 0..MaxTroubles /\ ShareAt(d)
  BY DEF N!Finish, ShareInv, N!TypeOK
<1>2. PICK new : new = [dispatch[d] EXCEPT !.pc = "over"]
  OBVIOUS
<1>3. /\ new \in N!Telling /\ new.pc = "over" /\ new.type = dispatch[d].type
      /\ new.project = dispatch[d].project /\ new.queue = dispatch[d].queue
      /\ new.spent = dispatch[d].spent /\ new.told = dispatch[d].told
      /\ new.due = dispatch[d].due /\ new.listing = dispatch[d].listing
  BY <1>1, <1>2 DEF N!Telling
<1>4. dispatch' = [dispatch EXCEPT ![d] = new] /\ dispatch'[d] = new
  BY <1>1, <1>2
<1>5. ShareAt(d)'
  BY <1>1, <1>3, <1>4, SameShare
<1>6. QED
  BY <1>1, <1>3, <1>4, <1>5, OneMoves

LEMMA ShareKeeps == ASSUME N!NotificationsAssumption, ShareInv, [N!Next]_(N!vars) PROVE ShareInv'
<1>1. ASSUME NEW c \in Channels, NEW project \in N!Scopes, NEW on \in SUBSET EventTypes,
             NEW complete \in BOOLEAN, N!Create(c, project, on, complete)
      PROVE  ShareInv'
  BY <1>1, ChannelsKeep
<1>2. ASSUME NEW c \in Channels, N!Delete(c) PROVE ShareInv'
  BY <1>2, ChannelsKeep
<1>3. ASSUME NEW d \in Dispatches, NEW type \in EventTypes, NEW project \in N!Scopes,
             N!Dispatch(d, type, project)
      PROVE  ShareInv'
  BY <1>3, DispatchKeeps
<1>4. ASSUME NEW d \in Dispatches, N!ListActiveForEvent(d) \/ N!SendToChannel(d) \/ N!Finish(d)
      PROVE  ShareInv'
  BY <1>4, ListKeeps, SendKeeps, FinishKeeps
<1>5. CASE N!Crash
  <2>1. /\ dispatch' = [d \in Dispatches |-> N!Quiet] /\ UNCHANGED <<channel, events>>
        /\ troubles' \in 0..MaxTroubles
    BY <1>5 DEF N!Crash, N!Fails, ShareInv, N!TypeOK, N!NotificationsAssumption
  <2>2. N!TypeOK'
    BY <2>1, QuietFacts DEF ShareInv, N!TypeOK
  <2>3. \A d \in Dispatches : dispatch'[d] = N!Quiet
    BY <2>1
  <2>4. QED
    BY <2>2, <2>3, QuietFacts, FreshShareNext DEF ShareInv
<1>6. CASE UNCHANGED N!vars
  <2>1. UNCHANGED <<channel, dispatch, events, troubles>>
    BY <1>6 DEF N!vars
  <2>2. N!TypeOK'
    BY <2>1 DEF ShareInv, N!TypeOK
  <2>3. ASSUME NEW d \in Dispatches PROVE ShareAt(d)'
    BY <2>1, SameShare DEF ShareInv
  <2>4. QED
    BY <2>2, <2>3 DEF ShareInv
<1>7. QED
  BY <1>1, <1>2, <1>3, <1>4, <1>5, <1>6 DEF N!Next

LEMMA ShareTells == ASSUME ShareInv PROVE N!FairShare
  BY DEF ShareInv, ShareAt, Timed, Complete, ToldOnce, Meant, Told, N!FairShare

(* Notifications: for any number of channels, events and calls, in whatever*)
(* order they are listed, every channel is told once and slow ones cannot  *)
(* starve the first of an event (modules/notifications/notifier.go,        *)
(* Dispatch).                                                              *)
THEOREM ShareHolds == N!NotificationsAssumption => (N!Spec => []N!FairShare)
<1> SUFFICES ASSUME N!NotificationsAssumption PROVE N!Spec => []N!FairShare
  OBVIOUS
<1>1. N!Init => ShareInv
  BY ShareInitially
<1>2. ShareInv /\ [N!Next]_(N!vars) => ShareInv'
  BY ShareKeeps
<1>3. ShareInv => N!FairShare
  BY ShareTells
<1>4. QED
  BY <1>1, <1>2, <1>3, PTL DEF N!Spec

(* Notifications and RateLimiter: both get their fair share, each the      *)
(* channels of an event and the clients of the server                      *)
(* (modules/notifications/notifier.go, Dispatch; middleware/ratelimit.go). *)
THEOREM FairShareHolds == TrafficAssumption => (N!Spec /\ B!Spec => []FairShare)
<1> SUFFICES ASSUME TrafficAssumption PROVE N!Spec /\ B!Spec => []FairShare
  OBVIOUS
<1>1. N!Spec => []N!FairShare
  BY ShareHolds DEF TrafficAssumption
<1>2. B!Spec => [](B!WithinBudget /\ B!Swept)
  BY LimiterHolds DEF TrafficAssumption
<1>3. N!FairShare /\ B!WithinBudget /\ B!Swept => FairShare
  BY DEF FairShare
<1>4. QED
  BY <1>1, <1>2, <1>3, PTL
=============================================================================
