------------------------------ MODULE Webhooks -----------------------------
(***************************************************************************)
(* Pushes of a Git repository, the deliveries that announce them, and the  *)
(* deployments of one application they start.  The Git host may lose a     *)
(* delivery, send it again or out of order; several are served at the same *)
(* time.  A deployment builds what the branch has when the worker clones   *)
(* it, not the commit the delivery names; a rollback pulls the image of an *)
(* earlier one.  What the process has accepted it keeps in memory, and a   *)
(* crash or a stop loses it.                                               *)
(***************************************************************************)
EXTENDS Naturals, Sequences, FiniteSets

CONSTANTS
    Deployments,   \* deployment rows
    MaxCommits,    \* bound: pushes to the application's branch
    MaxStray,      \* bound: pushes to other branches, and rotations of the secret
    MaxMishaps,    \* bound: lost deliveries, refused and failed jobs, repetitions,
                   \* crashes
    None           \* no deployment

(* How far the job of a deployment is; "left" where its process ended.     *)
Statuses == {"queued", "active", "success", "failed", "left"}
Row == [source : {"repository", "image"}, status : Statuses,
        commit : 0..MaxCommits, built : 0..MaxCommits]

WebhooksAssumption ==
    /\ None \notin Deployments /\ None \notin Row
    /\ MaxCommits \in Nat /\ MaxStray \in Nat /\ MaxMishaps \in Nat

VARIABLES
    host,      \* what kind of Git host makes the deliveries
    head,      \* commits of the application's branch
    pending,   \* deliveries the Git host still has to make
    sent,      \* deliveries it has made, which may be repeated by hand
    secret,    \* rotations of webhook_secret
    shared,    \* the rotation the Git host signs with
    row,       \* deployments, or None: source, status, the commit their delivery named
               \* (0 where there is none), and the commit that they deploy
    offering,  \* handlers between the insert of their row and Enqueue
    queue,     \* accepted jobs, in the order of Enqueue
    running,   \* the commit the application runs, 0 if none
    stray,     \* pushes to other branches and rotations so far
    mishaps,   \* mishaps so far
    lost       \* history: commits whose delivery or deployment came to nothing, or
               \* whose container a later deployment took away

deliveryVars == <<host, head, pending, sent, secret, shared>>
deployVars == <<row, offering, queue, running>>
boundVars == <<stray, mishaps>>
vars == <<deliveryVars, deployVars, boundVars, lost>>

Kinds == {"github", "gitlab", "generic"}

(* What a delivery says: ref is the branch that was pushed to, or "none"   *)
(* where the payload names none, as a CI job's may.                        *)
Delivery == [ref : {"target", "other", "none"}, commit : 0..MaxCommits]

Init ==
    /\ host \in Kinds /\ head = 0 /\ pending = {} /\ sent = {} /\ secret = 0 /\ shared = 0
    /\ row = [d \in Deployments |-> None]
    /\ offering = {} /\ queue = <<>> /\ running = 0
    /\ stray = 0 /\ mishaps = 0 /\ lost = {}

Fails == mishaps < MaxMishaps /\ mishaps' = mishaps + 1
Works == UNCHANGED mishaps

----------------------------------------------------------------------------
(* The Git host.                                                           *)
Push ==
    /\ head < MaxCommits /\ head' = head + 1
    /\ pending' = pending \union
          {[ref |-> IF host = "generic" THEN "none" ELSE "target", commit |-> head + 1]}
    /\ UNCHANGED <<host, sent, secret, shared, deployVars, boundVars, lost>>

PushElsewhere ==
    /\ stray < MaxStray /\ stray' = stray + 1
    /\ pending' = pending \union {[ref |-> "other", commit |-> 0]}
    /\ UNCHANGED <<host, head, sent, secret, shared, deployVars, mishaps, lost>>

Redeliver(d) ==
    /\ d \in sent /\ Fails
    /\ pending' = pending \union {d}
    /\ UNCHANGED <<host, head, sent, secret, shared, deployVars, stray, lost>>

(* Commit 0 stands for a push to another branch.                           *)
Lose(d) ==
    /\ d \in pending /\ Fails
    /\ pending' = pending \ {d} /\ sent' = sent \union {d}
    /\ lost' = lost \union {d.commit}
    /\ UNCHANGED <<host, head, secret, shared, deployVars, stray>>

(* The secret is rotated in the application; its owner then gives it to    *)
(* the Git host.                                                           *)
RegenerateWebhookSecret ==
    /\ stray < MaxStray /\ stray' = stray + 1
    /\ secret' = secret + 1
    /\ UNCHANGED <<host, head, pending, sent, shared, deployVars, mishaps, lost>>

ShareSecret ==
    /\ shared # secret /\ shared' = secret
    /\ UNCHANGED <<host, head, pending, sent, secret, deployVars, boundVars, lost>>

----------------------------------------------------------------------------
(* The handlers: signature, then branch, then the deployment.              *)
SignatureValid == shared = secret

Handled(d) == pending' = pending \ {d} /\ sent' = sent \union {d}

HandleGitHub(d) == host = "github" /\ d.ref \in {"target", "none"}
HandleGitLab(d) == host = "gitlab" /\ d.ref \in {"target", "none"}
HandleGeneric(d) == host = "generic" /\ d.ref \in {"target", "none"}

Relevant(d) == HandleGitHub(d) \/ HandleGitLab(d) \/ HandleGeneric(d)

Refuse(d) ==
    /\ d \in pending /\ ~ SignatureValid /\ Handled(d)
    /\ lost' = lost \union {d.commit}
    /\ UNCHANGED <<host, head, secret, shared, deployVars, boundVars>>

Ignore(d) ==
    /\ d \in pending /\ SignatureValid /\ ~ Relevant(d) /\ Handled(d)
    /\ UNCHANGED <<host, head, secret, shared, deployVars, boundVars, lost>>

Insert(x, source, commit, built) ==
    /\ row[x] = None
    /\ row' = [row EXCEPT ![x] = [source |-> source, status |-> "queued",
                                  commit |-> commit, built |-> built]]

NewRow(x, commit) == Insert(x, "repository", commit, 0)

(* Mutant: a delivery is taken for a repetition while a deployment is under*)
(* way.                                                                    *)
DispatchOnce(d, x) ==
    /\ d \in pending /\ SignatureValid /\ Relevant(d) /\ Handled(d) /\ Works
    /\ IF \E y \in Deployments : row[y] # None /\ row[y].status \in {"queued", "active"}
         THEN UNCHANGED <<row, offering>>
         ELSE NewRow(x, d.commit) /\ offering' = offering \union {x}
    /\ UNCHANGED <<host, head, secret, shared, queue, running, stray, lost>>

(* The insert of the row may fail; the Git host sees the error.            *)
DispatchDeployment(d, x) ==
    /\ d \in pending /\ SignatureValid /\ Relevant(d) /\ Handled(d)
    /\ \/ Works /\ NewRow(x, d.commit) /\ offering' = offering \union {x} /\ UNCHANGED lost
       \/ Fails /\ lost' = lost \union {d.commit} /\ UNCHANGED <<row, offering>>
    /\ UNCHANGED <<host, head, secret, shared, queue, running, stray>>

(* The API's Deploy: no commit, the same way to the worker.                *)
DeployByAPI(x) ==
    /\ NewRow(x, 0) /\ offering' = offering \union {x}
    /\ UNCHANGED <<deliveryVars, queue, running, boundVars, lost>>

(* The image of a deployment that succeeded.  One without an image is      *)
(* deployed anew, as by DeployByAPI.                                       *)
Rollback(x, y) ==
    /\ row[y] # None /\ row[y].status = "success"
    /\ Insert(x, "image", 0, row[y].built) /\ offering' = offering \union {x}
    /\ UNCHANGED <<deliveryVars, queue, running, boundVars, lost>>

(* Enqueue, whose error is dropped.                                        *)
Offer(x) ==
    /\ x \in offering /\ offering' = offering \ {x}
    /\ \/ Works /\ queue' = Append(queue, x) /\ UNCHANGED lost
       \/ Fails /\ lost' = lost \union {row[x].commit} /\ UNCHANGED queue
    /\ UNCHANGED <<deliveryVars, row, running, stray>>

----------------------------------------------------------------------------
(* The worker: one job at a time.                                          *)
Active(x) == row[x] # None /\ row[x].status = "active"

Taken(built) ==
    /\ queue # <<>> /\ \A x \in Deployments : ~ Active(x)
    /\ queue' = Tail(queue)
    /\ row' = [row EXCEPT ![Head(queue)] = [@ EXCEPT !.status = "active", !.built = built]]
    /\ UNCHANGED <<deliveryVars, offering, running, boundVars, lost>>

(* The clone fetches the branch as it is now.                              *)
CloneGitRepo == queue # <<>> /\ row[Head(queue)].source = "repository" /\ Taken(head)

PullImage ==
    queue # <<>> /\ row[Head(queue)].source = "image" /\ Taken(row[Head(queue)].built)

(* What the end of a deployment may have done to the container that runs:  *)
(* its own is in the place of that one; that one stays; or it is gone, with*)
(* cleanupFailedContainer, and nothing runs.                               *)
Replaces(x) == [runs |-> row[x].built, lost |-> (row[x].built + 1)..running]
Stays(x) == [runs |-> running, lost |-> 1..row[x].built]
Removes(x) == [runs |-> 0, lost |-> 1..row[x].built \union 1..running]

Succeed(x) ==
    /\ Active(x)
    /\ row' = [row EXCEPT ![x].status = "success"]
    /\ running' = Replaces(x).runs /\ lost' = lost \union Replaces(x).lost
    /\ UNCHANGED <<deliveryVars, offering, queue, boundVars>>

Fail(x) ==
    /\ Active(x) /\ Fails
    /\ row' = [row EXCEPT ![x].status = "failed"]
    /\ \E end \in {Stays(x), Removes(x)} :
          running' = end.runs /\ lost' = lost \union end.lost
    /\ UNCHANGED <<deliveryVars, offering, queue, stray>>

(* The process ends: handlers before Enqueue, the queue and the build are  *)
(* gone.  Their rows stay as they are, and nothing takes them up again.    *)
Accepted == offering \union {queue[i] : i \in DOMAIN queue}

Crash ==
    /\ Fails /\ queue' = <<>> /\ offering' = {}
    /\ row' = [x \in Deployments |-> IF Active(x) THEN [row[x] EXCEPT !.status = "left"]
                                                  ELSE row[x]]
    /\ LET dropped == lost \union {row[x].commit : x \in Accepted}
       IN  \/ /\ \A x \in Deployments : ~ Active(x)
              /\ UNCHANGED running /\ lost' = dropped
           \/ \E x \in Deployments : Active(x) /\
                 \E end \in {Replaces(x), Stays(x), Removes(x)} :
                    running' = end.runs /\ lost' = dropped \union end.lost
    /\ UNCHANGED <<deliveryVars, stray>>

Next ==
    \/ Push \/ PushElsewhere
    \/ \E d \in Delivery : Redeliver(d) \/ Lose(d) \/ Refuse(d) \/ Ignore(d)
    \/ RegenerateWebhookSecret \/ ShareSecret
    \/ \E d \in Delivery, x \in Deployments : DispatchDeployment(d, x)
    \/ \E x \in Deployments : DeployByAPI(x) \/ Offer(x) \/ Succeed(x) \/ Fail(x)
    \/ \E x, y \in Deployments : Rollback(x, y)
    \/ CloneGitRepo \/ PullImage \/ Crash

Spec == Init /\ [][Next]_vars

----------------------------------------------------------------------------
(* The types of the variables.                                             *)
TypeOK ==
    /\ host \in Kinds /\ head \in 0..MaxCommits /\ running \in 0..MaxCommits
    /\ pending \subseteq Delivery /\ sent \subseteq Delivery
    /\ secret \in Nat /\ shared \in Nat /\ stray \in Nat /\ mishaps \in Nat
    /\ row \in [Deployments -> Row \union {None}]
    /\ offering \subseteq Deployments /\ queue \in Seq(Deployments)
    /\ lost \subseteq 0..MaxCommits

Quiet ==
    /\ pending = {} /\ offering = {} /\ queue = <<>>
    /\ \A x \in Deployments : ~ Active(x)

(* However deliveries are repeated and reordered, and whatever deployments *)
(* and rollbacks they find under way: once all is quiet the application    *)
(* runs the last commit, unless that commit's own delivery, job or build   *)
(* came to nothing, a crash lost it, or a rollback or a failing deployment *)
(* took its container away (modules/applications/webhooks.go;              *)
(* modules/deployments/handler.go; worker and pipeline).                   *)
CaughtUp == Quiet => running = head \/ head \in lost
=============================================================================
