------------------------------- MODULE Access ------------------------------
(***************************************************************************)
(* Registration, login with lock-out and session cap, and logout.  Each    *)
(* request reads rows and then writes, statement by statement, and the     *)
(* requests of one user run side by side.  A lock runs out in a step of    *)
(* its own, at any time after it was written; an expired session stays in  *)
(* the table.                                                              *)
(***************************************************************************)
EXTENDS Naturals, FiniteSets

CONSTANTS
    Users,         \* e-mail addresses
    Requests,      \* requests served at the same time
    MaxFailed,     \* MaxFailedLogins: 5
    MaxSessions,   \* MaxConcurrentSessions: 3
    MaxRequests,   \* bound: requests in all
    MaxMishaps,    \* bound: failing statements and crashes
    None           \* no row

Locks == {"none", "locked", "over"}

AccessAssumption ==
    /\ IsFiniteSet(Requests) /\ Requests # {}
    /\ MaxFailed \in Nat /\ MaxFailed >= 2
    /\ MaxSessions \in Nat \ {0}
    /\ MaxRequests \in Nat /\ MaxMishaps \in Nat
    /\ None \notin [fails : Nat, lock : Locks]

VARIABLES
    user,       \* users: [fails, lock] or None
    sessions,   \* sessions: [id, user], id in the order of created_at, which
                \* is taken just before the insert
    issued,     \* sessions inserted so far
    req,        \* the requests in their handlers
    served,     \* requests so far
    mishaps,    \* mishaps so far
    uncounted,  \* history: registrations let in because the count failed
    unlocked,   \* history: users whose lock could not be written
    unevicted   \* history: evictions that failed, of each user

rowVars == <<user, sessions, issued>>
boundVars == <<served, mishaps>>
histVars == <<uncounted, unlocked, unevicted>>
vars == <<rowVars, req, boundVars, histVars>>

Idle == [pc |-> "none"]
Pcs == {"insert", "increment", "lock", "reset", "evict", "session"}
Request == {Idle} \union [pc : Pcs, user : Users, seen : Nat]
Session == [id : Nat, user : Users]
Registered == {u \in Users : user[u] # None}

Init ==
    /\ user = [u \in Users |-> None]
    /\ sessions = {} /\ issued = 0
    /\ req = [r \in Requests |-> Idle]
    /\ served = 0 /\ mishaps = 0
    /\ uncounted = 0 /\ unlocked = {} /\ unevicted = [u \in Users |-> 0]

Fails == mishaps < MaxMishaps /\ mishaps' = mishaps + 1
Works == UNCHANGED mishaps

Arrive(r, pc, u, seen) ==
    /\ req[r] = Idle /\ served < MaxRequests
    /\ served' = served + 1
    /\ req' = [req EXCEPT ![r] = [pc |-> pc, user |-> u, seen |-> seen]]

At(r, pc, u) == req[r].pc = pc /\ req[r].user = u
Goto(r, pc) == req' = [req EXCEPT ![r].pc = pc]
Return(r) == req' = [req EXCEPT ![r] = Idle]

----------------------------------------------------------------------------
(* Register: no user may exist when the request counts them; a count that  *)
(* fails lets it through.                                                  *)
RegisterGate(r, u) ==
    /\ Arrive(r, "insert", u, 0)
    /\ \/ Works /\ Registered = {} /\ UNCHANGED uncounted
       \/ Fails /\ uncounted' = uncounted + 1
    /\ UNCHANGED <<rowVars, unlocked, unevicted>>

(* The password has been hashed in the meantime; e-mails are unique.       *)
RegisterInsert(r, u) ==
    /\ At(r, "insert", u)
    /\ \/ /\ Works /\ user[u] = None
          /\ user' = [user EXCEPT ![u] = [fails |-> 0, lock |-> "none"]]
          /\ Goto(r, "session")
       \/ /\ (user[u] # None /\ Works) \/ Fails
          /\ Return(r) /\ UNCHANGED user
    /\ UNCHANGED <<sessions, issued, served, histVars>>

(* Login with a wrong password: the counter is incremented in the database *)
(* but compared as it was read.                                            *)
LoginWrong(r, u) ==
    /\ user[u] # None
    /\ Arrive(r, "increment", u, user[u].fails)
    /\ UNCHANGED <<rowVars, mishaps, histVars>>

(* Mutant: the lock comes one wrong password late.                         *)
LockingLate(seen) == seen >= MaxFailed

Locking(seen) == seen + 1 >= MaxFailed

(* Mutant: the counter counts down.                                        *)
DecrementFailedLogin(r, u) ==
    /\ At(r, "increment", u) /\ Works
    /\ user' = [user EXCEPT ![u].fails = @ - 1]
    /\ IF Locking(req[r].seen) THEN Goto(r, "lock") ELSE Return(r)
    /\ UNCHANGED <<sessions, issued, served, histVars>>

IncrementFailedLogin(r, u) ==
    /\ At(r, "increment", u)
    /\ \/ Works /\ user' = [user EXCEPT ![u].fails = @ + 1]
       \/ Fails /\ UNCHANGED user
    /\ IF Locking(req[r].seen) THEN Goto(r, "lock") ELSE Return(r)
    /\ UNCHANGED <<sessions, issued, served, histVars>>

LockUser(r, u) ==
    /\ At(r, "lock", u) /\ Return(r)
    /\ \/ Works /\ user' = [user EXCEPT ![u].lock = "locked"] /\ UNCHANGED unlocked
       \/ Fails /\ unlocked' = unlocked \union {u} /\ UNCHANGED user
    /\ UNCHANGED <<sessions, issued, served, uncounted, unevicted>>

LockExpires(u) ==
    /\ user[u] # None /\ user[u].lock = "locked"
    /\ user' = [user EXCEPT ![u].lock = "over"]
    /\ UNCHANGED <<sessions, issued, req, boundVars, histVars>>

(* With the right one: the lock is looked at only now, as it was read.     *)
LoginRight(r, u) ==
    /\ user[u] # None /\ user[u].lock # "locked"
    /\ Arrive(r, "reset", u, user[u].fails)
    /\ UNCHANGED <<rowVars, mishaps, histVars>>

ResetFailedLogin(r, u) ==
    /\ At(r, "reset", u) /\ Goto(r, "evict")
    /\ \/ /\ Works /\ user' = [user EXCEPT ![u] = [fails |-> 0, lock |-> "none"]]
          /\ unlocked' = unlocked \ {u}
       \/ Fails /\ UNCHANGED <<user, unlocked>>
    /\ UNCHANGED <<sessions, issued, served, uncounted, unevicted>>

SessionsOf(u) == {s \in sessions : s.user = u}

(* Mutant: the order of created_at is ascending.                           *)
Oldest(u, keep) ==
    {s \in SessionsOf(u) : Cardinality({t \in SessionsOf(u) : t.id < s.id}) < keep}

Newest(u, keep) ==
    {s \in SessionsOf(u) : Cardinality({t \in SessionsOf(u) : t.id > s.id}) < keep}

EvictOldestSessions(r, u) ==
    /\ At(r, "evict", u) /\ Goto(r, "session")
    /\ \/ /\ Works /\ UNCHANGED unevicted
          /\ sessions' = (sessions \ SessionsOf(u)) \union Newest(u, MaxSessions - 1)
       \/ Fails /\ unevicted' = [unevicted EXCEPT ![u] = @ + 1] /\ UNCHANGED sessions
    /\ UNCHANGED <<user, issued, served, uncounted, unlocked>>

CreateSession(r, u) ==
    /\ At(r, "session", u) /\ Return(r)
    /\ \/ /\ Works /\ issued' = issued + 1
          /\ sessions' = sessions \union {[id |-> issued + 1, user |-> u]}
       \/ Fails /\ UNCHANGED <<sessions, issued>>
    /\ UNCHANGED <<user, served, histVars>>

(* Logout finds the session by its token and deletes it by its id; a row   *)
(* that is not deleted leaves only the cookie cleared.                     *)
Logout(s) ==
    /\ s \in sessions /\ served < MaxRequests /\ served' = served + 1
    /\ \/ Works /\ sessions' = sessions \ {s}
       \/ Fails /\ UNCHANGED sessions
    /\ UNCHANGED <<user, issued, req, histVars>>

(* The process ends: the requests in their handlers are gone, and with     *)
(* them the locks they had not yet written.                                *)
LockPending(u) ==
    \E r \in Requests :
        \/ At(r, "lock", u)
        \/ At(r, "increment", u) /\ Locking(req[r].seen)

Crash ==
    /\ mishaps < MaxMishaps /\ mishaps' = mishaps + 1
    /\ req' = [r \in Requests |-> Idle]
    /\ unlocked' = unlocked \union {u \in Users : LockPending(u)}
    /\ UNCHANGED <<rowVars, served, uncounted, unevicted>>

Login(r, u) ==
    \/ LoginWrong(r, u) \/ IncrementFailedLogin(r, u) \/ LockUser(r, u)
    \/ LoginRight(r, u) \/ ResetFailedLogin(r, u)
    \/ EvictOldestSessions(r, u) \/ CreateSession(r, u)

Next ==
    \/ \E r \in Requests, u \in Users :
          RegisterGate(r, u) \/ RegisterInsert(r, u) \/ Login(r, u)
    \/ \E s \in sessions : Logout(s)
    \/ \E u \in Users : LockExpires(u)
    \/ Crash

Spec == Init /\ [][Next]_vars

----------------------------------------------------------------------------
(* The types of the variables.                                             *)
TypeOK ==
    /\ user \in [Users -> [fails : Nat, lock : Locks] \union {None}]
    /\ sessions \subseteq [id : Nat, user : Users]
    /\ issued \in Nat /\ \A s \in sessions : s.id <= issued
    /\ req \in [Requests -> Request]
    /\ served \in Nat /\ mishaps \in Nat
    /\ uncounted \in Nat /\ unlocked \subseteq Users
    /\ unevicted \in [Users -> Nat]

InHand(pc, u) == {r \in Requests : At(r, pc, u)}

(* A user never holds more sessions than the cap, one more for each        *)
(* further request that may be between its eviction and its insert, and    *)
(* one for each eviction that failed (modules/auth/handler.go, Login).     *)
SessionCap ==
    \A u \in Users :
        Cardinality(SessionsOf(u)) + Cardinality(InHand("session", u))
            <= MaxSessions - 1 + Cardinality(Requests) + unevicted[u]

(* Unless the lock could not be written, wrong passwords one after another *)
(* lock the account by the MaxFailed-th, give or take those in hand at the *)
(* same time: each compares the count it read before the increments of     *)
(* the others (modules/auth/handler.go, Login).                            *)
Harmless(u) == {r \in InHand("increment", u) : ~ Locking(req[r].seen)}

LockoutBound ==
    \A u \in Registered \ unlocked :
        user[u].lock = "none" /\ ~ LockPending(u) =>
            user[u].fails + Cardinality(Harmless(u))
                <= MaxFailed - 2 + Cardinality(Requests)

(* Registration is for the first user: more get in only as the requests    *)
(* that counted none at the same time, or when the count failed            *)
(* (modules/auth/handler.go, Register).                                    *)
Registering == {r \in Requests : req[r].pc = "insert"}
RegistrationBounded ==
    Cardinality(Registered) + Cardinality(Registering)
        <= Cardinality(Requests) + uncounted

(* The three together.                                                     *)
AccessBounded == SessionCap /\ LockoutBound /\ RegistrationBounded

(* A login throws out a session of its user only when as many newer ones   *)
(* stay as the cap leaves beside the one it is about to open.              *)
NewestSessionsKept ==
    [][served' = served =>
        \A s \in sessions \ sessions' :
            Cardinality({t \in SessionsOf(s.user)' : t.id > s.id})
                >= MaxSessions - 1]_vars
=============================================================================
