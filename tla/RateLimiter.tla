---------------------------- MODULE RateLimiter ----------------------------
(***************************************************************************)
(* The rate limiter of the HTTP server: a token bucket per client, kept in *)
(* a map under a lock.  A request finds or makes its client's bucket under *)
(* the lock and takes a token of it after the unlock; the clean-up that a  *)
(* ticker starts takes a token of every bucket and drops the buckets that  *)
(* had one, those of clients in the middle of a request included.          *)
(*                                                                         *)
(* A client is what X-Forwarded-For says or else the remote address, port  *)
(* included: without a proxy every connection is one.                      *)
(***************************************************************************)
EXTENDS Naturals, Sequences, FiniteSets

CONSTANTS
    Clients,
    Requests,     \* requests served at the same time
    Burst,        \* tokens of a full bucket: 100
    Rate,         \* tokens that come back in a unit of time: 100 in a second
    MaxCalls,     \* bound: requests
    MaxTicks,     \* bound: units of time
    None          \* no bucket

LimiterAssumption ==
    /\ IsFiniteSet(Requests) /\ Burst \in Nat \ {0} /\ Rate \in Nat \ {0}
    /\ MaxCalls \in Nat /\ MaxTicks \in Nat /\ None \notin Nat

VARIABLES
    limiters,   \* the map: the number of each client's bucket, or None
    buckets,    \* [client, tokens] of every bucket made
    held,       \* the bucket of each request between the unlock and Allow
    calls,      \* requests so far
    clock,      \* units of time so far
    cleaned,    \* the time of the last clean-up
    cleanups,   \* clean-ups so far
    served,     \* history: requests of each client that were let through
    quiet       \* history: clean-ups since the client last had a request

histVars == <<served, quiet>>
vars == <<limiters, buckets, held, calls, clock, cleaned, cleanups, histVars>>

Bucket == [client : Clients, tokens : 0..Burst]

Init ==
    /\ limiters = [c \in Clients |-> None] /\ buckets = <<>>
    /\ held = [r \in Requests |-> None]
    /\ calls = 0 /\ clock = 0 /\ cleaned = 0 /\ cleanups = 0
    /\ served = [c \in Clients |-> 0] /\ quiet = [c \in Clients |-> 0]

NewLimiter(c) == [client |-> c, tokens |-> Burst]

(* getLimiter looks the client up and makes its bucket under the lock.     *)
GetLimiter(r, c) ==
    /\ held[r] = None /\ calls < MaxCalls /\ calls' = calls + 1
    /\ \/ limiters[c] # None /\ UNCHANGED <<limiters, buckets>>
       \/ /\ limiters[c] = None
          /\ buckets' = Append(buckets, NewLimiter(c))
          /\ limiters' = [limiters EXCEPT ![c] = Len(buckets')]
    /\ held' = [held EXCEPT ![r] = limiters'[c]]
    /\ quiet' = [quiet EXCEPT ![c] = 0]
    /\ UNCHANGED <<clock, cleaned, cleanups, served>>

(* limiter.Allow: a token is taken, or there is none.                      *)
Taken(b) == [b EXCEPT !.tokens = IF @ > 0 THEN @ - 1 ELSE 0]

(* The request is served, or answered with 429.                            *)
Middleware(r) ==
    /\ held[r] # None /\ held' = [held EXCEPT ![r] = None]
    /\ LET b == buckets[held[r]] IN
         /\ buckets' = [buckets EXCEPT ![held[r]] = Taken(b)]
         /\ served' = [served EXCEPT ![b.client] = IF b.tokens > 0 THEN @ + 1 ELSE @]
         /\ quiet' = [quiet EXCEPT ![b.client] = 0]
    /\ UNCHANGED <<limiters, calls, clock, cleaned, cleanups>>

Filled(b) ==
    [b EXCEPT !.tokens = IF @ + Rate < Burst THEN @ + Rate ELSE Burst]

TimePasses ==
    /\ clock < MaxTicks /\ clock' = clock + 1
    /\ buckets' = [i \in DOMAIN buckets |-> Filled(buckets[i])]
    /\ UNCHANGED <<limiters, held, calls, cleaned, cleanups, histVars>>

(* Between two clean-ups, five minutes apart, at least one token comes.    *)
CleanUp ==
    /\ clock > cleaned /\ cleaned' = clock
    /\ cleanups' = cleanups + 1
    /\ LET inMap == {limiters[c] : c \in Clients} \ {None} IN
         /\ limiters' = [c \in Clients |->
                IF limiters[c] # None /\ buckets[limiters[c]].tokens > 0 THEN None
                                                                       ELSE limiters[c]]
         /\ buckets' = [i \in DOMAIN buckets |->
                IF i \in inMap THEN Taken(buckets[i]) ELSE buckets[i]]
    /\ quiet' = [c \in Clients |-> quiet[c] + 1]
    /\ UNCHANGED <<held, calls, clock, served>>

Next ==
    \/ \E r \in Requests : Middleware(r) \/ \E c \in Clients : GetLimiter(r, c)
    \/ TimePasses \/ CleanUp

Spec == Init /\ [][Next]_vars

----------------------------------------------------------------------------
(* The types of the variables.                                             *)
TypeOK ==
    /\ limiters \in [Clients -> Nat \union {None}]
    /\ buckets \in Seq(Bucket)
    /\ held \in [Requests -> Nat \union {None}]
    /\ calls \in 0..MaxCalls /\ clock \in 0..MaxTicks /\ cleaned \in 0..clock
    /\ cleanups \in Nat
    /\ served \in [Clients -> Nat] /\ quiet \in [Clients -> Nat]

(* A client is let through no more often than a bucket and the time allow, *)
(* plus for every clean-up one more bucket, since it forgets what the      *)
(* client has spent, and the requests in hand then, whose bucket goes on   *)
(* filling beside the new one (RateLimiter.Middleware, cleanupLoop).       *)
WithinBudget ==
    \A c \in Clients :
        served[c] <= Burst + Rate * clock + (Burst + Cardinality(Requests)) * cleanups

(* The map does not grow with the clients ever seen: the bucket of one that*)
(* has had no request for two clean-ups is gone (RateLimiter.cleanupLoop). *)
Swept == \A c \in Clients : quiet[c] >= 2 => limiters[c] = None
=============================================================================
