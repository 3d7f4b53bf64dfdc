----------------------------- MODULE ClientPool ----------------------------
(***************************************************************************)
(* The pool of Docker clients of remote servers: the row of each server,   *)
(* the tunnel the pool keeps for it, and the callers that ask for one, the *)
(* pipeline of a deployment and the Test button of the settings page.  A   *)
(* caller looks the server up under the read lock and, finding nothing,    *)
(* looks again, reads the row and dials under the write lock.              *)
(*                                                                         *)
(* Server identifiers are random and never used twice.  CloseAll has no    *)
(* caller, and so no action.                                               *)
(***************************************************************************)
EXTENDS Naturals, FiniteSets

CONSTANTS
    Servers,     \* remote servers
    Callers,     \* requests and jobs at the same time
    MaxCalls,    \* bound: calls of GetClient
    MaxTunnels,  \* bound: dials of each server that open a tunnel
    MaxMishaps,  \* bound: failing calls, dying tunnels and crashes
    None         \* no caller, no server

PoolAssumption ==
    /\ MaxCalls \in Nat /\ MaxTunnels \in Nat /\ MaxMishaps \in Nat
    /\ None \notin Callers \union Servers

VARIABLES
    server,    \* the row of each server: its status, or none or deleted
    pooled,    \* remoteClients: the tunnel of each server, or 0
    tunnels,   \* tunnels this process has dialed to each server
    alive,     \* those of its tunnels that still carry calls
    lock,      \* who holds the write lock
    caller,    \* callers in their steps
    calls,     \* calls so far
    mishaps    \* mishaps so far

poolVars == <<pooled, tunnels, alive, lock>>
vars == <<server, poolVars, caller, calls, mishaps>>

Tunnel == 1..MaxTunnels
Statuses == {"offline", "online", "error"}
Idle == [pc |-> "idle", kind |-> "deploy", server |-> None, client |-> 0, ok |-> TRUE]
Caller == [pc : {"idle", "row", "read", "wait", "again", "load", "dial", "use", "status"},
           kind : {"deploy", "test"}, server : Servers \union {None},
           client : 0..MaxTunnels, ok : BOOLEAN]

Init ==
    /\ server = [s \in Servers |-> "none"]
    /\ pooled = [s \in Servers |-> 0] /\ tunnels = [s \in Servers |-> 0]
    /\ alive = [s \in Servers |-> {}] /\ lock = None
    /\ caller = [c \in Callers |-> Idle]
    /\ calls = 0 /\ mishaps = 0

Fails == mishaps < MaxMishaps /\ mishaps' = mishaps + 1
Works == UNCHANGED mishaps
At(c, pc) == caller[c].pc = pc
Of(c) == caller[c].server

(* The ways on for a caller: another step, the client it was given, or an  *)
(* error, which ends a deployment and which a test writes into the row.    *)
Moves(c, pc) == caller' = [caller EXCEPT ![c].pc = pc]
Given(c, tunnel) == caller' = [caller EXCEPT ![c].pc = "use", ![c].client = tunnel]
Answer(c, ok) == caller' =
    [caller EXCEPT ![c] = IF @.kind = "test" THEN [@ EXCEPT !.pc = "status", !.ok = ok] ELSE Idle]

----------------------------------------------------------------------------
Create(s) ==
    /\ server[s] = "none" /\ server' = [server EXCEPT ![s] = "offline"]
    /\ UNCHANGED <<poolVars, caller, calls, mishaps>>

(* The row goes; the client in the pool and its users stay.                *)
Delete(s) ==
    /\ server[s] \in Statuses /\ server' = [server EXCEPT ![s] = "deleted"]
    /\ UNCHANGED <<poolVars, caller, calls, mishaps>>

(* A job carries the identifier of a server; a test reads the row first.   *)
Call(c, kind, s) ==
    /\ At(c, "idle") /\ calls < MaxCalls /\ calls' = calls + 1
    /\ server[s] # "none"
    /\ caller' = [caller EXCEPT ![c] =
          [pc |-> IF kind = "test" THEN "row" ELSE "read",
           kind |-> kind, server |-> s, client |-> 0, ok |-> TRUE]]
    /\ UNCHANGED <<server, poolVars, mishaps>>

Test(c) ==
    /\ At(c, "row")
    /\ \/ Works /\ server[Of(c)] \in Statuses /\ Moves(c, "read")
       \/ Works /\ server[Of(c)] = "deleted" /\ caller' = [caller EXCEPT ![c] = Idle]
       \/ Fails /\ caller' = [caller EXCEPT ![c] = Idle]
    /\ UNCHANGED <<server, poolVars, calls>>

(* RLock waits for a writer.                                               *)
ReadPool(c) ==
    /\ At(c, "read") /\ lock = None
    /\ IF pooled[Of(c)] # 0 THEN Given(c, pooled[Of(c)]) ELSE Moves(c, "wait")
    /\ UNCHANGED <<server, poolVars, calls, mishaps>>

Lock(c) ==
    /\ At(c, "wait") /\ lock = None /\ lock' = c /\ Moves(c, "again")
    /\ UNCHANGED <<server, pooled, tunnels, alive, calls, mishaps>>

(* Mutant: the pool is not looked up again.                                *)
SkipCheck(c) ==
    /\ At(c, "again") /\ Moves(c, "load")
    /\ UNCHANGED <<server, poolVars, calls, mishaps>>

DoubleCheck(c) ==
    /\ At(c, "again")
    /\ IF pooled[Of(c)] # 0 THEN Given(c, pooled[Of(c)]) /\ lock' = None
                            ELSE Moves(c, "load") /\ UNCHANGED lock
    /\ UNCHANGED <<server, pooled, tunnels, alive, calls, mishaps>>

(* serverProvider.GetByID: an error releases the lock.                     *)
LoadServer(c) ==
    /\ At(c, "load")
    /\ \/ Works /\ server[Of(c)] \in Statuses /\ Moves(c, "dial") /\ UNCHANGED lock
       \/ Works /\ server[Of(c)] = "deleted" /\ Answer(c, FALSE) /\ lock' = None
       \/ Fails /\ Answer(c, FALSE) /\ lock' = None
    /\ UNCHANGED <<server, pooled, tunnels, alive, calls>>

(* The key is read and parsed, the server dialed, and the tunnel pooled;   *)
(* a bad key or a refused connection is an error.                          *)
DialRemoteDocker(c) ==
    /\ At(c, "dial") /\ lock' = None
    /\ LET s == Of(c) IN
         \/ /\ Works /\ tunnels[s] < MaxTunnels
            /\ tunnels' = [tunnels EXCEPT ![s] = @ + 1]
            /\ pooled' = [pooled EXCEPT ![s] = tunnels[s] + 1]
            /\ alive' = [alive EXCEPT ![s] = @ \union {tunnels[s] + 1}]
            /\ Given(c, tunnels[s] + 1)
         \/ Fails /\ Answer(c, FALSE) /\ UNCHANGED <<pooled, tunnels, alive>>
    /\ UNCHANGED <<server, calls>>

(* The ping of a test, or the calls of a deployment.                       *)
Use(c) ==
    /\ At(c, "use")
    /\ \/ Works /\ Answer(c, caller[c].client \in alive[Of(c)])
       \/ Fails /\ Answer(c, FALSE)
    /\ UNCHANGED <<server, poolVars, calls>>

(* The error is ignored, and a deleted row stays deleted.                  *)
UpdateStatus(c) ==
    /\ At(c, "status") /\ caller' = [caller EXCEPT ![c] = Idle]
    /\ \/ Works /\ server' = [server EXCEPT ![Of(c)] =
             IF @ = "deleted" THEN @ ELSE IF caller[c].ok THEN "online" ELSE "error"]
       \/ Fails /\ UNCHANGED server
    /\ UNCHANGED <<poolVars, calls>>

(* The connection breaks; nobody takes it out of the pool.                 *)
TunnelDies(s) ==
    /\ Fails /\ \E t \in alive[s] : alive' = [alive EXCEPT ![s] = @ \ {t}]
    /\ UNCHANGED <<server, pooled, tunnels, lock, caller, calls>>

Crash ==
    /\ Fails
    /\ pooled' = [s \in Servers |-> 0] /\ tunnels' = [s \in Servers |-> 0]
    /\ alive' = [s \in Servers |-> {}] /\ lock' = None
    /\ caller' = [c \in Callers |-> Idle]
    /\ UNCHANGED <<server, calls>>

Step(c) ==
    \/ Test(c) \/ ReadPool(c) \/ Lock(c) \/ DoubleCheck(c) \/ LoadServer(c)
    \/ DialRemoteDocker(c) \/ Use(c) \/ UpdateStatus(c)

Next ==
    \/ \E s \in Servers : Create(s) \/ Delete(s) \/ TunnelDies(s)
    \/ \E c \in Callers, kind \in {"deploy", "test"}, s \in Servers : Call(c, kind, s)
    \/ \E c \in Callers : Step(c)
    \/ Crash

Spec == Init /\ [][Next]_vars

----------------------------------------------------------------------------
(* The types of the variables.                                             *)
TypeOK ==
    /\ server \in [Servers -> Statuses \union {"none", "deleted"}]
    /\ pooled \in [Servers -> 0..MaxTunnels] /\ tunnels \in [Servers -> 0..MaxTunnels]
    /\ alive \in [Servers -> SUBSET Tunnel] /\ lock \in Callers \union {None}
    /\ caller \in [Callers -> Caller]
    /\ calls \in 0..MaxCalls /\ mishaps \in 0..MaxMishaps

(* However many callers meet a server that is not in the pool yet, this    *)
(* process dials one tunnel to it, and every caller is given that one:     *)
(* none is opened that the pool forgets (docker.ClientPool.GetClient).     *)
OneTunnel ==
    /\ \A s \in Servers : tunnels[s] <= 1 /\ pooled[s] = tunnels[s]
    /\ \A c \in Callers : At(c, "use") => caller[c].client = pooled[Of(c)]
=============================================================================
