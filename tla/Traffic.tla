------------------------------- MODULE Traffic -----------------------------
(***************************************************************************)
(* Three more components next to those of Console, which share no state    *)
(* either: the pushes that become deployments, the channels that are told  *)
(* of their ends, and the budget of requests each client has.              *)
(***************************************************************************)
EXTENDS Console

CONSTANTS
    Deployments, MaxCommits, MaxStray, MaxLosses,
    Projects, Channels, EventTypes, Dispatches, Budget, CallLimit, MaxEvents, MaxTroubles,
    Clients, Burst, Rate, MaxCalls, MaxTicks

VARIABLES
    host, head, pending, sent, secret, shared, row, offering, queue, running, stray, losses, lost,
    channel, dispatch, events, troubles,
    limiters, buckets, grip, calls, clock, cleaned, cleanups, passed, quiet

H == INSTANCE Webhooks WITH MaxMishaps <- MaxLosses, mishaps <- losses
N == INSTANCE Notifications WITH MaxMishaps <- MaxTroubles, mishaps <- troubles
B == INSTANCE RateLimiter WITH held <- grip, served <- passed

TrafficAssumption ==
    /\ ConsoleAssumption
    /\ H!WebhooksAssumption /\ N!NotificationsAssumption /\ B!LimiterAssumption

hookVars == <<host, head, pending, sent, secret, shared, row, offering, queue, running,
              stray, losses, lost>>
channelVars == <<channel, dispatch, events, troubles>>
limiterVars == <<limiters, buckets, grip, calls, clock, cleaned, cleanups, passed, quiet>>
----------------------------------------------------------------------------
(* Webhooks: once all is quiet the application runs the last commit, unless*)
(* its delivery, job or build came to nothing                              *)
(* (modules/applications/webhooks.go, dispatchDeployment).                 *)
CaughtUp == H!CaughtUp

(* Notifications: every channel is told once, and slow ones cannot starve  *)
(* the first two of an event (modules/notifications/notifier.go, Dispatch).*)
(* RateLimiter: no client takes more than its budget, and the buckets of   *)
(* silent clients are dropped (middleware/ratelimit.go, cleanupLoop).      *)
FairShare == N!FairShare /\ B!WithinBudget /\ B!Swept
=============================================================================
