--------------------------- MODULE Notifications ---------------------------
(***************************************************************************)
(* Notification channels and the goroutines that tell them of deployments  *)
(* and backups.  Dispatch starts a goroutine that lists the channels of an *)
(* event, in whatever order the query gives them, and sends to one after   *)
(* the other: each call has its own limit, and all of them share one with  *)
(* the listing, which has none of its own: the query takes no context.     *)
(*                                                                         *)
(* Time is counted in units of the size the limits are given in; a call    *)
(* takes any number of them up to its limit, the listing any number up to  *)
(* all there is (more makes no difference).                                *)
(***************************************************************************)
EXTENDS Naturals, Sequences, FiniteSets, SequencesExt

CONSTANTS
    Channels,
    Projects,
    EventTypes,  \* the event columns: deploy and backup, success and failure
    Dispatches,  \* events told at the same time
    Budget,      \* what one event has in all: 20 s
    CallLimit,   \* what one call may take: 10 s
    MaxEvents,   \* bound: events
    MaxMishaps,  \* bound: failing calls and crashes
    None         \* no project: a global channel, or an event of none

NotificationsAssumption ==
    /\ IsFiniteSet(Channels)
    /\ Budget \in Nat /\ CallLimit \in Nat \ {0} /\ CallLimit <= Budget
    /\ MaxEvents \in Nat /\ MaxMishaps \in Nat
    /\ None \notin Projects /\ EventTypes # {}

VARIABLES
    channel,   \* notification_channels
    dispatch,  \* the goroutines
    events,    \* events so far
    mishaps    \* mishaps so far

vars == <<channel, dispatch, events, mishaps>>

Scopes == Projects \union {None}

(* complete: the URL, or the token and the chat, were filled in.           *)
Channel == [state : {"none", "enabled", "deleted"}, project : Scopes,
            on : SUBSET EventTypes, complete : BOOLEAN]
NoChannel == [state |-> "none", project |-> None, on |-> {}, complete |-> FALSE]

(* queue: the channels still to be told; spent: time used; told: what came *)
(* of each call.  History: due, the channels the list gave, and listing,   *)
(* the time it took.                                                       *)
Results == {"sent", "refused", "cut short"}
Call == [channel : Channels, result : Results, had : 0..CallLimit]
Telling == [pc : {"none", "list", "send", "over"}, type : EventTypes, project : Scopes,
            queue : Seq(Channels), spent : 0..Budget, told : Seq(Call), due : SUBSET Channels,
            listing : 0..Budget]
Quiet == [pc |-> "none", type |-> CHOOSE type \in EventTypes : TRUE, project |-> None, queue |-> <<>>,
          spent |-> 0, told |-> <<>>, due |-> {}, listing |-> 0]

Init ==
    /\ channel = [c \in Channels |-> NoChannel]
    /\ dispatch = [d \in Dispatches |-> Quiet]
    /\ events = 0 /\ mishaps = 0

Fails == mishaps < MaxMishaps /\ mishaps' = mishaps + 1
Works == UNCHANGED mishaps

----------------------------------------------------------------------------
(* Nothing of the form is validated but what the row's columns demand.     *)
Create(c, project, on, complete) ==
    /\ channel[c] = NoChannel
    /\ channel' = [channel EXCEPT ![c] =
          [state |-> "enabled", project |-> project, on |-> on, complete |-> complete]]
    /\ UNCHANGED <<dispatch, events, mishaps>>

Delete(c) ==
    /\ channel[c].state = "enabled"
    /\ channel' = [channel EXCEPT ![c].state = "deleted"]
    /\ UNCHANGED <<dispatch, events, mishaps>>

Dispatch(d, type, project) ==
    /\ dispatch[d].pc \in {"none", "over"} /\ events < MaxEvents /\ events' = events + 1
    /\ dispatch' = [dispatch EXCEPT ![d] =
          [Quiet EXCEPT !.pc = "list", !.type = type, !.project = project]]
    /\ UNCHANGED <<channel, mishaps>>

(* The WHERE clause: an event of no project is told to global channels.    *)
Active(type, project) ==
    {c \in Channels :
        /\ channel[c].state = "enabled" /\ type \in channel[c].on
        /\ channel[c].project \in {None, project}}

(* A failure while the rows are read is not looked for: those read so far  *)
(* are taken for all of them.  One of the query itself ends the goroutine. *)
ListActiveForEvent(d) ==
    /\ dispatch[d].pc = "list"
    /\ LET meant == Active(dispatch[d].type, dispatch[d].project) IN
         \/ \E listed \in SUBSET meant, time \in 0..Budget :
              /\ IF listed = meant THEN Works ELSE Fails
              /\ \E order \in SetToSeqs(listed) :
                    dispatch' = [dispatch EXCEPT ![d].pc = "send", ![d].queue = order,
                                 ![d].due = listed, ![d].spent = time, ![d].listing = time]
         \/ Fails /\ dispatch' = [dispatch EXCEPT ![d].pc = "over"]
    /\ UNCHANGED <<channel, events>>

(* Mutant: only the context limits a call.                                 *)
OnlyContext(spent) == Budget - spent

(* What a call may take: the client's own timeout and the event's context. *)
Allowed(spent) == Min({CallLimit, Budget - spent})

(* A call that an incomplete channel spares takes no time; the others end  *)
(* within what they may take, well or badly, or are cut short by it.       *)
Outcomes(c, spent) ==
    IF ~channel[c].complete THEN {<<"refused", 0>>}
    ELSE ({"sent", "refused"} \X (0..Allowed(spent))) \union {<<"cut short", Allowed(spent)>>}

SendToChannel(d) ==
    /\ dispatch[d].pc = "send" /\ dispatch[d].queue # <<>>
    /\ LET c == Head(dispatch[d].queue)
            had == Allowed(dispatch[d].spent)
       IN \E outcome \in Outcomes(c, dispatch[d].spent) :
            /\ had = 0 /\ channel[c].complete => outcome[1] = "cut short"
            /\ IF outcome[1] = "sent" \/ had = 0 \/ ~channel[c].complete THEN Works ELSE Fails
            /\ dispatch' = [dispatch EXCEPT ![d].queue = Tail(@), ![d].spent = @ + outcome[2],
                  ![d].told = Append(@, [channel |-> c, result |-> outcome[1], had |-> had])]
    /\ UNCHANGED <<channel, events>>

Finish(d) ==
    /\ dispatch[d].pc = "send" /\ dispatch[d].queue = <<>>
    /\ dispatch' = [dispatch EXCEPT ![d].pc = "over"]
    /\ UNCHANGED <<channel, events, mishaps>>

(* Nobody waits for the goroutines when the process ends.                  *)
Crash ==
    /\ Fails /\ \E d \in Dispatches : dispatch[d].pc \in {"list", "send"}
    /\ dispatch' = [d \in Dispatches |-> Quiet]
    /\ UNCHANGED <<channel, events>>

Next ==
    \/ \E c \in Channels, project \in Scopes, on \in SUBSET EventTypes, complete \in BOOLEAN :
            Create(c, project, on, complete)
    \/ \E c \in Channels : Delete(c)
    \/ \E d \in Dispatches, type \in EventTypes, project \in Scopes :
            Dispatch(d, type, project)
    \/ \E d \in Dispatches : ListActiveForEvent(d) \/ SendToChannel(d) \/ Finish(d)
    \/ Crash

Spec == Init /\ [][Next]_vars

----------------------------------------------------------------------------
(* The types of the variables.                                             *)
TypeOK ==
    /\ channel \in [Channels -> Channel]
    /\ dispatch \in [Dispatches -> Telling]
    /\ events \in 0..MaxEvents /\ mishaps \in 0..MaxMishaps

(* Every channel listed for an event is told of it once, and slow ones     *)
(* cannot starve it: as many of the first as what the listing left has room*)
(* for (two, of 20 s by 10 s, when it took no time) have a whole call, and *)
(* a channel is cut short only if its form is complete                     *)
(* (notifications.Notifier.Dispatch).                                      *)
FairShare ==
    \A d \in Dispatches :
        LET told == dispatch[d].told IN
        /\ \A i \in DOMAIN told :
              /\ i <= (Budget - dispatch[d].listing) \div CallLimit => told[i].had = CallLimit
              /\ told[i].result = "cut short" => channel[told[i].channel].complete
        /\ ToSet(dispatch[d].queue) \union {told[i].channel : i \in DOMAIN told} = dispatch[d].due
        /\ Len(told) + Len(dispatch[d].queue) = Cardinality(dispatch[d].due)
        /\ \A c \in dispatch[d].due :
              channel[c].project \in {None, dispatch[d].project} /\ dispatch[d].type \in channel[c].on
=============================================================================
