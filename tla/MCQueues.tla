------------------------------- MODULE MCQueues -------------------------------
(***************************************************************************)
(* Instances for TLC of the two queues whose workers claim rows by lease   *)
(* and call the outside world: webhooks and notifications.  They share no  *)
(* state in the code, so a behaviour is one of one queue and leaves what   *)
(* only the other keeps unset; variables of one name hold what the queue   *)
(* of the behaviour keeps in them.                                         *)
(***************************************************************************)
EXTENDS Naturals, Sequences, TLC

CONSTANTS
    None, Queues,
    MaxWorkers,                                         \* both queues
    Endpoints, Streams, Republished, Identity, BatchLimit, PostAttempts,
    MaxReplays, MaxRepublished, MaxCrashes, MaxStalls, Troubles,        \* webhooks
    Scopes, Schedules, Minutes, MaxEvents, SendAttempts, Cases          \* notifications

VARIABLES
    queue,
    enqueue, delivery, worker,
    endpoint, closing, locked, sequence, attempt, posted, replays, spent,
    minute, member, preference, request, sent, left

webhookVars == <<endpoint, closing, locked, sequence, attempt, posted, replays, spent>>
notificationVars == <<minute, member, preference, request, sent, left>>
vars == <<queue, enqueue, delivery, worker, webhookVars, notificationVars>>

Invocations == 1 .. MaxWorkers

W == INSTANCE WebhookDelivery WITH
        Workers <- Invocations, MaxAttempts <- PostAttempts, Scenarios <- Troubles

N == INSTANCE NotificationDelivery WITH
        MaxAttempts <- SendAttempts, Scenarios <- Cases

ASSUME QueuesAssumption ==
    W!StreamsAssumption /\ W!BoundsAssumption /\ N!NotificationAssumption

-----------------------------------------------------------------------------
(* Webhooks: one game announces two events; two schedulers send their own  *)
(* identities.  A worker dies and a lease runs out under its holder, or an *)
(* event is enqueued again, or a delivery is replayed.                     *)

OneGame  == {<<"e1", "e2">>}
OwnIdentity == <<"first", "second">>
NoTrouble == [republished |-> 0, replays |-> 0, crashes |-> 0, stalls |-> 0]
OneTrouble == {[NoTrouble EXCEPT !.crashes = 1, !.stalls = 1],
               [NoTrouble EXCEPT !.republished = 1], [NoTrouble EXCEPT !.replays = 1]}

(* Notifications: a day of an open minute, a quiet one and a third.  Two   *)
(* writes of administrators or of the recipient around one event; one      *)
(* around two; a suspension; two overlapping invocations, one of which     *)
(* outlives its lease; one that dies.                                      *)

Plain == [w \in {"events", "writes", "suspensions", "overlaps", "crashes", "stalls"} |->
             IF w = "events" THEN 2 ELSE 0]
Immediate == [digest |-> None, quiet |-> {1}]
Digest == [digest |-> 2, quiet |-> {1}]
SafeSchedules == {Immediate, Digest}
On(s) == [status |-> "ACTIVE", schedule |-> s]
Off == [status |-> "ABSENT", schedule |-> Immediate]
Start(one, two, bound) == [preference |-> "p1" :> one @@ "p2" :> two, bound |-> bound]
RecipientCases ==
    {Start(On(Immediate), Off, "writes" :> 2 @@ "events" :> 1 @@ Plain),
     Start(On(Digest), Off, "writes" :> 1 @@ Plain),
     Start(On(Immediate), On(Digest), "crashes" :> 1 @@ Plain),
     Start(On(Immediate), Off, "suspensions" :> 1 @@ Plain),
     Start(On(Digest), Off, "overlaps" :> 1 @@ "stalls" :> 1 @@ Plain)}

-----------------------------------------------------------------------------
Unset(v) == v = 0

Init ==
    /\ queue \in Queues
    /\ \/ /\ queue = "webhooks" /\ W!Init
          /\ Unset(minute) /\ Unset(member) /\ Unset(preference) /\ Unset(request)
          /\ Unset(sent) /\ Unset(left)
       \/ /\ queue = "notifications" /\ N!Init
          /\ Unset(endpoint) /\ Unset(closing) /\ Unset(locked) /\ Unset(sequence)
          /\ Unset(attempt) /\ Unset(posted) /\ Unset(replays) /\ Unset(spent)

InWebhooks(A) == queue = "webhooks" /\ A /\ UNCHANGED <<queue, notificationVars>>
InNotifications(A) == queue = "notifications" /\ A /\ UNCHANGED <<queue, webhookVars>>

Next == InWebhooks(W!Next) \/ InNotifications(N!Next)

\* The fairness of both modules: as only one queue is there, fairness of an action of one
\* or an action of the other is fairness of each.
First(event) == [endpoint |-> "p1", event |-> event, replay |-> 0]
Replayed(event) == [endpoint |-> "p1", event |-> event, replay |-> 1]
Ripens(d) == InWebhooks(W!Ripen(d) /\ UNCHANGED spent)
Fairness ==
    /\ \A w \in Invocations : WF_vars(InWebhooks(W!Work(w)) \/ InNotifications(N!Work(w)))
    /\ WF_vars(InWebhooks(W!CommitRevoke("p1")) \/ InNotifications(N!Tick))
    /\ WF_vars(Ripens(First("e1")) \/ InNotifications(N!CommitEnqueue(1)))
    /\ WF_vars(Ripens(First("e2")) \/ InNotifications(N!CommitEnqueue(2)))
    /\ WF_vars(Ripens(Replayed("e1"))
               \/ InNotifications(\E d \in N!Deliveries : N!ExpireLease(d) /\ ~N!Held(d)))
    /\ WF_vars(Ripens(Replayed("e2")))

Spec == Init /\ [][Next]_vars
FairSpec == Spec /\ Fairness

-----------------------------------------------------------------------------
(* The properties *)

\* Webhooks: deliveries of a writer's events go out in order and their attempts agree
\* with them.  Notifications: the rows are sound and deliveries go out in order.
QueuesHold ==
    /\ queue = "webhooks" => W!QueueHolds
    /\ queue = "notifications" => N!DeliveriesHold

\* A recipient who opted out of a preference is never made active on it again.
OptOutStands ==
    [][queue = "notifications" => \A p \in Scopes :
         preference[p].status = "OPTED_OUT" => preference'[p].status = "OPTED_OUT"]_vars

\* Whatever crashes, stalls, overlaps and fails, every queued delivery is settled in the
\* end, but for a revoked endpoint or a recipient who does not receive.
QueuesSettle ==
    <>[](/\ queue = "webhooks" => \A d \in W!Deliveries : ~W!Waits(d)
         /\ queue = "notifications" => N!NoneWaits)
===============================================================================
