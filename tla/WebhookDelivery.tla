-------------------------- MODULE WebhookDelivery --------------------------
(***************************************************************************)
(* The durable webhook queue: WebhookEvent, WebhookDelivery and            *)
(* WebhookDeliveryAttempt rows, the transactions that write events beside  *)
(* the domain rows they announce, the invocations of the delivery worker,  *)
(* and the operators who verify and revoke endpoints and replay events     *)
(* (src/server/data/webhook-repository.ts, src/server/app/                 *)
(* webhook-service.ts).                                                    *)
(*                                                                         *)
(* Every transaction here but the acceptance of game events is READ        *)
(* COMMITTED, so a transaction whose statements can be separated by        *)
(* another's commit is two steps.  Time is the action Ripen: the moment at *)
(* which nextAttemptAt, or the expiry of a lease, has passed.              *)
(***************************************************************************)
EXTENDS Integers, Sequences, FiniteSets

CONSTANTS
    Endpoints,      \* webhook endpoints of one account, all subscribed to everything
    Streams,        \* per writer, the sequence of events it enqueues, one transaction at a time
    Republished,    \* the events that a later transaction may enqueue again
    Workers,        \* concurrent invocations of the delivery route
    Identity,       \* the x-webhook-worker-id each invocation sends
    BatchLimit,     \* deliveries claimed at once
    MaxAttempts,    \* WEBHOOK_MAX_ATTEMPTS
    MaxReplays,     \* bound: replay requests
    MaxRepublished, \* bound: repeated enqueues
    MaxCrashes,     \* bound: invocations that die
    MaxStalls,      \* bound: leases that expire while their holder still works
    Scenarios,      \* bound: how much of each bound a behaviour may use
    None            \* no lease owner, no delivery

Events == UNION {{s[i] : i \in DOMAIN s} : s \in Streams}

StreamsAssumption ==
    /\ Republished \subseteq Events
    /\ Identity \in [Workers -> {Identity[w] : w \in Workers}]
    /\ \A w \in Workers : Identity[w] # None
BoundsAssumption ==
    /\ {BatchLimit, MaxAttempts} \subseteq Nat \ {0}
    /\ {MaxReplays, MaxRepublished, MaxCrashes, MaxStalls} \subseteq Nat

\* A delivery row is named by its unique index (endpoint, event, replayNumber).
Deliveries == [endpoint : Endpoints, event : Events, replay : 0 .. MaxReplays]

Live      == {"PENDING", "PROCESSING"}
Absent    == "ABSENT"
Outcomes  == {"SUCCEEDED", "RETRYABLE", "TERMINAL"}

VARIABLES
    endpoint,   \* WebhookEndpoint.status
    closing,    \* endpoints whose revocation has run its updates and not committed
    locked,     \* the delivery rows such a revocation has changed, and holds until then
    enqueue,    \* per event: the state of the transaction that enqueues it
    sequence,   \* WebhookEvent.sequence, 0 until the row is inserted
    delivery,   \* the WebhookDelivery rows
    attempt,    \* per delivery, its WebhookDeliveryAttempt rows
    worker,     \* the invocations under way
    posted,     \* the deliveries a receiver has been sent
    replays,    \* the replay requests that have read and not yet written
    spent       \* how much of each bound is used

stored == <<endpoint, closing, locked, enqueue, sequence, delivery, attempt>>
vars == <<stored, worker, posted, replays, spent>>

Idle == [phase |-> "idle", batch |-> {}, current |-> None, outcome |-> "SUCCEEDED", read |-> 0]
Bounds == [republished |-> MaxRepublished, replays |-> MaxReplays,
           crashes |-> MaxCrashes, stalls |-> MaxStalls]
Spend(what) == spent[what] < Bounds[what] /\ spent' = [spent EXCEPT ![what] = @ + 1]
-----------------------------------------------------------------------------
(* Enqueueing: enqueueWebhookEvent inside the transaction of the domain    *)
(* write.  The row, and with it the number of a BIGSERIAL, is inserted, and *)
(* the active endpoints are read, before the commit that shows them.       *)

Row(status) == [status |-> status, attempts |-> 0, owner |-> None,
                due |-> TRUE, cancelled |-> FALSE]

Before(e, f) == \E s \in Streams : \E j \in DOMAIN s : \E i \in 1 .. j - 1 : s[i] = e /\ s[j] = f

NextSequence == Cardinality({e \in Events : sequence[e] > 0}) + 1

\* The endpoints whose committed status is ACTIVE: an uncommitted revocation is
\* invisible, and reading takes no lock it would wait for.
ActiveEndpoints == {p \in Endpoints : endpoint[p] = "ACTIVE"}

Visible(e) == enqueue[e].phase \in {"sent", "again"}

OpenEnqueue(e) ==
    /\ \/ enqueue[e].phase = "new" /\ UNCHANGED spent
       \/ enqueue[e].phase = "sent" /\ e \in Republished /\ Spend("republished")
    /\ \A f \in Events : Before(f, e) => Visible(f)
    /\ enqueue' = [enqueue EXCEPT ![e] =
           [phase |-> IF @.phase = "new" THEN "open" ELSE "again", targets |-> ActiveEndpoints]]
    /\ sequence' = [sequence EXCEPT ![e] = IF @ = 0 THEN NextSequence ELSE @]
    /\ UNCHANGED <<endpoint, closing, locked, delivery, attempt, worker, posted, replays>>

\* skipDuplicates: an existing row of the index is left as it is.
CommitEnqueue(e) ==
    /\ enqueue[e].phase \in {"open", "again"}
    /\ delivery' = [d \in Deliveries |->
           IF /\ d.event = e /\ d.replay = 0 /\ d.endpoint \in enqueue[e].targets
              /\ delivery[d].status = Absent
           THEN Row("PENDING") ELSE delivery[d]]
    /\ enqueue' = [enqueue EXCEPT ![e] = [phase |-> "sent", targets |-> {}]]
    /\ UNCHANGED <<endpoint, closing, locked, sequence, attempt, worker, posted, replays, spent>>
-----------------------------------------------------------------------------
(* Administration.                                                         *)

\* The guarded update waits for a revocation that holds the row.
Activate(p) ==
    /\ endpoint[p] = "PENDING_VERIFICATION" /\ p \notin closing
    /\ endpoint' = [endpoint EXCEPT ![p] = "ACTIVE"]
    /\ UNCHANGED <<closing, locked, enqueue, sequence, delivery, attempt, worker, posted,
                   replays, spent>>

\* The two updates of revokeEndpoint; nobody sees them before the commit.
Revoke(p) ==
    /\ endpoint[p] # "REVOKED" /\ p \notin closing
    /\ closing' = closing \cup {p}
    /\ locked' = locked \cup {d \in Deliveries : d.endpoint = p /\ delivery[d].status \in Live}
    /\ UNCHANGED <<endpoint, enqueue, sequence, delivery, attempt, worker, posted, replays, spent>>

CommitRevoke(p) ==
    /\ p \in closing
    /\ closing' = closing \ {p}
    /\ locked' = {d \in locked : d.endpoint # p}
    /\ endpoint' = [endpoint EXCEPT ![p] = "REVOKED"]
    /\ delivery' = [d \in Deliveries |->
           IF d \in locked /\ d.endpoint = p
           THEN [delivery[d] EXCEPT !.status = "CANCELLED", !.cancelled = TRUE, !.owner = None]
           ELSE delivery[d]]
    /\ UNCHANGED <<enqueue, sequence, attempt, worker, posted, replays, spent>>

\* replayDelivery reads the endpoint, the event and the greatest replayNumber,
\* and then inserts the next; of two that read the same number the index refuses one.
ReadReplay(d) ==
    /\ d.endpoint \in ActiveEndpoints /\ Visible(d.event)
    /\ d.replay > 0
    /\ \A n \in 1 .. MaxReplays :
           (delivery[[d EXCEPT !.replay = n]].status # Absent) <=> n < d.replay
    /\ Spend("replays")
    /\ replays' = replays \cup {d}
    /\ UNCHANGED <<stored, worker, posted>>

WriteReplay(d) ==
    /\ d \in replays
    /\ replays' = replays \ {d}
    /\ delivery' = [delivery EXCEPT ![d] = Row("PENDING")]
    /\ UNCHANGED <<endpoint, closing, locked, enqueue, sequence, attempt, worker, posted, spent>>
-----------------------------------------------------------------------------
(* The worker: deliverBatch claims a batch, then takes its deliveries one  *)
(* after another in deliverOne: is the endpoint active, post, and record   *)
(* the attempt in a transaction that reads the row before it writes it.    *)

\* (Mutant: a prior delivery that is leased does not hold the later ones back.)
AtHeadOfPending(d) ==
    \A c \in Deliveries :
        (/\ c.endpoint = d.endpoint /\ c.replay = 0 /\ sequence[c.event] < sequence[d.event])
        => delivery[c].status # "PENDING"

\* The oldest live delivery of an endpoint holds the later ones back.
AtHead(d) ==
    \A c \in Deliveries :
        (/\ c.endpoint = d.endpoint /\ c.replay = 0 /\ sequence[c.event] < sequence[d.event])
        => delivery[c].status \notin Live

\* (Mutant: an expired lease is not claimed again.)
ClaimablePending(d) ==
    /\ d.endpoint \in ActiveEndpoints
    /\ delivery[d].status = "PENDING" /\ delivery[d].due
    /\ d.replay > 0 \/ AtHead(d)
    /\ d \notin locked

Claimable(d) ==
    /\ d.endpoint \in ActiveEndpoints
    /\ delivery[d].status \in Live /\ delivery[d].due
    /\ d.replay > 0 \/ AtHead(d)
    /\ d \notin locked

Claim(w) ==
    LET claimable == {d \in Deliveries : Claimable(d)}
        size == IF Cardinality(claimable) < BatchLimit THEN Cardinality(claimable) ELSE BatchLimit
    IN  /\ worker[w].phase = "idle"
        /\ claimable # {}
        /\ \E batch \in SUBSET claimable :
            /\ Cardinality(batch) = size
            /\ \A d \in batch, c \in claimable \ batch : sequence[d.event] <= sequence[c.event]
            /\ delivery' = [d \in Deliveries |->
                   IF d \in batch
                   THEN [delivery[d] EXCEPT !.status = "PROCESSING", !.owner = Identity[w], !.due = FALSE]
                   ELSE delivery[d]]
            /\ worker' = [worker EXCEPT ![w] = [Idle EXCEPT !.phase = "next", !.batch = batch]]
        /\ UNCHANGED <<endpoint, closing, locked, enqueue, sequence, attempt, posted, replays, spent>>

\* The batch is in the order of its events.
InTurn(batch, d) == d \in batch /\ \A c \in batch : sequence[d.event] <= sequence[c.event]

\* The invocation, through with a delivery, that has these left.
With(batch) == [Idle EXCEPT !.phase = IF batch = {} THEN "idle" ELSE "next", !.batch = batch]

Take(w, d) ==
    /\ worker[w].phase = "next" /\ InTurn(worker[w].batch, d)
    /\ worker' =
           IF d.endpoint \in ActiveEndpoints
           THEN [worker EXCEPT ![w].phase = "posting", ![w].batch = @ \ {d}, ![w].current = d]
           ELSE [worker EXCEPT ![w] = With(@.batch \ {d})]
    /\ UNCHANGED <<stored, posted, replays, spent>>

\* 2xx; 408, 429, 5xx, a timeout or a network failure; any other 4xx.  A request
\* that fails may have reached the receiver all the same.
Post(w) ==
    /\ worker[w].phase = "posting"
    /\ \E outcome \in Outcomes :
           worker' = [worker EXCEPT ![w].phase = "posted", ![w].outcome = outcome]
    /\ posted' = posted \cup {worker[w].current}
    /\ UNCHANGED <<stored, replays, spent>>

Leased(w) == /\ delivery[worker[w].current].status = "PROCESSING"
             /\ delivery[worker[w].current].owner = Identity[w]

ReadAttempt(w) ==
    /\ worker[w].phase = "posted"
    /\ worker' = [worker EXCEPT ![w] =
           IF Leased(w) THEN [@ EXCEPT !.phase = "writing", !.read = delivery[worker[w].current].attempts]
           ELSE With(@.batch)]
    /\ UNCHANGED <<stored, posted, replays, spent>>

\* webhookRetryAt answers a date.
MayRetry(number) == number < MaxAttempts

\* (Mutant: the attempt number is not unique.)
NeverRecorded(d, number) == FALSE

\* The unique index on (deliveryId, attemptNumber).
Recorded(d, number) == \E a \in attempt[d] : a.number = number

\* WebhookDelivery_lifecycle_check: a cancelled row cannot be live again.
BreaksCheck(d, status) == status \in Live /\ delivery[d].cancelled

\* The rows are written without reading the status or the owner again, and an
\* exception ends the whole batch.
WriteAttempt(w) ==
    LET d       == worker[w].current
        number  == worker[w].read + 1
        outcome == IF worker[w].outcome = "RETRYABLE" /\ ~MayRetry(number)
                   THEN "TERMINAL" ELSE worker[w].outcome
        status  == CASE outcome = "SUCCEEDED" -> "SUCCEEDED"
                     [] outcome = "TERMINAL"  -> "DEAD_LETTER"
                     [] outcome = "RETRYABLE" -> "PENDING"
        refused == Recorded(d, number) \/ BreaksCheck(d, status)
    IN  /\ worker[w].phase = "writing" /\ d \notin locked
        /\ attempt' = IF refused THEN attempt ELSE
               [attempt EXCEPT ![d] = @ \cup {[number |-> number, outcome |-> outcome]}]
        /\ delivery' = IF refused THEN delivery ELSE
               [delivery EXCEPT ![d].status = status, ![d].attempts = number,
                                ![d].owner = None, ![d].due = FALSE]
        /\ worker' = [worker EXCEPT ![w] = IF refused THEN Idle ELSE With(@.batch)]
        /\ UNCHANGED <<endpoint, closing, locked, enqueue, sequence, posted, replays, spent>>

\* The process stops; its leases stay.
Crash(w) ==
    /\ worker[w].phase # "idle"
    /\ Spend("crashes")
    /\ worker' = [worker EXCEPT ![w] = Idle]
    /\ UNCHANGED <<stored, posted, replays>>

Held(d) == \E w \in Workers : d \in worker[w].batch \/ d = worker[w].current

\* nextAttemptAt passes, or the lease of a worker that is gone, or that takes
\* longer than WEBHOOK_LEASE_SECONDS over its batch.
Ripen(d) ==
    /\ delivery[d].status \in Live /\ ~delivery[d].due
    /\ delivery' = [delivery EXCEPT ![d].due = TRUE]
    /\ IF delivery[d].status = "PROCESSING" /\ Held(d) THEN Spend("stalls") ELSE UNCHANGED spent
    /\ UNCHANGED <<endpoint, closing, locked, enqueue, sequence, attempt, worker, posted, replays>>
-----------------------------------------------------------------------------
Init ==
    /\ endpoint \in [Endpoints -> {"PENDING_VERIFICATION", "ACTIVE"}]
    /\ closing = {} /\ locked = {}
    /\ enqueue = [e \in Events |-> [phase |-> "new", targets |-> {}]]
    /\ sequence = [e \in Events |-> 0]
    /\ delivery = [d \in Deliveries |-> Row(Absent)]
    /\ attempt = [d \in Deliveries |-> {}]
    /\ worker = [w \in Workers |-> Idle]
    /\ posted = {} /\ replays = {}
    /\ \E s \in Scenarios : spent = [what \in DOMAIN Bounds |-> Bounds[what] - s[what]]

Work(w) == \/ Claim(w) \/ Post(w) \/ ReadAttempt(w) \/ WriteAttempt(w)
           \/ \E d \in Deliveries : Take(w, d)

Next ==
    \/ \E e \in Events : OpenEnqueue(e) \/ CommitEnqueue(e)
    \/ \E p \in Endpoints : Activate(p) \/ Revoke(p) \/ CommitRevoke(p)
    \/ \E d \in Deliveries : ReadReplay(d) \/ WriteReplay(d) \/ Ripen(d)
    \/ \E w \in Workers : Work(w) \/ Crash(w)

Spec == Init /\ [][Next]_vars

\* The scheduler keeps calling the route, a transaction ends, and time passes.
Fairness ==
    /\ \A w \in Workers : WF_vars(Work(w))
    /\ \A p \in Endpoints : WF_vars(CommitRevoke(p))
    /\ \A d \in Deliveries : WF_vars(Ripen(d) /\ UNCHANGED spent)

FairSpec == Spec /\ Fairness
-----------------------------------------------------------------------------
\* The events that one writer enqueues after one another reach an endpoint in that
\* order: none is sent to it before the earlier ones it was to receive were, however
\* workers overlap, stall, crash and retry (claimDue's NOT EXISTS clause).  An event
\* that is enqueued again can gain deliveries late.
InOrder ==
    \A d \in posted : \A c \in Deliveries :
        (/\ d.replay = 0 /\ c.replay = 0 /\ c.endpoint = d.endpoint
         /\ Before(c.event, d.event) /\ c.event \notin Republished
         /\ delivery[c].status # Absent)
        => c \in posted

\* The attempt rows tell the same story as the delivery, though completeAttempt
\* writes both from a row it read earlier: they number 1 .. attemptCount without a
\* gap, and a success or a terminal failure among them is the last and the status.
AttemptsAgree ==
    \A d \in Deliveries :
        /\ {a.number : a \in attempt[d]} = 1 .. delivery[d].attempts
        /\ Cardinality(attempt[d]) = delivery[d].attempts
        /\ \A a \in attempt[d] :
            /\ a.outcome = "SUCCEEDED" <=> delivery[d].status = "SUCCEEDED" /\ a.number = delivery[d].attempts
            /\ a.outcome = "TERMINAL" <=> delivery[d].status = "DEAD_LETTER" /\ a.number = delivery[d].attempts

\* What the queue has sent: in order, and recorded attempt by attempt.
QueueHolds == InOrder /\ AttemptsAgree

\* Whatever crashes and stalls, and whatever the receiver answers, every queued
\* delivery is settled in the end, unless its endpoint is revoked.
Waits(d) == delivery[d].status \in Live /\ endpoint[d.endpoint] # "REVOKED"
EventuallySettled == \A d \in Deliveries : Waits(d) ~> ~Waits(d)
=============================================================================
