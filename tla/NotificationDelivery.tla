----------------------- MODULE NotificationDelivery ------------------------
(***************************************************************************)
(* Outbound notifications to one recipient: the preferences an             *)
(* administrator writes and the recipient opts out of, the deliveries that *)
(* enqueueWebhookEvent fans out inside the transaction of the event, and   *)
(* the worker that sends them (src/server/data/notification-repository.ts, *)
(* src/server/app/notification-service.ts, webhook-repository.ts).         *)
(*                                                                         *)
(* The local day of the recipient has a few minutes, enough for an open, a *)
(* quiet and a digest minute.  Tick is the clock: a delivery that waits    *)
(* for a minute becomes due when it comes.                                 *)
(***************************************************************************)
EXTENDS Integers, FiniteSets

CONSTANTS
    Scopes,         \* scope keys that may have a preference of the recipient
    Schedules,      \* digest minute (None: immediate) and quiet minutes of a preference
    Minutes,        \* bound: the minutes of a day are 0 .. Minutes - 1
    MaxEvents,      \* bound: events one game announces, one transaction after another
    MaxWorkers,     \* invocations of the delivery route at once
    MaxAttempts,    \* NOTIFICATION_MAX_ATTEMPTS
    Scenarios,      \* the preferences a behaviour starts with and its bounds
    None

Bounded == {"events", "writes", "suspensions", "overlaps", "crashes", "stalls"}
Day == 0 .. Minutes - 1
Statuses == {"ABSENT", "ACTIVE", "DISABLED", "OPTED_OUT"}

NotificationAssumption ==
    /\ {Minutes, MaxEvents, MaxWorkers, MaxAttempts} \subseteq Nat \ {0}
    /\ \A s \in Scenarios :
        /\ s.bound \in [Bounded -> Nat]
        /\ s.preference \in [Scopes -> [status : Statuses, schedule : Schedules]]
    /\ Schedules \subseteq [digest : Day \cup {None}, quiet : SUBSET Day] /\ Schedules # {}

Events == 1 .. MaxEvents
Workers == 1 .. MaxWorkers

VARIABLES
    minute,     \* the recipient's local minute
    member,     \* is the recipient's AccountMembership ACTIVE?
    preference, \* NotificationPreference rows, by scope
    request,    \* per scope, the configuration request that has read and not yet written
    enqueue,    \* per event, the transaction that announces it
    delivery,   \* NotificationDelivery rows, by preference and event
    worker,     \* invocations of the worker
    sent,       \* deliveries the provider was asked to send
    left        \* how much of each bound is left

vars == <<minute, member, preference, request, enqueue, delivery, worker, sent, left>>

Deliveries == Scopes \X Events
Due == -1       \* not waiting for a minute
Leasing == -2   \* waiting for a lease to run out
Live == {"PENDING", "PROCESSING"}
Row(status, wait) == [status |-> status, attempts |-> 0, owned |-> status = "PROCESSING", wait |-> wait]
Idle == [phase |-> "idle", batch |-> {}, current |-> None, result |-> None]
Spend(what) == left[what] > 0 /\ left' = [left EXCEPT ![what] = @ - 1]

Status(p) == preference[p].status
Receives(p) == Status(p) = "ACTIVE" /\ member
-----------------------------------------------------------------------------
(* Preferences.                                                            *)

\* configurePreference reads any opt-out of the recipient and the row of the scope ...
ReadConfigure(p) ==
    /\ member /\ request[p] = None
    /\ \A o \in Scopes : Status(o) # "OPTED_OUT"
    /\ Spend("writes")
    /\ request' = [request EXCEPT ![p] = IF Status(p) = "ABSENT" THEN "create" ELSE "update"]
    /\ UNCHANGED <<minute, member, preference, enqueue, delivery, worker, sent>>

\* (Mutant: no lifecycle check.)
NeverRefused(p) == FALSE

\* NotificationPreference_lifecycle_check, for a write that sets no optedOutAt: an
\* opted-out row keeps it and cannot be made ACTIVE.
Refused(p) == Status(p) = "OPTED_OUT"

\* ... and writes: the unique index refuses a second row of a scope.
WriteConfigure(p) ==
    /\ request[p] # None
    /\ request' = [request EXCEPT ![p] = None]
    /\ IF Refused(p) \/ (request[p] = "create" /\ Status(p) # "ABSENT")
       THEN UNCHANGED preference
       ELSE \E s \in Schedules :
                preference' = [preference EXCEPT ![p] = [status |-> "ACTIVE", schedule |-> s]]
    /\ UNCHANGED <<minute, member, enqueue, delivery, worker, sent, left>>

\* (Mutant: the lease stays on a cancelled row.)
CancelOfOwned(scopes) ==
    delivery' = [d \in Deliveries |->
        IF d[1] \in scopes /\ delivery[d].status \in Live
        THEN [delivery[d] EXCEPT !.status = "CANCELLED"] ELSE delivery[d]]

\* The rows in flight of these preferences are cancelled, whoever holds them.
CancelOf(scopes) ==
    delivery' = [d \in Deliveries |->
        IF d[1] \in scopes /\ delivery[d].status \in Live
        THEN [delivery[d] EXCEPT !.status = "CANCELLED", !.owned = FALSE] ELSE delivery[d]]

\* disablePreference.
Disable(p) ==
    /\ Status(p) # "ABSENT"
    /\ Spend("writes")
    /\ preference' = [preference EXCEPT ![p].status = IF @ = "OPTED_OUT" THEN @ ELSE "DISABLED"]
    /\ CancelOf({p})
    /\ UNCHANGED <<minute, member, request, enqueue, worker, sent>>

\* optOut: every preference the recipient has; without any there is nothing to record.
OptOut ==
    LET mine == {p \in Scopes : Status(p) # "ABSENT"}
    IN  /\ member /\ mine # {}
        /\ Spend("writes")
        /\ preference' = [p \in Scopes |-> IF p \in mine
               THEN [preference[p] EXCEPT !.status = "OPTED_OUT"] ELSE preference[p]]
        /\ CancelOf(mine)
        /\ UNCHANGED <<minute, member, request, enqueue, worker, sent>>

\* The membership is suspended or restored; its deliveries are left as they are.
Suspend ==
    /\ Spend("suspensions")
    /\ member' = ~member
    /\ UNCHANGED <<minute, preference, request, enqueue, delivery, worker, sent>>
-----------------------------------------------------------------------------
(* Events.                                                                 *)

\* notificationDeliveryAt: the first minute from now on that is the digest minute, if
\* there is one, and not a quiet one.
AllowedMinutes(s) == {m \in Day : m \notin s.quiet /\ (s.digest = None \/ m = s.digest)}
Distance(m) == (m - minute + Minutes) % Minutes
DeliveryAt(s) == CHOOSE m \in AllowedMinutes(s) :
                     \A n \in AllowedMinutes(s) : Distance(m) <= Distance(n)
WaitFor(m) == IF m = minute THEN Due ELSE m

\* The fan-out inside the transaction of a domain write reads the active preferences.
\* A schedule without a safe time is an exception: the whole transaction, the domain
\* write with it, is rolled back.
OpenEnqueue(e) ==
    LET readers == {p \in Scopes : Receives(p)}
        unsafe == \E p \in readers : AllowedMinutes(preference[p].schedule) = {}
    IN  /\ enqueue[e].phase = "new" /\ (e > 1 => enqueue[e - 1].phase = "sent")
        /\ Spend("events")
        /\ enqueue' = [enqueue EXCEPT ![e] =
               IF unsafe THEN [phase |-> "failed", at |-> <<>>]
               ELSE [phase |-> "open",
                     at |-> [p \in readers |-> WaitFor(DeliveryAt(preference[p].schedule))]]]
        /\ UNCHANGED <<minute, member, preference, request, delivery, worker, sent>>

CommitEnqueue(e) ==
    /\ enqueue[e].phase = "open"
    /\ delivery' = [d \in Deliveries |->
           IF d[2] = e /\ d[1] \in DOMAIN enqueue[e].at THEN Row("PENDING", enqueue[e].at[d[1]])
           ELSE delivery[d]]
    /\ enqueue' = [enqueue EXCEPT ![e] = [phase |-> "sent", at |-> <<>>]]
    /\ UNCHANGED <<minute, member, preference, request, worker, sent, left>>
-----------------------------------------------------------------------------
(* The worker: deliverBatch and deliverOne.                                *)

\* (Mutant: a delivery that waits does not hold the later ones back.)
FirstProcessing(d) ==
    \A e \in 1 .. d[2] - 1 : delivery[<<d[1], e>>].status # "PROCESSING"

\* No earlier event of the preference is still to be delivered.
First(d) == \A e \in 1 .. d[2] - 1 : delivery[<<d[1], e>>].status \notin Live

\* (Mutant: an expired lease is not claimed again.)
ClaimablePending(d) ==
    Receives(d[1]) /\ delivery[d].status = "PENDING" /\ delivery[d].wait = Due /\ First(d)

Claimable(d) ==
    Receives(d[1]) /\ delivery[d].status \in Live /\ delivery[d].wait = Due /\ First(d)

Claim(w) ==
    LET batch == {d \in Deliveries : Claimable(d)}
    IN  /\ worker[w].phase = "idle" /\ batch # {}
        /\ \A o \in 1 .. w - 1 : worker[o].phase # "idle"
        /\ IF \A o \in Workers : worker[o].phase = "idle" THEN UNCHANGED left ELSE Spend("overlaps")
        /\ delivery' = [d \in Deliveries |-> IF d \in batch
               THEN [delivery[d] EXCEPT !.status = "PROCESSING", !.owned = TRUE, !.wait = Leasing]
               ELSE delivery[d]]
        /\ worker' = [worker EXCEPT ![w] = [Idle EXCEPT !.phase = "next", !.batch = batch]]
        /\ UNCHANGED <<minute, member, preference, request, enqueue, sent>>

Done(w) == [Idle EXCEPT !.phase = IF worker[w].batch = {} THEN "idle" ELSE "next",
                        !.batch = worker[w].batch]

\* All invocations of a scheduler have one identity, so a lease held is a row PROCESSING.
Leased(d) == delivery[d].status = "PROCESSING"

\* preferenceIsActive; cancelClaim if it is not, or if the channel is off by now.
Take(w) ==
    /\ worker[w].phase = "next"
    /\ \E d \in worker[w].batch :
        /\ \A c \in worker[w].batch : d[2] <= c[2]
        /\ worker' = [worker EXCEPT ![w].batch = @ \ {d}, ![w].current = d,
                                    ![w].phase = IF Receives(d[1]) THEN "checked" ELSE "cancel"]
    /\ UNCHANGED <<minute, member, preference, request, enqueue, delivery, sent, left>>

CancelClaim(w) ==
    LET d == worker[w].current
    IN  /\ worker[w].phase \in {"checked", "cancel"}
        /\ delivery' = IF Leased(d)
               THEN [delivery EXCEPT ![d].status = "CANCELLED", ![d].owned = FALSE] ELSE delivery
        /\ worker' = [worker EXCEPT ![w] = Done(w)]
        /\ UNCHANGED <<minute, member, preference, request, enqueue, sent, left>>

\* The provider accepts, refuses for good, or fails; what fails may have been sent.
Send(w) ==
    /\ worker[w].phase = "checked"
    /\ \E result \in {"SUCCEEDED", "RETRYABLE", "TERMINAL"} :
           worker' = [worker EXCEPT ![w].phase = "sent", ![w].result = result]
    /\ sent' = sent \cup {worker[w].current}
    /\ UNCHANGED <<minute, member, preference, request, enqueue, delivery, left>>

\* completeAttempt reads the lease ...
ReadAttempt(w) ==
    /\ worker[w].phase = "sent"
    /\ worker' = [worker EXCEPT ![w] =
           IF Leased(worker[w].current) THEN [@ EXCEPT !.phase = "record"] ELSE Done(w)]
    /\ UNCHANGED <<minute, member, preference, request, enqueue, delivery, sent, left>>

\* ... and writes.  A row that was cancelled or completed in between fails the
\* lifecycle check or the attempt's unique number: the exception ends the batch.
\* The retry is due after half a minute, whatever minute that is.
WriteAttempt(w) ==
    LET d == worker[w].current
        attempts == delivery[d].attempts + 1
        dead == worker[w].result = "TERMINAL" \/ attempts >= MaxAttempts
        row == CASE worker[w].result = "SUCCEEDED" -> Row("SUCCEEDED", Due)
                 [] worker[w].result # "SUCCEEDED" /\ dead -> Row("DEAD_LETTER", Due)
                 [] OTHER -> Row("PENDING", (minute + 1) % Minutes)
    IN  /\ worker[w].phase = "record"
        /\ delivery' = IF Leased(d) THEN [delivery EXCEPT ![d] = [row EXCEPT !.attempts = attempts]]
                       ELSE delivery
        /\ worker' = [worker EXCEPT ![w] = IF Leased(d) THEN Done(w) ELSE Idle]
        /\ UNCHANGED <<minute, member, preference, request, enqueue, sent, left>>

Crash(w) ==
    /\ worker[w].phase # "idle"
    /\ Spend("crashes")
    /\ worker' = [worker EXCEPT ![w] = Idle]
    /\ UNCHANGED <<minute, member, preference, request, enqueue, delivery, sent>>

Held(d) == \E w \in Workers : d \in worker[w].batch \cup {worker[w].current}

ExpireLease(d) ==
    /\ delivery[d].status = "PROCESSING" /\ delivery[d].wait = Leasing
    /\ delivery' = [delivery EXCEPT ![d].wait = Due]
    /\ IF Held(d) THEN Spend("stalls") ELSE UNCHANGED left
    /\ UNCHANGED <<minute, member, preference, request, enqueue, worker, sent>>

Tick ==
    LET now == (minute + 1) % Minutes
    IN  /\ minute' = now
        /\ delivery' = [d \in Deliveries |-> IF delivery[d].wait = now
                                             THEN [delivery[d] EXCEPT !.wait = Due] ELSE delivery[d]]
        /\ enqueue' = [e \in Events |-> [enqueue[e] EXCEPT !.at =
               [p \in DOMAIN @ |-> IF @[p] = now THEN Due ELSE @[p]]]]
        /\ UNCHANGED <<member, preference, request, worker, sent, left>>
-----------------------------------------------------------------------------
Init ==
    /\ minute = 0 /\ member = TRUE
    /\ request = [p \in Scopes |-> None]
    /\ enqueue = [e \in Events |-> [phase |-> "new", at |-> <<>>]]
    /\ delivery = [d \in Deliveries |-> Row("ABSENT", Due)]
    /\ worker = [w \in Workers |-> Idle]
    /\ sent = {}
    /\ \E s \in Scenarios : preference = s.preference /\ left = s.bound

Work(w) == \/ Claim(w) \/ Take(w) \/ CancelClaim(w) \/ Send(w) \/ ReadAttempt(w) \/ WriteAttempt(w)

Next ==
    \/ \E p \in Scopes : ReadConfigure(p) \/ WriteConfigure(p) \/ Disable(p)
    \/ OptOut \/ Suspend \/ Tick
    \/ \E e \in Events : OpenEnqueue(e) \/ CommitEnqueue(e)
    \/ \E w \in Workers : Work(w) \/ Crash(w)
    \/ \E d \in Deliveries : ExpireLease(d)

Spec == Init /\ [][Next]_vars

\* The scheduler keeps calling, transactions end, the day goes on and leases run out.
\* The worker's own steps are fair while the clock ticks, which it always does.
Fairness ==
    /\ \A w \in Workers : WF_vars(Work(w))
    /\ \A e \in Events : WF_vars(CommitEnqueue(e))
    /\ WF_vars(Tick)
    /\ WF_vars(\E d \in Deliveries : ExpireLease(d) /\ ~Held(d))

FairSpec == Spec /\ Fairness
-----------------------------------------------------------------------------
\* The rows fit NotificationDelivery_lifecycle_check, and only a live one waits.
TypeOK ==
    /\ minute \in Day /\ member \in BOOLEAN
    /\ \A p \in Scopes : /\ Status(p) \in Statuses
                         /\ preference[p].schedule \in Schedules
    /\ \A d \in Deliveries :
        /\ delivery[d].status \in Live \cup {"SUCCEEDED", "DEAD_LETTER", "CANCELLED", "ABSENT"}
        /\ delivery[d].attempts \in 0 .. MaxAttempts
        /\ delivery[d].owned <=> delivery[d].status = "PROCESSING"
        /\ delivery[d].wait \in Day => delivery[d].status \in {"PENDING", "CANCELLED"}
    /\ sent \subseteq Deliveries

\* docs/OUTBOUND_NOTIFICATIONS.md, "preserve per-recipient event order": no event is
\* sent to a preference while an earlier one is still to be delivered to it, though
\* digests, quiet hours, retries and leases that run out let later rows come due first.
SentInOrder ==
    \A d \in sent : \A e \in 1 .. d[2] - 1 :
        delivery[<<d[1], e>>].status # "ABSENT" /\ <<d[1], e>> \notin sent
        => delivery[<<d[1], e>>].status = "CANCELLED"

\* The rows and what was sent from them: well formed, and in order.
DeliveriesHold == TypeOK /\ SentInOrder

\* A recipient who opted out of a preference is never made active on it again, not by
\* an administrator's request that read the preferences before the opt-out.
OptOutStands ==
    [][\A p \in Scopes : Status(p) = "OPTED_OUT" => Status(p)' = "OPTED_OUT"]_vars

\* Whatever crashes, stalls and fails, and whatever the day's schedule, no delivery
\* stays live for ever but one whose recipient or preference is not active.
NoneWaits == \A d \in Deliveries : delivery[d].status \in Live => ~Receives(d[1])
EventuallySettled == <>[]NoneWaits
=============================================================================
