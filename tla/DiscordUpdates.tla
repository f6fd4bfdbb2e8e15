-------------------------- MODULE DiscordUpdates ---------------------------
(***************************************************************************)
(* The Discord update worker, for one game, one settings row and the one   *)
(* channel it routes to: signals and due schedules become evaluations, an  *)
(* evaluation that loads a snapshot becomes a delivery, a delivery creates *)
(* a message or edits the one before it (src/server/data/discord-update-   *)
(* repository.ts, src/server/app/discord-update-worker-service.ts, and the *)
(* settings row of discord-settings-repository.ts).                        *)
(*                                                                         *)
(* With one destination a delivery has the name of its evaluation.  Each   *)
(* repository call is one transaction; a call to the statistics provider,  *)
(* or to Discord, lies between two.  The Ripen actions are the time that     *)
(* nextAttemptAt, leaseExpiresAt and nextScheduledEvaluationAt wait for.   *)
(***************************************************************************)
EXTENDS Integers, FiniteSets

CONSTANTS
    MaxRevision,    \* bound: accepted revisions of the game
    FinalAt,        \* the revision that completes it; a later one is a correction
    Signals,        \* the signals that its revisions announce
    Scenarios,      \* the settings of the game, and how much of each bound may be used
    MaxChanges,     \* bound: writes of the settings row
    MaxCycles,      \* calls of the worker's route at once
    MaxAttempts,    \* DISCORD_UPDATE_MAX_ATTEMPTS
    None

\* What is bounded: writes of the settings row, refresh requests, cycles that start
\* while another runs, that die or are given up, and leases that expire under their holder.
Faults == {"changes", "refreshes", "overlaps", "crashes", "aborts", "stalls"}

ASSUME DiscordAssumption ==
    /\ {MaxRevision, FinalAt, MaxCycles, MaxAttempts} \subseteq Nat \ {0}
    /\ MaxChanges \in Nat /\ \A s \in Scenarios : s.bound["changes"] <= MaxChanges
    /\ Scenarios \subseteq [
           strategy : {"EDIT_LIVE_MESSAGE", "APPEND_EVENTS", "FINAL_ONLY", "PERIODIC_SUMMARY"},
           cadence  : {"EVENT_DRIVEN", "FIXED_INTERVAL", "MANUAL_ONLY"},
           bound    : [Faults -> Nat]]
    /\ Signals \subseteq [source : 1 .. MaxRevision,
                          trigger : {"SCORE_CHANGED", "INNING_ENDED", "GAME_COMPLETED", "GAME_CORRECTED"}]

VARIABLES
    revision,   \* Game.revision
    signalled,  \* the signals that have been published
    settings,   \* the DiscordIntegrationSettings row
    evaluation, \* DiscordUpdateEvaluation rows
    delivery,   \* DiscordUpdateDelivery rows
    cycle,      \* the cycles under way
    channel,    \* what each message in the channel shows, named by the delivery that created it
    history,    \* were evaluations enqueued in the order of revisions, and leases kept?
    left        \* how much of each bound is left

rows == <<evaluation, delivery>>
vars == <<revision, signalled, settings, rows, cycle, channel, history, left>>

ScheduledTrigger(r) == IF r < FinalAt THEN "SCORE_CHANGED"
                       ELSE IF r = FinalAt THEN "GAME_COMPLETED" ELSE "GAME_CORRECTED"

Cycles == 1 .. MaxCycles
TriggersAt(r) == {g.trigger : g \in {h \in Signals : h.source = r}} \cup {ScheduledTrigger(r)}

\* The scheduler sends one worker id, whichever of its cycles is asking.
Identity == "scheduler"

\* The unique index of an evaluation: settings revision, source revision, trigger.
Keys == UNION {[settings : 1 .. 1 + MaxChanges, source : {r}, trigger : TriggersAt(r)] :
                  r \in 1 .. MaxRevision}
ASSUME NoneIsNothing == None \notin Keys /\ None # Identity

Live == {"PENDING", "PROCESSING"}
Work(status) == [status |-> status, attempts |-> 0, owner |-> None, due |-> status = "PENDING"]
NoDelivery == [work |-> Work("ABSENT"), operation |-> "CREATE", target |-> None,
               message |-> None, content |-> 0]
Idle == [phase |-> "idle", batch |-> {}, current |-> None, result |-> None,
         aborted |-> FALSE, aim |-> <<>>]
Spend(what) == left[what] > 0 /\ left' = [left EXCEPT ![what] = @ - 1]

-----------------------------------------------------------------------------
(* The game, its signals and the settings.                                 *)

Accept ==
    /\ revision < MaxRevision
    /\ revision' = revision + 1
    /\ UNCHANGED <<signalled, settings, rows, cycle, channel, history, left>>

\* nextDiscordEvaluation: a refresh or a resumption is due as soon as the window
\* and the quiet hours allow, a fixed interval after it has passed.
NextSlot(asked) ==
    IF asked \/ settings.cadence = "FIXED_INTERVAL" THEN "waiting" ELSE "none"

\* createMany with skipDuplicates.
Enqueue(rowsNow, key, due) ==
    IF rowsNow[key].status = "ABSENT"
    THEN [rowsNow EXCEPT ![key] = [Work("PENDING") EXCEPT !.due = due]] ELSE rowsNow

RecordOrder(key) ==
    history' = [history EXCEPT !.inOrder = @ /\ (evaluation[key].status = "ABSENT" =>
        \A k \in Keys : evaluation[k].status # "ABSENT" => k.source < key.source)]

\* enqueueSignal: unless the cadence is immediate, a pending evaluation of an
\* earlier revision is cancelled, and without a planned time the signal is dropped.
Signal(g) ==
    LET key == [settings |-> settings.revision, source |-> g.source, trigger |-> g.trigger]
        immediate == settings.cadence = "EVENT_DRIVEN"
        latestOnly == ~immediate \/ settings.strategy = "PERIODIC_SUMMARY"
        superseded(k) == latestOnly /\ evaluation[k].status = "PENDING" /\ k.source < g.source
        kept == [k \in Keys |-> IF superseded(k)
                                THEN [evaluation[k] EXCEPT !.status = "CANCELLED"] ELSE evaluation[k]]
        due == immediate \/ settings.slot = "due" \/ (settings.slot = "none" /\ settings.refresh)
    IN  /\ g \in Signals \ signalled /\ g.source <= revision
        /\ signalled' = signalled \cup {g}
        /\ IF settings.enabled /\ (immediate \/ settings.slot # "none" \/ settings.refresh)
           THEN evaluation' = Enqueue(kept, key, due) /\ RecordOrder(key)
           ELSE UNCHANGED <<evaluation, history>>
        /\ UNCHANGED <<revision, settings, delivery, cycle, channel, left>>

\* writeConfiguration: an edit, a pause or a resumption, each a new revision.
WriteSettings ==
    /\ Spend("changes")
    /\ \E enabled \in BOOLEAN :
        LET refresh == enabled /\ settings.refresh
        IN  settings' = [settings EXCEPT
                !.revision = @ + 1, !.enabled = enabled, !.refresh = refresh,
                !.slot = IF enabled = settings.enabled THEN @
                         ELSE IF enabled THEN NextSlot(TRUE) ELSE "none"]
    /\ UNCHANGED <<revision, signalled, rows, cycle, channel, history>>

\* requestManualRefresh: a second request is coalesced with the first.
RequestRefresh ==
    /\ settings.enabled /\ ~settings.refresh
    /\ Spend("refreshes")
    /\ settings' = [settings EXCEPT !.refresh = TRUE, !.slot = NextSlot(TRUE)]
    /\ UNCHANGED <<revision, signalled, rows, cycle, channel, history>>
-----------------------------------------------------------------------------
(* evaluateBatch.                                                          *)

Step(c, phase) == cycle' = [cycle EXCEPT ![c].phase = phase]

\* enqueueDueSchedules.  The calls under way have the lowest numbers.
StartCycle(c) ==
    LET key == [settings |-> settings.revision, source |-> revision,
                trigger |-> ScheduledTrigger(revision)]
    IN  /\ cycle[c].phase = "idle"
        /\ Step(c, "claimEvaluations")
        /\ IF settings.enabled /\ (settings.refresh \/ settings.slot = "due")
           THEN /\ settings' = [settings EXCEPT !.refresh = FALSE, !.slot = NextSlot(FALSE)]
                /\ IF revision = 0 THEN UNCHANGED <<evaluation, history>>
                   ELSE evaluation' = Enqueue(evaluation, key, TRUE) /\ RecordOrder(key)
           ELSE UNCHANGED <<settings, evaluation, history>>
        /\ \A o \in 1 .. c - 1 : cycle[o].phase # "idle"
        /\ IF \A o \in Cycles : cycle[o].phase = "idle" THEN UNCHANGED left ELSE Spend("overlaps")
        /\ UNCHANGED <<revision, signalled, delivery, channel>>

\* (Mutant: an earlier revision holds nothing back.)
ClaimableInAnyOrder(work) == {k \in Keys : work[k].status \in Live /\ work[k].due}

\* (Mutant: an expired lease is not claimed again.)
ClaimablePendingIn(work) ==
    {k \in Keys : /\ work[k].status = "PENDING" /\ work[k].due
                  /\ \A p \in Keys : p.source < k.source => work[p].status \notin Live}

\* Rows that are due or whose lease has expired, with no live row of an earlier revision.
ClaimableIn(work) ==
    {k \in Keys : /\ work[k].status \in Live /\ work[k].due
                  /\ \A p \in Keys : p.source < k.source => work[p].status \notin Live}

Leased(work) == [work EXCEPT !.status = "PROCESSING", !.owner = Identity, !.due = FALSE]
Holding(work, k) == work[k].status = "PROCESSING" /\ work[k].owner = Identity

ClaimEvaluations(c) ==
    LET batch == ClaimableIn(evaluation)
    IN  /\ cycle[c].phase = "claimEvaluations"
        /\ evaluation' = [k \in Keys |-> IF k \in batch THEN Leased(evaluation[k]) ELSE evaluation[k]]
        /\ cycle' = [cycle EXCEPT ![c].batch = batch,
               ![c].phase = IF batch = {} THEN "claimDeliveries" ELSE "evaluating"]
        /\ UNCHANGED <<revision, signalled, settings, delivery, channel, history, left>>

\* The next of a batch in the order of the source revisions.
InTurn(c, k) == k \in cycle[c].batch /\ \A b \in cycle[c].batch : k.source <= b.source

\* loadGame answers the revision it has seen, or fails, now or for good.
LoadGame(c) ==
    /\ cycle[c].phase = "evaluating" /\ ~cycle[c].aborted
    /\ \E k \in Keys, result \in {"RETRYABLE", "TERMINAL", "CURRENT"} :
        /\ InTurn(c, k)
        /\ cycle' = [cycle EXCEPT ![c].phase = "loaded", ![c].current = k, ![c].batch = @ \ {k},
               ![c].result = IF result = "CURRENT" THEN revision
                             ELSE IF result = "TERMINAL" THEN -1 ELSE 0]
    /\ UNCHANGED <<revision, signalled, settings, rows, channel, history, left>>

Continue(c, loop, after) ==
    cycle' = [cycle EXCEPT ![c] = [@ EXCEPT !.current = None, !.result = None,
        !.phase = IF cycle[c].batch = {} THEN after ELSE loop]]

Retried(work, terminal) ==
    LET attempts == work.attempts + 1
        dead == terminal \/ attempts >= MaxAttempts
    IN  [status |-> IF dead THEN "DEAD_LETTER" ELSE "PENDING", attempts |-> attempts,
         owner |-> None, due |-> FALSE]

FailEvaluation(c) ==
    LET k == cycle[c].current
    IN  /\ cycle[c].phase = "loaded" /\ cycle[c].result < 1
        /\ evaluation' = IF Holding(evaluation, k)
               THEN [evaluation EXCEPT ![k] = Retried(@, cycle[c].result = -1)] ELSE evaluation
        /\ Continue(c, "evaluating", "claimDeliveries")
        /\ UNCHANGED <<revision, signalled, settings, delivery, channel, history, left>>

\* The last delivery that succeeded, of those at these keys.
Latest(among) ==
    {k \in among : /\ delivery[k].work.status = "SUCCEEDED"
                   /\ \A o \in among : delivery[o].work.status = "SUCCEEDED" => o.source <= k.source}

Edits(trigger) ==
    \/ settings.strategy = "EDIT_LIVE_MESSAGE"
    \/ settings.strategy = "FINAL_ONLY" /\ trigger # "GAME_CORRECTED"

\* planDiscordGameUpdate and the operation made of its plan.
Operation(trigger, snapshot, published) ==
    LET corrects == trigger = "GAME_CORRECTED" /\ (published \/ snapshot >= FinalAt)
    IN  IF settings.strategy = "FINAL_ONLY" /\ trigger # "GAME_COMPLETED" /\ ~corrects THEN "WAIT"
        ELSE IF ~published THEN "CREATE"
        ELSE IF Edits(trigger) THEN "EDIT" ELSE "APPEND"

\* completeEvaluation.
CompleteEvaluation(c) ==
    LET k == cycle[c].current
        current == settings.enabled /\ settings.revision = k.settings
        latest == Latest(Keys)
        operation == Operation(k.trigger, cycle[c].result, latest # {})
        planned(previous) ==
            [work |-> Work("PENDING"), operation |-> operation,
             target |-> IF operation = "EDIT" THEN delivery[previous].message ELSE None,
             message |-> None, content |-> cycle[c].result]
    IN  /\ cycle[c].phase = "loaded" /\ cycle[c].result > 0
        /\ Continue(c, "evaluating", "claimDeliveries")
        /\ IF ~Holding(evaluation, k) THEN UNCHANGED <<evaluation, delivery, settings>>
           ELSE IF ~current
           THEN /\ evaluation' = [evaluation EXCEPT ![k].status = "CANCELLED", ![k].owner = None]
                /\ UNCHANGED <<delivery, settings>>
           ELSE /\ evaluation' = [evaluation EXCEPT
                       ![k].status = "SUCCEEDED", ![k].attempts = @ + 1, ![k].owner = None]
                /\ settings' = [settings EXCEPT !.refresh = FALSE, !.slot = NextSlot(FALSE)]
                /\ IF operation = "WAIT" \/ delivery[k].work.status # "ABSENT" THEN UNCHANGED delivery
                   ELSE \E previous \in IF latest = {} THEN {k} ELSE latest :
                            delivery' = [delivery EXCEPT ![k] = planned(previous)]
        /\ UNCHANGED <<revision, signalled, channel, history, left>>
-----------------------------------------------------------------------------
(* deliverBatch.                                                           *)

DeliveryWork == [k \in Keys |-> delivery[k].work]

\* (Mutant: the operation planned by the evaluation stands.)
AimedAsPlanned(k) == {[delivery[k] EXCEPT !.work = Leased(@)]}

\* claimDeliveries aims a delivery at the message of the latest earlier success.
Aimed(k) ==
    LET earlier == Latest({o \in Keys : o.source < k.source})
        claimed == [delivery[k] EXCEPT !.work = Leased(@)]
    IN  IF earlier = {} THEN {claimed}
        ELSE IF Edits(k.trigger)
        THEN {[claimed EXCEPT !.operation = "EDIT", !.target = delivery[o].message] : o \in earlier}
        ELSE {[claimed EXCEPT !.operation = "APPEND", !.target = None]}

\* What a claimed delivery writes: the message of its target, or a message of its own.
Message(k, row) == [edit |-> row.operation = "EDIT", id |-> IF row.operation = "EDIT" THEN row.target ELSE k]

ClaimDeliveries(c) ==
    LET batch == ClaimableIn(DeliveryWork)
    IN  /\ cycle[c].phase = "claimDeliveries"
        /\ \E aim \in [batch -> UNION {Aimed(k) : k \in batch}] :
            /\ \A k \in batch : aim[k] \in Aimed(k)
            /\ delivery' = [k \in Keys |-> IF k \in batch THEN aim[k] ELSE delivery[k]]
            /\ cycle' = IF batch = {} THEN [cycle EXCEPT ![c] = Idle] ELSE
                   [cycle EXCEPT ![c].batch = batch, ![c].phase = "delivering",
                                 ![c].aim = [k \in batch |-> Message(k, aim[k])]]
        /\ UNCHANGED <<revision, signalled, settings, evaluation, channel, history, left>>

Attempted(k, work, message) ==
    [delivery EXCEPT ![k].work = work, ![k].message = message]

Finished(c) == IF cycle[c].batch = {} THEN [cycle EXCEPT ![c] = Idle]
               ELSE [cycle EXCEPT ![c] = [@ EXCEPT !.current = None, !.result = None, !.phase = "delivering"]]

\* deliveryIsCurrent, and cancelDelivery when it is not: a delivery whose lease is
\* lost, or that was planned for other settings, is not sent.
CheckDelivery(c) ==
    /\ cycle[c].phase = "delivering" /\ ~cycle[c].aborted
    /\ \E k \in Keys :
        /\ InTurn(c, k)
        /\ cycle' = [cycle EXCEPT ![c].phase = "checked", ![c].current = k, ![c].batch = @ \ {k},
               ![c].result = /\ Holding(DeliveryWork, k)
                             /\ settings.enabled /\ settings.revision = k.settings]
    /\ UNCHANGED <<revision, signalled, settings, rows, channel, history, left>>

CancelDelivery(c) ==
    LET k == cycle[c].current
    IN  /\ cycle[c].phase = "checked" /\ cycle[c].result = FALSE
        /\ delivery' = IF ~Holding(DeliveryWork, k) THEN delivery ELSE
               Attempted(k, [delivery[k].work EXCEPT !.status = "CANCELLED", !.attempts = @ + 1, !.owner = None], None)
        /\ cycle' = Finished(c)
        /\ UNCHANGED <<revision, signalled, settings, evaluation, channel, history, left>>

\* The nonce of a create or an append is the delivery's id: sent again, it is the
\* same message.
Send(c) ==
    LET k == cycle[c].current
        to == cycle[c].aim[k]
    IN  /\ cycle[c].phase = "checked" /\ cycle[c].result = TRUE
        /\ \E result \in {"SUCCEEDED", "LOST", "RETRYABLE", "TERMINAL"} :
            /\ cycle' = [cycle EXCEPT ![c].phase = "sent", ![c].result = result]
            /\ channel' = IF result \in {"RETRYABLE", "TERMINAL"} \/ (~to.edit /\ channel[to.id] > 0)
                          THEN channel ELSE [channel EXCEPT ![to.id] = delivery[k].content]
        /\ UNCHANGED <<revision, signalled, settings, rows, history, left>>

CompleteAttempt(c) ==
    LET k == cycle[c].current
        work == delivery[k].work
    IN  /\ cycle[c].phase = "sent"
        /\ delivery' = IF ~Holding(DeliveryWork, k) THEN delivery
               ELSE IF cycle[c].result = "SUCCEEDED"
               THEN Attempted(k, [work EXCEPT !.status = "SUCCEEDED", !.attempts = @ + 1, !.owner = None], cycle[c].aim[k].id)
               ELSE Attempted(k, Retried(work, cycle[c].result = "TERMINAL"), None)
        /\ cycle' = Finished(c)
        /\ UNCHANGED <<revision, signalled, settings, evaluation, channel, history, left>>
-----------------------------------------------------------------------------
(* Aborts, crashes and time.                                               *)

\* The scheduler's timeout: the request's signal is aborted.
Abort(c) ==
    /\ cycle[c].phase # "idle" /\ ~cycle[c].aborted
    /\ Spend("aborts")
    /\ cycle' = [cycle EXCEPT ![c].aborted = TRUE]
    /\ UNCHANGED <<revision, signalled, settings, rows, channel, history>>

\* (Mutant: the lease owner is not cleared.)
ReleasedOwned(work, k) == IF Holding(work, k)
    THEN [work[k] EXCEPT !.status = "PENDING", !.due = TRUE] ELSE work[k]

Released(work, k) == IF Holding(work, k)
    THEN [work[k] EXCEPT !.status = "PENDING", !.owner = None, !.due = TRUE] ELSE work[k]

\* releaseEvaluationClaims and releaseDeliveryClaims, at the head of the loop.
Release(c) ==
    /\ cycle[c].aborted
    /\ \/ /\ cycle[c].phase = "evaluating"
          /\ evaluation' = [k \in Keys |-> IF k \in cycle[c].batch THEN Released(evaluation, k) ELSE evaluation[k]]
          /\ cycle' = [cycle EXCEPT ![c].phase = "claimDeliveries", ![c].batch = {}]
          /\ UNCHANGED delivery
       \/ /\ cycle[c].phase = "delivering"
          /\ delivery' = [k \in Keys |-> IF k \in cycle[c].batch
                 THEN [delivery[k] EXCEPT !.work = Released(DeliveryWork, k)] ELSE delivery[k]]
          /\ cycle' = [cycle EXCEPT ![c] = Idle]
          /\ UNCHANGED evaluation
    /\ UNCHANGED <<revision, signalled, settings, channel, history, left>>

Crash(c) ==
    /\ cycle[c].phase # "idle"
    /\ Spend("crashes")
    /\ cycle' = [cycle EXCEPT ![c] = Idle]
    /\ UNCHANGED <<revision, signalled, settings, rows, channel, history>>

Waits(work) == work.status \in Live /\ ~work.due
Held(phases, k) == \E c \in Cycles : /\ cycle[c].phase \in phases
                                     /\ k \in cycle[c].batch \cup {cycle[c].current}
Expire(work, phases, k) ==
    /\ Waits(work)
    /\ IF work.status = "PROCESSING" /\ Held(phases, k)
       THEN Spend("stalls") /\ history' = [history EXCEPT !.onTime = FALSE]
       ELSE UNCHANGED <<left, history>>

RipenSlot ==
    /\ settings.slot = "waiting"
    /\ settings' = [settings EXCEPT !.slot = "due"]
    /\ UNCHANGED <<revision, signalled, rows, cycle, channel, history, left>>

RipenEvaluation(k) ==
    /\ Expire(evaluation[k], {"evaluating", "loaded"}, k)
    /\ evaluation' = [evaluation EXCEPT ![k].due = TRUE]
    /\ UNCHANGED <<revision, signalled, settings, delivery, cycle, channel>>

RipenDelivery(k) ==
    /\ Expire(delivery[k].work, {"delivering", "checked", "sent"}, k)
    /\ delivery' = [delivery EXCEPT ![k].work.due = TRUE]
    /\ UNCHANGED <<revision, signalled, settings, evaluation, cycle, channel>>
-----------------------------------------------------------------------------
Init ==
    /\ revision = 0 /\ signalled = {}
    /\ \E s \in Scenarios :
        /\ settings = [revision |-> 1, enabled |-> TRUE, refresh |-> FALSE,
               strategy |-> s.strategy, cadence |-> s.cadence,
               slot |-> IF s.cadence = "FIXED_INTERVAL" THEN "waiting" ELSE "none"]
        /\ left = s.bound
    /\ evaluation = [k \in Keys |-> Work("ABSENT")]
    /\ delivery = [k \in Keys |-> NoDelivery]
    /\ cycle = [c \in Cycles |-> Idle]
    /\ channel = [k \in Keys |-> 0]
    /\ history = [inOrder |-> TRUE, onTime |-> TRUE]

Proceed(c) == \/ StartCycle(c) \/ ClaimEvaluations(c) \/ LoadGame(c) \/ FailEvaluation(c)
              \/ CompleteEvaluation(c) \/ ClaimDeliveries(c) \/ CheckDelivery(c)
              \/ CancelDelivery(c) \/ Send(c) \/ CompleteAttempt(c) \/ Release(c)

Next == \/ Accept \/ (\E g \in Signals : Signal(g)) \/ WriteSettings \/ RequestRefresh
        \/ \E c \in Cycles : Proceed(c) \/ Abort(c) \/ Crash(c)
        \/ RipenSlot
        \/ \E k \in Keys : RipenEvaluation(k) \/ RipenDelivery(k)

Spec == Init /\ [][Next]_vars

\* The scheduler calls again, a call goes on, and time passes.
Fairness ==
    /\ \A c \in Cycles : WF_vars(Proceed(c))
    /\ WF_vars(RipenSlot)
    /\ WF_vars(\E k \in Keys : (RipenEvaluation(k) \/ RipenDelivery(k)) /\ UNCHANGED left)
FairSpec == Spec /\ Fairness
-----------------------------------------------------------------------------
\* The rows fit the checks of the migration: a lease exactly while PROCESSING, a
\* target exactly for an edit, a message exactly for a success.
TypeOK ==
    /\ revision \in 0 .. MaxRevision /\ signalled \subseteq Signals
    /\ \A k \in Keys : \A work \in {evaluation[k], delivery[k].work} :
        /\ work.status \in Live \cup {"SUCCEEDED", "DEAD_LETTER", "CANCELLED", "ABSENT"}
        /\ work.attempts \in 0 .. MaxAttempts
        /\ work.status = "PROCESSING" <=> work.owner # None
    /\ \A k \in Keys :
        /\ delivery[k].operation = "EDIT" <=> delivery[k].target # None
        /\ delivery[k].work.status = "SUCCEEDED" <=> delivery[k].message # None
        /\ delivery[k].work.status # "ABSENT" => evaluation[k].status = "SUCCEEDED"
    /\ channel \in [Keys -> 0 .. MaxRevision]

Messages == {k \in Keys : channel[k] > 0}
Forgotten(k) == delivery[k].work.status \in {"DEAD_LETTER", "CANCELLED"}

\* While evaluations are enqueued in the order of the revisions, one trigger each, a
\* game edited live has one message in the channel, whatever overlaps, stalls, loses
\* its answer or is tried again: a second is only created when the delivery that
\* posted the first was given up or cancelled without learning of it.
OneLiveMessage ==
    settings.strategy = "EDIT_LIVE_MESSAGE" /\ history.inOrder
    => Cardinality({k \in Messages : ~Forgotten(k)}) <= 1

\* The rows and the channel: well formed, and one live message.
MessagesHold == TypeOK /\ OneLiveMessage

\* While no lease expires under a working holder, a message is never edited back to
\* an earlier state of the game, and a later message never shows an earlier state
\* than one before it did.
ContentAdvances ==
    [][history.onTime /\ history.inOrder => \A k \in Keys :
        /\ channel'[k] >= channel[k]
        /\ channel'[k] # channel[k] => \A m \in Messages : channel[m] <= channel'[k]]_vars

\* In the end every evaluation that was enqueued is answered, whatever dies, overlaps or
\* is given up: the channel shows its revision or a later one, or the failure is on
\* record as a dead letter, or the work was cancelled for other settings or a later
\* revision, or a final message is awaited.
SignalAnswered ==
    <>[](\A k \in Keys :
        evaluation[k].status # "ABSENT" =>
            \/ \E m \in Keys : channel[m] >= k.source
            \/ evaluation[k].status \in {"DEAD_LETTER", "CANCELLED"}
            \/ Forgotten(k)
            \/ settings.strategy = "FINAL_ONLY" /\ evaluation[k].status = "SUCCEEDED")
=============================================================================
