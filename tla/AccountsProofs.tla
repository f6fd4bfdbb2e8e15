---------------------------- MODULE AccountsProofs ----------------------------
(***************************************************************************)
(* Proofs about what accounts keep beside their games.  The queues: of     *)
(* webhooks and notifications, for any endpoints, events, workers and      *)
(* recipients and any number of crashes and leases that run out.  The      *)
(* rest of an account: deletion requests and exports, leagues and their    *)
(* results, the administration of Discord, set-up forms, authorization,    *)
(* delegation and the creation of leagues, for any number of requests,     *)
(* teams, administrators, rows and tabs.  None shares state with another,  *)
(* so each has its invariant.                                              *)
(***************************************************************************)
EXTENDS MCQueues, MCAccounts, Integers, FiniteSetTheorems, SequenceTheorems, TLAPS

-----------------------------------------------------------------------------
(* The invariant of the webhook queue *)

Rows == [status : {"ABSENT", "PENDING", "PROCESSING", "SUCCEEDED", "DEAD_LETTER", "CANCELLED"},
         attempts : Nat, owner : {Identity[w] : w \in Invocations} \cup {None},
         due : BOOLEAN, cancelled : BOOLEAN]
Attempts == [number : Nat, outcome : W!Outcomes]
Enqueues == [phase : {"new", "open", "sent", "again"}, targets : SUBSET Endpoints]
WorkerStates ==
    [phase : {"idle", "next", "posting", "posted", "writing"}, batch : SUBSET W!Deliveries,
     current : W!Deliveries \cup {None}, outcome : W!Outcomes, read : Nat]

WebhookTypes ==
    /\ endpoint \in [Endpoints -> {"PENDING_VERIFICATION", "ACTIVE", "REVOKED"}]
    /\ closing \in SUBSET Endpoints /\ locked \in SUBSET W!Deliveries
    /\ enqueue \in [W!Events -> Enqueues]
    /\ sequence \in [W!Events -> Nat]
    /\ delivery \in [W!Deliveries -> Rows]
    /\ attempt \in [W!Deliveries -> SUBSET Attempts]
    /\ worker \in [Invocations -> WorkerStates]
    /\ replays \in SUBSET W!Deliveries

\* Events are numbered in the order in which transactions open, and a writer opens one
\* after its earlier ones are committed.
Numbered == {e \in W!Events : sequence[e] > 0}
Started(e) == enqueue[e].phase # "new"
EventsInOrder ==
    /\ IsFiniteSet(Numbered)
    /\ \A e \in W!Events :
        /\ Started(e) <=> sequence[e] > 0
        /\ sequence[e] <= Cardinality(Numbered)
        /\ enqueue[e].phase = "again" => e \in Republished
        /\ Started(e) => \A f \in W!Events :
               W!Before(f, e) => W!Visible(f) /\ sequence[f] < sequence[e]

\* What a row says of the transactions behind it, and of what was posted.
RowSound(d) ==
    /\ delivery[d].status # "ABSENT" => W!Visible(d.event)
    /\ delivery[d].status = "ABSENT" => delivery[d].attempts = 0
    /\ delivery[d].status = "CANCELLED" => endpoint[d.endpoint] = "REVOKED"
    /\ delivery[d].status \in {"SUCCEEDED", "DEAD_LETTER"} => d \in posted
    /\ d \in locked => delivery[d].status \in W!Live
    /\ d \in replays => delivery[d].status = "ABSENT" /\ d.replay > 0 /\ W!Visible(d.event)

\* The attempts of a delivery are numbered without a gap, and end with its status.
AttemptsSound(d) ==
    /\ {a.number : a \in attempt[d]} = 1 .. delivery[d].attempts
    /\ IsFiniteSet(attempt[d]) /\ Cardinality(attempt[d]) = delivery[d].attempts
    /\ \A a \in attempt[d] :
        /\ a.outcome = "SUCCEEDED"
               <=> delivery[d].status = "SUCCEEDED" /\ a.number = delivery[d].attempts
        /\ a.outcome = "TERMINAL"
               <=> delivery[d].status = "DEAD_LETTER" /\ a.number = delivery[d].attempts

\* What was to reach the endpoint before it has been posted, or never will be.
Preceded(d) ==
    \A c \in W!Deliveries :
        /\ c.replay = 0 /\ c.endpoint = d.endpoint
        /\ W!Before(c.event, d.event) /\ c.event \notin Republished
        /\ delivery[c].status # "ABSENT"
        => c \in posted

\* What a worker holds is there, and was at the head of its endpoint when claimed.
Takes(w, d) ==
    \/ d \in worker[w].batch
    \/ worker[w].phase \in {"posting", "posted", "writing"} /\ d = worker[w].current
HoldingSound(w) ==
    /\ \A d \in W!Deliveries :
           Takes(w, d) => delivery[d].status # "ABSENT" /\ (d.replay = 0 => Preceded(d))
    /\ worker[w].phase \in {"posting", "posted", "writing"} => worker[w].current \in W!Deliveries
    /\ worker[w].phase \in {"posted", "writing"} => worker[w].current \in posted
    /\ worker[w].phase = "writing" =>
           LET row == delivery[worker[w].current]
           IN  /\ worker[w].read <= row.attempts
               /\ worker[w].read = row.attempts => row.status \in W!Live \cup {"CANCELLED"}

PostedSound ==
    /\ posted \in SUBSET W!Deliveries
    /\ \A d \in posted : delivery[d].status # "ABSENT" /\ (d.replay = 0 => Preceded(d))

WebhookInv ==
    /\ WebhookTypes /\ EventsInOrder /\ PostedSound
    /\ \A d \in W!Deliveries : RowSound(d) /\ AttemptsSound(d)
    /\ \A w \in Invocations : HoldingSound(w)

-----------------------------------------------------------------------------
(* Webhooks: steps that leave something alone *)

LEMMA SameCount == \A T : W!Cardinality(T) = Cardinality(T)
  BY DEF W!Cardinality, Cardinality, W!IsFiniteSet, IsFiniteSet

\* A row appears only where it can no longer be overtaken.
Appears(c, d) ==
    /\ delivery[c].status = "ABSENT" /\ delivery'[c].status # "ABSENT"
    /\ c.replay = 0 /\ W!Before(c.event, d.event) /\ c.event \notin Republished

LEMMA PrecededStays ==
    ASSUME NEW d, Preceded(d), posted \subseteq posted', \A c \in W!Deliveries : ~Appears(c, d)
    PROVE  Preceded(d)'
  BY DEF Preceded, Appears

LEMMA EventsStay ==
    ASSUME EventsInOrder, enqueue' = enqueue, sequence' = sequence
    PROVE  EventsInOrder'
  BY DEF EventsInOrder, Numbered, Started, W!Visible

Settled == {"SUCCEEDED", "DEAD_LETTER"}
LEMMA AttemptsStay ==
    ASSUME NEW d, AttemptsSound(d), attempt'[d] = attempt[d],
           delivery'[d].attempts = delivery[d].attempts,
           delivery'[d].status = delivery[d].status
           \/ (delivery'[d].status \notin Settled /\ delivery[d].status \notin Settled)
    PROVE  AttemptsSound(d)'
  BY DEF AttemptsSound, Settled

\* How a row may change under a worker that holds it.
RowMoves(d) ==
    /\ delivery[d].status # "ABSENT" => delivery'[d].status # "ABSENT"
    /\ \/ delivery'[d].attempts = delivery[d].attempts
          /\ \/ delivery'[d].status = delivery[d].status
             \/ delivery'[d].status \in W!Live \cup {"CANCELLED"}
       \/ delivery'[d].attempts > delivery[d].attempts

LEMMA HoldingStays ==
    ASSUME WebhookTypes, WebhookTypes', NEW w \in Invocations, HoldingSound(w), worker'[w] = worker[w],
           posted \subseteq posted', \A d \in W!Deliveries : RowMoves(d),
           \A c, d \in W!Deliveries : Takes(w, d) => ~Appears(c, d)
    PROVE  HoldingSound(w)'
  <1>1. ASSUME NEW d \in W!Deliveries, Takes(w, d)'
        PROVE  delivery'[d].status # "ABSENT" /\ (d.replay = 0 => Preceded(d)')
    <2>1. Takes(w, d)
      BY <1>1 DEF Takes
    <2> QED
      BY <2>1, PrecededStays DEF HoldingSound, RowMoves
  <1>2. worker[w].phase = "writing" =>
           LET row == delivery'[worker[w].current]
           IN  /\ worker[w].read <= row.attempts
               /\ worker[w].read = row.attempts => row.status \in W!Live \cup {"CANCELLED"}
    <2>1. SUFFICES ASSUME worker[w].phase = "writing"
                   PROVE  LET row == delivery'[worker[w].current]
                          IN  /\ worker[w].read <= row.attempts
                              /\ worker[w].read = row.attempts => row.status \in W!Live \cup {"CANCELLED"}
      OBVIOUS
    <2>2. PICK d \in W!Deliveries : d = worker[w].current
      BY <2>1 DEF HoldingSound
    <2>3. /\ delivery[d].attempts \in Nat /\ delivery'[d].attempts \in Nat /\ worker[w].read \in Nat
          /\ worker[w].read <= delivery[d].attempts
          /\ worker[w].read = delivery[d].attempts => delivery[d].status \in W!Live \cup {"CANCELLED"}
      BY <2>1, <2>2 DEF HoldingSound, WebhookTypes, Rows, WorkerStates
    <2>4. RowMoves(d)
      OBVIOUS
    <2> QED
      BY <2>2, <2>3, <2>4 DEF RowMoves
  <1>3. worker[w].phase \in {"posted", "writing"} => worker[w].current \in posted'
    BY DEF HoldingSound
  <1>4. worker[w].phase \in {"posting", "posted", "writing"} => worker[w].current \in W!Deliveries
    BY DEF HoldingSound
  <1> QED
    BY <1>1, <1>2, <1>3, <1>4 DEF HoldingSound, Takes

LEMMA PostedStays ==
    ASSUME PostedSound, posted' = posted, \A d \in W!Deliveries : RowMoves(d),
           \A c, d \in W!Deliveries : delivery[d].status # "ABSENT" => ~Appears(c, d)
    PROVE  PostedSound'
  <1>1. ASSUME NEW d \in posted PROVE delivery'[d].status # "ABSENT" /\ (d.replay = 0 => Preceded(d)')
    <2>1. d \in W!Deliveries /\ delivery[d].status # "ABSENT" /\ (d.replay = 0 => Preceded(d))
      BY DEF PostedSound
    <2> QED
      BY <2>1, PrecededStays DEF RowMoves
  <1> QED
    BY <1>1 DEF PostedSound

-----------------------------------------------------------------------------
(* Webhooks: transactions that enqueue *)

LEMMA OpenEnqueueKeeps ==
    ASSUME QueuesAssumption, WebhookInv, NEW e \in W!Events, W!OpenEnqueue(e)
    PROVE  WebhookInv'
  <1> USE DEF WebhookInv
  <1>1. WebhookTypes'
    <2>1. W!NextSequence \in Nat
      BY SameCount, FS_CardinalityType DEF W!NextSequence, EventsInOrder, Numbered
    <2>2. W!ActiveEndpoints \in SUBSET Endpoints
      BY DEF W!ActiveEndpoints
    <2>3. sequence' \in [W!Events -> Nat]
      BY <2>1 DEF W!OpenEnqueue, WebhookTypes
    <2>4. enqueue' \in [W!Events -> Enqueues]
      BY <2>2 DEF W!OpenEnqueue, WebhookTypes, Enqueues
    <2> QED
      BY <2>3, <2>4 DEF W!OpenEnqueue, WebhookTypes
  <1>2. /\ \A f \in W!Events : f # e => enqueue'[f] = enqueue[f] /\ sequence'[f] = sequence[f]
        /\ enqueue[e].phase = "new" => enqueue'[e].phase = "open" /\ sequence'[e] = W!NextSequence
        /\ enqueue[e].phase # "new" => /\ enqueue'[e].phase = "again" /\ sequence'[e] = sequence[e]
                                       /\ enqueue[e].phase = "sent" /\ e \in Republished
    <2>1. /\ enqueue[e].phase # "new" => enqueue[e].phase = "sent" /\ e \in Republished
          /\ Started(e) <=> sequence[e] > 0
          /\ sequence[e] \in Nat
      BY DEF W!OpenEnqueue, EventsInOrder, WebhookTypes
    <2> QED
      BY <2>1 DEF W!OpenEnqueue, WebhookTypes, Started
  <1>3. \A f \in W!Events : W!Visible(f) => W!Visible(f)'
    BY <1>2 DEF W!Visible
  <1>4. EventsInOrder'
    <2>1. CASE enqueue[e].phase # "new"
      <3>1. sequence' = sequence
        BY <1>1, <1>2, <2>1 DEF WebhookTypes
      <3>2. \A f \in W!Events : Started(f)' <=> Started(f)
        BY <1>2, <2>1 DEF Started
      <3> QED
        BY <1>2, <1>3, <2>1, <3>1, <3>2 DEF EventsInOrder, Numbered
    <2>2. CASE enqueue[e].phase = "new"
      <3>1. e \notin Numbered /\ IsFiniteSet(Numbered) /\ Cardinality(Numbered) \in Nat
        BY <2>2, FS_CardinalityType DEF EventsInOrder, Numbered, Started
      <3>2. sequence'[e] = Cardinality(Numbered) + 1
        BY <1>2, <2>2, SameCount DEF W!NextSequence, Numbered
      <3>3. Numbered' = Numbered \cup {e}
        BY <1>2, <3>1, <3>2 DEF Numbered
      <3>4. IsFiniteSet(Numbered') /\ Cardinality(Numbered') = Cardinality(Numbered) + 1
        BY <3>1, <3>3, FS_AddElement
      <3>5. \A f \in W!Events : W!Before(f, e) => W!Visible(f) /\ f # e
        BY <2>2 DEF W!OpenEnqueue, W!Visible
      <3>6. ASSUME NEW g \in W!Events
            PROVE  /\ Started(g)' <=> sequence'[g] > 0
                   /\ sequence'[g] <= Cardinality(Numbered')
                   /\ enqueue'[g].phase = "again" => g \in Republished
                   /\ Started(g)' => \A f \in W!Events :
                          W!Before(f, g) => W!Visible(f)' /\ sequence'[f] < sequence'[g]
        <4>1. sequence[g] \in Nat /\ \A f \in W!Events : sequence[f] \in Nat
          BY DEF WebhookTypes
        <4>2. CASE g = e
          <5>1. ASSUME NEW f \in W!Events, W!Before(f, e) PROVE W!Visible(f)' /\ sequence'[f] < sequence'[e]
            <6>1. W!Visible(f) /\ f # e /\ sequence[f] <= Cardinality(Numbered)
              BY <3>5, <5>1 DEF EventsInOrder
            <6> QED
              BY <1>2, <1>3, <3>1, <3>2, <4>1, <6>1
          <5> QED
            BY <1>2, <2>2, <3>1, <3>2, <3>4, <4>2, <5>1 DEF Started
        <4>3. CASE g # e
          <5>1. /\ Started(g)' <=> Started(g)
                /\ sequence'[g] = sequence[g]
                /\ sequence[g] <= Cardinality(Numbered)
                /\ enqueue'[g].phase = enqueue[g].phase
            BY <1>2, <4>3 DEF Started, EventsInOrder
          <5>2. ASSUME NEW f \in W!Events, Started(g), W!Before(f, g)
                PROVE  W!Visible(f)' /\ sequence'[f] < sequence'[g]
            <6>1. W!Visible(f) /\ sequence[f] < sequence[g]
              BY <5>2 DEF EventsInOrder
            <6>2. f # e
              BY <2>2, <6>1 DEF W!Visible
            <6> QED
              BY <1>2, <1>3, <5>1, <6>1, <6>2
          <5>3. sequence'[g] <= Cardinality(Numbered')
            BY <3>1, <3>4, <4>1, <5>1
          <5>4. /\ Started(g) <=> sequence[g] > 0
                /\ enqueue[g].phase = "again" => g \in Republished
            BY DEF EventsInOrder
          <5> QED
            BY <5>1, <5>2, <5>3, <5>4
        <4> QED
          BY <4>2, <4>3
      <3> QED
        BY <3>4, <3>6 DEF EventsInOrder
    <2> QED
      BY <2>1, <2>2
  <1>5. \A d \in W!Deliveries : d.event \in W!Events
    BY DEF W!Deliveries
  <1>6. UNCHANGED <<endpoint, closing, locked, delivery, attempt, worker, posted, replays>>
    BY DEF W!OpenEnqueue
  <1>7. \A d \in W!Deliveries : RowSound(d)'
    BY <1>3, <1>5, <1>6 DEF RowSound
  <1>8. \A d \in W!Deliveries : AttemptsSound(d)'
    BY <1>6 DEF AttemptsSound
  <1>9. PostedSound' /\ \A w \in Invocations : HoldingSound(w)'
    BY <1>6 DEF PostedSound, HoldingSound, Preceded, Takes
  <1> QED
    BY <1>1, <1>4, <1>7, <1>8, <1>9

\* A step that neither posts nor records changes rows in this way only.
RowQuiet(d) ==
    /\ delivery'[d].attempts = delivery[d].attempts
    /\ \/ delivery'[d].status = delivery[d].status
       \/ /\ delivery[d].status \notin Settled
          /\ delivery'[d].status \in W!Live \cup {"CANCELLED"}

LEMMA QuietStep ==
    ASSUME WebhookInv, WebhookTypes', EventsInOrder',
           \A w \in Invocations : worker'[w] = worker[w] \/ HoldingSound(w)',
           posted' = posted, attempt' = attempt,
           \A d \in W!Deliveries : RowQuiet(d) /\ RowSound(d)',
           \A c, d \in W!Deliveries : delivery[d].status # "ABSENT" => ~Appears(c, d)
    PROVE  WebhookInv'
  <1>1. \A d \in W!Deliveries : RowMoves(d)
    BY DEF RowQuiet, RowMoves, W!Live
  <1>2. ASSUME NEW d \in W!Deliveries PROVE AttemptsSound(d)'
    <2>1. RowQuiet(d) /\ AttemptsSound(d)
      BY DEF WebhookInv
    <2>2. delivery'[d].status = delivery[d].status
          \/ (delivery'[d].status \notin Settled /\ delivery[d].status \notin Settled)
      BY <2>1 DEF RowQuiet, Settled, W!Live
    <2>3. delivery'[d].attempts = delivery[d].attempts
      BY <2>1 DEF RowQuiet
    <2> QED
      BY <2>1, <2>2, <2>3, AttemptsStay
  <1>3. ASSUME NEW w \in Invocations PROVE HoldingSound(w)'
    <2>1. HoldingSound(w) /\ WebhookTypes
      BY DEF WebhookInv
    <2>2. \A c, d \in W!Deliveries : Takes(w, d) => ~Appears(c, d)
      BY <2>1 DEF HoldingSound
    <2> QED
      BY <1>1, <2>1, <2>2, HoldingStays
  <1>4. PostedSound'
    BY <1>1, PostedStays DEF WebhookInv
  <1> QED
    BY <1>2, <1>3, <1>4 DEF WebhookInv

LEMMA CommitEnqueueKeeps ==
    ASSUME QueuesAssumption, WebhookInv, NEW e \in W!Events, W!CommitEnqueue(e)
    PROVE  WebhookInv'
  <1> USE DEF WebhookInv
  <1>1. /\ enqueue[e].phase \in {"open", "again"}
        /\ enqueue' = [enqueue EXCEPT ![e] = [phase |-> "sent", targets |-> {}]]
        /\ UNCHANGED <<endpoint, closing, locked, sequence, attempt, worker, posted, replays>>
    BY DEF W!CommitEnqueue
  <1>2. ASSUME NEW d \in W!Deliveries
        PROVE  \/ delivery'[d] = delivery[d]
               \/ /\ d.event = e /\ d.replay = 0 /\ delivery[d].status = "ABSENT"
                  /\ delivery'[d] = W!Row("PENDING")
    BY DEF W!CommitEnqueue, W!Absent
  <1>3. WebhookTypes'
    <2>1. W!Row("PENDING") \in Rows
      BY DEF W!Row, Rows
    <2>2. delivery' \in [W!Deliveries -> Rows]
      BY <2>1 DEF W!CommitEnqueue, WebhookTypes
    <2>3. enqueue' \in [W!Events -> Enqueues]
      BY <1>1 DEF WebhookTypes, Enqueues
    <2> QED
      BY <1>1, <2>2, <2>3 DEF WebhookTypes
  <1>4. /\ \A f \in W!Events : f # e => enqueue'[f] = enqueue[f]
        /\ enqueue'[e].phase = "sent"
    BY <1>1 DEF WebhookTypes
  <1>5. /\ \A f \in W!Events : W!Visible(f) => W!Visible(f)'
        /\ \A f \in W!Events : Started(f)' <=> Started(f)
        /\ W!Visible(e)'
    BY <1>1, <1>4 DEF W!Visible, Started
  <1>6. EventsInOrder'
    BY <1>1, <1>4, <1>5 DEF EventsInOrder, Numbered
  <1>7. ASSUME NEW d \in W!Deliveries PROVE RowQuiet(d) /\ RowSound(d)'
    <2>1. RowSound(d) /\ d.event \in W!Events
      BY DEF W!Deliveries
    <2>2. CASE delivery'[d] = delivery[d]
      BY <1>1, <1>5, <2>1, <2>2 DEF RowSound, RowQuiet
    <2>3. CASE /\ d.event = e /\ d.replay = 0 /\ delivery[d].status = "ABSENT"
               /\ delivery'[d] = W!Row("PENDING")
      BY <1>1, <1>5, <2>1, <2>3 DEF RowSound, RowQuiet, W!Row, Settled, W!Live
    <2> QED
      BY <1>2, <2>2, <2>3
  <1>8. ASSUME NEW c \in W!Deliveries, NEW d \in W!Deliveries, delivery[d].status # "ABSENT",
               Appears(c, d)
        PROVE  FALSE
    <2>1. c.event = e /\ enqueue[e].phase = "open" /\ W!Before(e, d.event)
      BY <1>1, <1>2, <1>8 DEF Appears, EventsInOrder
    <2>2. Started(d.event) /\ d.event \in W!Events
      BY <1>8 DEF RowSound, W!Visible, Started, W!Deliveries
    <2> QED
      BY <2>1, <2>2 DEF EventsInOrder, W!Visible
  <1> QED
    BY <1>1, <1>3, <1>6, <1>7, <1>8, QuietStep

-----------------------------------------------------------------------------
(* Webhooks: administration *)

\* A step that leaves the rows of deliveries alone.
LEMMA RowsAlone ==
    ASSUME delivery' = delivery
    PROVE  /\ \A d \in W!Deliveries : RowQuiet(d)
           /\ \A c, d \in W!Deliveries : ~Appears(c, d)
  BY DEF RowQuiet, Appears

LEMMA ActivateKeeps ==
    ASSUME QueuesAssumption, WebhookInv, NEW p \in Endpoints, W!Activate(p)
    PROVE  WebhookInv'
  <1> USE DEF WebhookInv
  <1>1. /\ UNCHANGED <<closing, locked, enqueue, sequence, delivery, attempt, worker, posted, replays>>
        /\ endpoint' = [endpoint EXCEPT ![p] = "ACTIVE"] /\ endpoint[p] = "PENDING_VERIFICATION"
    BY DEF W!Activate
  <1>2. WebhookTypes' /\ \A q \in Endpoints : endpoint[q] = "REVOKED" => endpoint'[q] = "REVOKED"
    BY <1>1 DEF WebhookTypes
  <1>3. ASSUME NEW d \in W!Deliveries PROVE RowSound(d)'
    <2>1. RowSound(d) /\ d.endpoint \in Endpoints
      BY DEF W!Deliveries
    <2> QED
      BY <1>1, <1>2, <2>1 DEF RowSound, W!Visible
  <1> QED
    BY <1>1, <1>2, <1>3, EventsStay, RowsAlone, QuietStep

LEMMA RevokeKeeps ==
    ASSUME QueuesAssumption, WebhookInv, NEW p \in Endpoints, W!Revoke(p)
    PROVE  WebhookInv'
  <1> USE DEF WebhookInv
  <1>1. /\ UNCHANGED <<endpoint, enqueue, sequence, delivery, attempt, worker, posted, replays>>
        /\ closing' = closing \cup {p}
        /\ locked' = locked \cup {d \in W!Deliveries : d.endpoint = p /\ delivery[d].status \in W!Live}
    BY DEF W!Revoke
  <1>2. WebhookTypes'
    BY <1>1 DEF WebhookTypes
  <1>3. \A d \in W!Deliveries : RowSound(d)'
    BY <1>1 DEF RowSound, W!Visible
  <1> QED
    BY <1>1, <1>2, <1>3, EventsStay, RowsAlone, QuietStep

LEMMA CommitRevokeKeeps ==
    ASSUME QueuesAssumption, WebhookInv, NEW p \in Endpoints, W!CommitRevoke(p)
    PROVE  WebhookInv'
  <1> USE DEF WebhookInv
  <1>1. /\ UNCHANGED <<enqueue, sequence, attempt, worker, posted, replays>>
        /\ endpoint' = [endpoint EXCEPT ![p] = "REVOKED"]
        /\ closing' = closing \ {p} /\ locked' = {d \in locked : d.endpoint # p}
    BY DEF W!CommitRevoke
  <1>2. ASSUME NEW d \in W!Deliveries
        PROVE  /\ delivery[d] \in Rows
               /\ delivery'[d] = IF d \in locked /\ d.endpoint = p
                       THEN [delivery[d] EXCEPT !.status = "CANCELLED", !.cancelled = TRUE, !.owner = None]
                       ELSE delivery[d]
    BY DEF W!CommitRevoke, WebhookTypes
  <1>3. ASSUME NEW d \in W!Deliveries
        PROVE  /\ delivery'[d] \in Rows
               /\ delivery'[d].attempts = delivery[d].attempts
               /\ delivery'[d].status =
                      IF d \in locked /\ d.endpoint = p THEN "CANCELLED" ELSE delivery[d].status
    BY <1>2 DEF Rows
  <1>4. WebhookTypes'
    <2>1. delivery' \in [W!Deliveries -> Rows]
      BY <1>3 DEF W!CommitRevoke
    <2> QED
      BY <1>1, <2>1 DEF WebhookTypes
  <1>5. ASSUME NEW d \in W!Deliveries PROVE RowQuiet(d) /\ RowSound(d)'
    <2>1. RowSound(d) /\ d.endpoint \in Endpoints
      BY DEF W!Deliveries
    <2>2. endpoint'[d.endpoint] = IF d.endpoint = p THEN "REVOKED" ELSE endpoint[d.endpoint]
      BY <1>1, <2>1 DEF WebhookTypes
    <2> QED
      BY <1>1, <1>3, <2>1, <2>2 DEF RowSound, RowQuiet, W!Visible, Settled, W!Live
  <1>6. \A c, d \in W!Deliveries : ~Appears(c, d)
    BY <1>3 DEF Appears, RowSound, W!Live
  <1> QED
    BY <1>1, <1>4, <1>5, <1>6, EventsStay, QuietStep

LEMMA ReadReplayKeeps ==
    ASSUME QueuesAssumption, WebhookInv, NEW d \in W!Deliveries, W!ReadReplay(d)
    PROVE  WebhookInv'
  <1> USE DEF WebhookInv
  <1>1. /\ UNCHANGED <<endpoint, closing, locked, enqueue, sequence, delivery, attempt, worker, posted>>
        /\ replays' = replays \cup {d} /\ d.replay > 0 /\ W!Visible(d.event)
    BY DEF W!ReadReplay, W!stored
  <1>2. delivery[d].status = "ABSENT"
    <2>1. d.replay \in 1 .. MaxReplays /\ d.replay \in Nat
      BY <1>1, QueuesAssumption DEF W!Deliveries, QueuesAssumption, W!BoundsAssumption
    <2>2. [d EXCEPT !.replay = d.replay] = d
      BY DEF W!Deliveries
    <2>3. (delivery[[d EXCEPT !.replay = d.replay]].status # W!Absent) <=> d.replay < d.replay
      BY <2>1 DEF W!ReadReplay
    <2> QED
      BY <2>1, <2>2, <2>3 DEF W!Absent
  <1>3. WebhookTypes'
    BY <1>1 DEF WebhookTypes
  <1>4. \A c \in W!Deliveries : RowSound(c)'
    BY <1>1, <1>2 DEF RowSound, W!Visible
  <1> QED
    BY <1>1, <1>3, <1>4, EventsStay, RowsAlone, QuietStep

LEMMA WriteReplayKeeps ==
    ASSUME QueuesAssumption, WebhookInv, NEW d \in W!Deliveries, W!WriteReplay(d)
    PROVE  WebhookInv'
  <1> USE DEF WebhookInv
  <1>1. /\ UNCHANGED <<endpoint, closing, locked, enqueue, sequence, attempt, worker, posted>>
        /\ d \in replays /\ replays' = replays \ {d}
        /\ delivery' = [delivery EXCEPT ![d] = W!Row("PENDING")]
    BY DEF W!WriteReplay
  <1>2. W!Row("PENDING") \in Rows
    BY DEF W!Row, Rows
  <1>3. WebhookTypes' /\ delivery'[d] = W!Row("PENDING")
        /\ \A c \in W!Deliveries : c # d => delivery'[c] = delivery[c]
    BY <1>1, <1>2 DEF WebhookTypes
  <1>4. RowSound(d) /\ delivery[d].status = "ABSENT" /\ delivery[d].attempts = 0 /\ d.replay > 0
    BY <1>1 DEF RowSound
  <1>5. RowQuiet(d) /\ RowSound(d)'
    BY <1>1, <1>3, <1>4 DEF RowSound, RowQuiet, W!Row, W!Visible, Settled, W!Live
  <1>6. ASSUME NEW c \in W!Deliveries, c # d PROVE RowQuiet(c) /\ RowSound(c)'
    BY <1>1, <1>3, <1>6 DEF RowSound, RowQuiet, W!Visible
  <1>7. \A a, c \in W!Deliveries : ~Appears(a, c)
    BY <1>3, <1>4 DEF Appears
  <1> QED
    BY <1>1, <1>3, <1>5, <1>6, <1>7, EventsStay, QuietStep

LEMMA RipenKeeps ==
    ASSUME QueuesAssumption, WebhookInv, NEW d \in W!Deliveries, W!Ripen(d)
    PROVE  WebhookInv'
  <1> USE DEF WebhookInv
  <1>1. /\ UNCHANGED <<endpoint, closing, locked, enqueue, sequence, attempt, worker, posted, replays>>
        /\ delivery' = [delivery EXCEPT ![d].due = TRUE]
    BY DEF W!Ripen
  <1>2. delivery[d] \in Rows
    BY DEF WebhookTypes
  <1>3. WebhookTypes'
    BY <1>1, <1>2 DEF WebhookTypes, Rows
  <1>4. \A c \in W!Deliveries : delivery'[c].status = delivery[c].status
                                /\ delivery'[c].attempts = delivery[c].attempts
    BY <1>1, <1>2 DEF WebhookTypes, Rows
  <1>5. \A c \in W!Deliveries : RowQuiet(c) /\ RowSound(c)'
    BY <1>1, <1>4 DEF RowQuiet, RowSound, W!Visible
  <1>6. \A a, c \in W!Deliveries : ~Appears(a, c)
    BY <1>4 DEF Appears
  <1> QED
    BY <1>1, <1>3, <1>5, <1>6, EventsStay, QuietStep

-----------------------------------------------------------------------------
(* Webhooks: the worker *)

\* The states of a worker that the actions write.
LEMMA WorkerTypes ==
    ASSUME NEW batch \in SUBSET W!Deliveries
    PROVE  /\ W!With(batch) \in WorkerStates
           /\ W!With(batch).batch = batch /\ W!With(batch).phase \in {"idle", "next"}
           /\ [W!Idle EXCEPT !.phase = "next", !.batch = batch] \in WorkerStates
           /\ W!Idle \in WorkerStates /\ W!Idle.batch = {} /\ W!Idle.phase = "idle"
  BY DEF W!With, W!Idle, WorkerStates, W!Outcomes

\* A worker that gives up what it was at holds less.
LEMMA GivesUp ==
    ASSUME NEW w \in Invocations, HoldingSound(w), delivery' = delivery, posted' = posted,
           worker'[w].batch \subseteq worker[w].batch, worker'[w].phase \in {"idle", "next"}
    PROVE  HoldingSound(w)'
  BY DEF HoldingSound, Takes, Preceded

LEMMA ClaimKeeps ==
    ASSUME QueuesAssumption, WebhookInv, NEW w \in Invocations, W!Claim(w)
    PROVE  WebhookInv'
  <1> USE DEF WebhookInv
  <1>1. PICK batch \in SUBSET W!Deliveries :
            /\ \A d \in batch : W!Claimable(d)
            /\ delivery' = [d \in W!Deliveries |->
                   IF d \in batch
                   THEN [delivery[d] EXCEPT !.status = "PROCESSING", !.owner = Identity[w], !.due = FALSE]
                   ELSE delivery[d]]
            /\ worker' = [worker EXCEPT ![w] = [W!Idle EXCEPT !.phase = "next", !.batch = batch]]
    BY DEF W!Claim
  <1>2. UNCHANGED <<endpoint, closing, locked, enqueue, sequence, attempt, posted, replays>>
    BY DEF W!Claim
  <1>3. ASSUME NEW d \in W!Deliveries
        PROVE  /\ delivery'[d] \in Rows
               /\ delivery'[d].attempts = delivery[d].attempts
               /\ delivery'[d].status = IF d \in batch THEN "PROCESSING" ELSE delivery[d].status
               /\ d \in batch => delivery[d].status \in W!Live
    <2>1. delivery[d] \in Rows /\ Identity[w] \in {Identity[v] : v \in Invocations}
      BY DEF WebhookTypes
    <2>2. d \in batch => delivery[d].status \in W!Live
      BY <1>1 DEF W!Claimable
    <2> QED
      BY <1>1, <2>1, <2>2 DEF Rows
  <1>4. WebhookTypes'
    <2>1. delivery' \in [W!Deliveries -> Rows]
      BY <1>1, <1>3
    <2>2. worker' \in [Invocations -> WorkerStates]
      BY <1>1, WorkerTypes DEF WebhookTypes
    <2> QED
      BY <1>2, <2>1, <2>2 DEF WebhookTypes
  <1>5. ASSUME NEW d \in W!Deliveries PROVE RowQuiet(d) /\ RowSound(d)'
    BY <1>2, <1>3 DEF RowQuiet, RowSound, W!Visible, Settled, W!Live
  <1>6. \A a, d \in W!Deliveries : ~Appears(a, d)
    BY <1>3 DEF Appears, W!Live
  <1>7. ASSUME NEW d \in batch, d.replay = 0 PROVE Preceded(d)'
    <2>1. /\ d \in W!Deliveries /\ d.event \in W!Events /\ Started(d.event)
          /\ endpoint[d.endpoint] = "ACTIVE"
      BY <1>1 DEF W!Claimable, W!Deliveries, W!ActiveEndpoints, RowSound, W!Live, W!Visible, Started
    <2>2. W!AtHead(d)
      <3>1. W!Claimable(d)
        BY <1>1
      <3>2. ~(d.replay > 0)
        BY <1>7
      <3> QED
        BY <3>1, <3>2 DEF W!Claimable
    <2>3. SUFFICES ASSUME NEW c \in W!Deliveries, c.replay = 0, c.endpoint = d.endpoint,
                          W!Before(c.event, d.event), delivery'[c].status # "ABSENT"
                   PROVE  c \in posted'
      BY DEF Preceded
    <2>4. c.event \in W!Events /\ sequence[c.event] < sequence[d.event]
      BY <2>1, <2>3 DEF EventsInOrder, W!Deliveries
    <2>5. delivery[c].status \notin W!Live
      BY <2>2, <2>3, <2>4 DEF W!AtHead
    <2>6. delivery[c].status # "ABSENT" /\ delivery[c] \in Rows
      BY <1>3, <2>3, <2>5 DEF WebhookTypes
    <2>7. delivery[c].status # "CANCELLED"
      BY <2>1, <2>3 DEF RowSound
    <2>8. delivery[c].status \in {"SUCCEEDED", "DEAD_LETTER"}
      BY <2>5, <2>6, <2>7 DEF Rows, W!Live
    <2> QED
      BY <1>2, <2>8 DEF RowSound
  <1>8. HoldingSound(w)'
    <2>1. worker'[w].batch = batch /\ worker'[w].phase = "next"
      BY <1>1 DEF WebhookTypes, W!Idle
    <2> QED
      BY <1>3, <1>7, <2>1 DEF HoldingSound, Takes
  <1>9. \A v \in Invocations : worker'[v] = worker[v] \/ HoldingSound(v)'
    BY <1>1, <1>8 DEF WebhookTypes
  <1> QED
    BY <1>2, <1>4, <1>5, <1>6, <1>9, EventsStay, QuietStep

\* A step of a worker that leaves the rows alone.
LEMMA WorkerOnly ==
    ASSUME WebhookInv, NEW w \in Invocations, NEW state \in WorkerStates,
           worker' = [worker EXCEPT ![w] = state], HoldingSound(w)',
           UNCHANGED <<endpoint, closing, locked, enqueue, sequence, delivery, attempt, posted, replays>>
    PROVE  WebhookInv'
  <1> USE DEF WebhookInv
  <1>1. WebhookTypes'
    BY DEF WebhookTypes
  <1>2. \A v \in Invocations : worker'[v] = worker[v] \/ HoldingSound(v)'
    BY DEF WebhookTypes
  <1>3. \A d \in W!Deliveries : RowSound(d)'
    BY DEF RowSound, W!Visible
  <1> QED
    BY <1>1, <1>2, <1>3, EventsStay, RowsAlone, QuietStep

LEMMA TakeKeeps ==
    ASSUME QueuesAssumption, WebhookInv, NEW w \in Invocations, NEW d \in W!Deliveries, W!Take(w, d)
    PROVE  WebhookInv'
  <1> USE DEF WebhookInv
  <1>1. PICK s \in WorkerStates : s = worker[w]
    BY DEF WebhookTypes
  <1>2. /\ UNCHANGED <<endpoint, closing, locked, enqueue, sequence, delivery, attempt, posted, replays>>
        /\ d \in s.batch /\ HoldingSound(w)
    BY <1>1 DEF W!Take, W!stored, W!InTurn
  <1>3. PICK t \in WorkerStates :
            /\ worker' = [worker EXCEPT ![w] = t]
            /\ \/ t.phase = "posting" /\ t.batch = s.batch \ {d} /\ t.current = d
               \/ t.phase \in {"idle", "next"} /\ t.batch = s.batch \ {d}
    <2>1. s.batch \ {d} \in SUBSET W!Deliveries
      BY DEF WorkerStates
    <2>2. CASE d.endpoint \in W!ActiveEndpoints
      <3> DEFINE t == [s EXCEPT !.phase = "posting", !.batch = s.batch \ {d}, !.current = d]
      <3>1. worker' = [worker EXCEPT ![w] = t]
        BY <1>1, <2>2 DEF W!Take, WebhookTypes, WorkerStates
      <3>2. t \in WorkerStates /\ t.phase = "posting" /\ t.batch = s.batch \ {d} /\ t.current = d
        BY DEF WorkerStates
      <3> QED
        BY <3>1, <3>2
    <2>3. CASE d.endpoint \notin W!ActiveEndpoints
      <3>1. worker' = [worker EXCEPT ![w] = W!With(s.batch \ {d})]
        BY <1>1, <2>3 DEF W!Take
      <3> QED
        BY <2>1, <3>1, WorkerTypes
    <2> QED
      BY <2>2, <2>3
  <1>4. worker'[w] = t
    BY <1>3 DEF WebhookTypes
  <1>5. HoldingSound(w)'
    BY <1>1, <1>2, <1>3, <1>4 DEF HoldingSound, Takes, Preceded
  <1> QED
    BY <1>2, <1>3, <1>5, WorkerOnly

LEMMA PostKeeps ==
    ASSUME QueuesAssumption, WebhookInv, NEW w \in Invocations, W!Post(w)
    PROVE  WebhookInv'
  <1> USE DEF WebhookInv
  <1>1. PICK d \in W!Deliveries : d = worker[w].current
    BY DEF W!Post, HoldingSound
  <1>2. /\ UNCHANGED <<endpoint, closing, locked, enqueue, sequence, delivery, attempt, replays>>
        /\ worker[w].phase = "posting" /\ posted' = posted \cup {d}
    BY <1>1 DEF W!Post, W!stored
  <1>3. PICK outcome \in W!Outcomes :
            worker' = [worker EXCEPT ![w].phase = "posted", ![w].outcome = outcome]
    BY DEF W!Post
  <1>4. /\ worker'[w].phase = "posted" /\ worker'[w].batch = worker[w].batch /\ worker'[w].current = d
        /\ \A v \in Invocations : v # w => worker'[v] = worker[v]
    BY <1>1, <1>3 DEF WebhookTypes, WorkerStates
  <1>5. WebhookTypes'
    BY <1>2, <1>3, ZenonT(30) DEF WebhookTypes, WorkerStates
  <1>6. Takes(w, d) /\ \A c \in W!Deliveries : Takes(w, c)' => Takes(w, c)
    BY <1>1, <1>2, <1>4 DEF Takes
  <1>7. /\ \A c \in W!Deliveries : RowMoves(c)
        /\ \A a, c \in W!Deliveries : ~Appears(a, c)
    BY <1>2 DEF RowMoves, Appears
  <1>8. \A c : Preceded(c) => Preceded(c)'
    BY <1>2 DEF Preceded
  <1>9. HoldingSound(w)'
    BY <1>1, <1>2, <1>4, <1>6, <1>8 DEF HoldingSound
  <1>10. ASSUME NEW v \in Invocations, v # w PROVE HoldingSound(v)'
    BY <1>2, <1>4, <1>5, <1>7, <1>10, HoldingStays
  <1>11. PostedSound'
    BY <1>1, <1>2, <1>6, <1>8 DEF PostedSound, HoldingSound
  <1>12. \A c \in W!Deliveries : RowSound(c)' /\ AttemptsSound(c)'
    BY <1>2 DEF RowSound, AttemptsSound, W!Visible
  <1> QED
    BY <1>2, <1>5, <1>9, <1>10, <1>11, <1>12, EventsStay

LEMMA ReadAttemptKeeps ==
    ASSUME QueuesAssumption, WebhookInv, NEW w \in Invocations, W!ReadAttempt(w)
    PROVE  WebhookInv'
  <1> USE DEF WebhookInv
  <1>1. PICK s \in WorkerStates : s = worker[w]
    BY DEF WebhookTypes
  <1>2. /\ UNCHANGED <<endpoint, closing, locked, enqueue, sequence, delivery, attempt, posted, replays>>
        /\ s.phase = "posted" /\ HoldingSound(w)
    BY <1>1 DEF W!ReadAttempt, W!stored
  <1>3. PICK d \in W!Deliveries : d = s.current /\ d \in posted
    BY <1>1, <1>2 DEF HoldingSound
  <1>4. CASE W!Leased(w)
    <2> DEFINE t == [s EXCEPT !.phase = "writing", !.read = delivery[d].attempts]
    <2>1. worker' = [worker EXCEPT ![w] = t]
      BY <1>1, <1>3, <1>4 DEF W!ReadAttempt
    <2>2. /\ t \in WorkerStates /\ t.phase = "writing" /\ t.batch = s.batch /\ t.current = d
          /\ t.read = delivery[d].attempts /\ delivery[d].attempts \in Nat
      BY <1>3 DEF WorkerStates, WebhookTypes, Rows
    <2>3. worker'[w] = t /\ delivery[d].status = "PROCESSING"
      BY <1>1, <1>3, <1>4, <2>1 DEF WebhookTypes, W!Leased
    <2> HIDE DEF t
    <2>4. HoldingSound(w)'
      BY <1>1, <1>2, <1>3, <2>2, <2>3 DEF HoldingSound, Takes, Preceded, W!Live
    <2> QED
      BY <1>2, <2>1, <2>2, <2>4, WorkerOnly
  <1>5. CASE ~W!Leased(w)
    <2>1. worker' = [worker EXCEPT ![w] = W!With(s.batch)]
      BY <1>1, <1>5 DEF W!ReadAttempt
    <2>2. /\ W!With(s.batch) \in WorkerStates /\ W!With(s.batch).batch = s.batch
          /\ W!With(s.batch).phase \in {"idle", "next"}
      BY WorkerTypes DEF WorkerStates
    <2>3. worker'[w] = W!With(s.batch)
      BY <2>1 DEF WebhookTypes
    <2>4. HoldingSound(w)'
      BY <1>1, <1>2, <2>2, <2>3, GivesUp
    <2> QED
      BY <1>2, <2>1, <2>2, <2>4, WorkerOnly
  <1> QED
    BY <1>4, <1>5

LEMMA CrashKeeps ==
    ASSUME QueuesAssumption, WebhookInv, NEW w \in Invocations, W!Crash(w)
    PROVE  WebhookInv'
  <1> USE DEF WebhookInv
  <1>1. /\ UNCHANGED <<endpoint, closing, locked, enqueue, sequence, delivery, attempt, posted, replays>>
        /\ worker' = [worker EXCEPT ![w] = W!Idle]
    BY DEF W!Crash, W!stored
  <1>2. W!Idle \in WorkerStates /\ W!Idle.batch = {} /\ W!Idle.phase = "idle"
    BY WorkerTypes
  <1>3. worker'[w] = W!Idle
    BY <1>1 DEF WebhookTypes
  <1>4. HoldingSound(w)'
    BY <1>1, <1>2, <1>3, GivesUp
  <1> QED
    BY <1>1, <1>2, <1>4, WorkerOnly

\* An attempt that is refused leaves the rows; the invocation ends.
LEMMA RefusedAttemptKeeps ==
    ASSUME WebhookInv, NEW w \in Invocations, worker' = [worker EXCEPT ![w] = W!Idle],
           UNCHANGED <<endpoint, closing, locked, enqueue, sequence, delivery, attempt, posted, replays>>
    PROVE  WebhookInv'
  <1> USE DEF WebhookInv
  <1>1. W!Idle \in WorkerStates /\ W!Idle.batch = {} /\ W!Idle.phase = "idle"
    BY WorkerTypes
  <1>2. worker'[w] = W!Idle
    BY DEF WebhookTypes
  <1>3. HoldingSound(w)'
    BY <1>1, <1>2, GivesUp
  <1> QED
    BY <1>1, <1>3, WorkerOnly

\* The attempts of a delivery that gains the next one.
LEMMA NextAttempt ==
    ASSUME NEW d \in W!Deliveries, AttemptsSound(d), NEW a \in Attempts,
           delivery[d].attempts \in Nat, delivery[d].status \notin Settled,
           a.number = delivery[d].attempts + 1,
           attempt'[d] = attempt[d] \cup {a}, delivery'[d].attempts = a.number,
           a.outcome = "SUCCEEDED" <=> delivery'[d].status = "SUCCEEDED",
           a.outcome = "TERMINAL" <=> delivery'[d].status = "DEAD_LETTER"
    PROVE  AttemptsSound(d)'
  <1>1. /\ {b.number : b \in attempt[d]} = 1 .. delivery[d].attempts
        /\ IsFiniteSet(attempt[d]) /\ Cardinality(attempt[d]) = delivery[d].attempts
    BY DEF AttemptsSound
  <1>2. \A b \in attempt[d] : /\ b.number \in 1 .. delivery[d].attempts
                              /\ b.outcome # "SUCCEEDED" /\ b.outcome # "TERMINAL"
    BY <1>1 DEF AttemptsSound, Settled
  <1>3. a \notin attempt[d]
    BY <1>2
  <1>4. IsFiniteSet(attempt'[d]) /\ Cardinality(attempt'[d]) = delivery'[d].attempts
    <2>1. /\ IsFiniteSet(attempt[d] \cup {a})
          /\ Cardinality(attempt[d] \cup {a}) = Cardinality(attempt[d]) + 1
      BY <1>1, <1>3, FS_AddElement
    <2> QED
      BY <1>1, <2>1
  <1>5. {b.number : b \in attempt'[d]} = 1 .. delivery'[d].attempts
    <2>1. {b.number : b \in attempt'[d]} = (1 .. delivery[d].attempts) \cup {a.number}
      BY <1>1
    <2>2. (1 .. delivery[d].attempts) \cup {a.number} = 1 .. a.number
      OBVIOUS
    <2> QED
      BY <2>1, <2>2
  <1>6. \A b \in attempt'[d] :
            /\ b.outcome = "SUCCEEDED"
                   <=> delivery'[d].status = "SUCCEEDED" /\ b.number = delivery'[d].attempts
            /\ b.outcome = "TERMINAL"
                   <=> delivery'[d].status = "DEAD_LETTER" /\ b.number = delivery'[d].attempts
    BY <1>2
  <1> QED
    BY <1>4, <1>5, <1>6 DEF AttemptsSound

LEMMA WriteAttemptKeeps ==
    ASSUME QueuesAssumption, WebhookInv, NEW w \in Invocations, W!WriteAttempt(w)
    PROVE  WebhookInv'
  <1> USE DEF WebhookInv
  <1>1. PICK s \in WorkerStates : s = worker[w]
    BY DEF WebhookTypes
  <1>2. /\ UNCHANGED <<endpoint, closing, locked, enqueue, sequence, posted, replays>>
        /\ s.phase = "writing" /\ s.current \notin locked
    BY <1>1 DEF W!WriteAttempt
  <1>3. PICK d \in W!Deliveries :
            /\ d = s.current /\ d \in posted /\ d \notin locked
            /\ s.read <= delivery[d].attempts
            /\ s.read = delivery[d].attempts => delivery[d].status \in W!Live \cup {"CANCELLED"}
    BY <1>1, <1>2 DEF HoldingSound
  <1>4. PICK outcome \in W!Outcomes, status \in {"SUCCEEDED", "DEAD_LETTER", "PENDING"} :
            /\ outcome = "SUCCEEDED" <=> status = "SUCCEEDED"
            /\ outcome = "TERMINAL" <=> status = "DEAD_LETTER"
            /\ LET refused == W!Recorded(d, s.read + 1) \/ W!BreaksCheck(d, status)
               IN  /\ attempt' = IF refused THEN attempt ELSE
                          [attempt EXCEPT ![d] = @ \cup {[number |-> s.read + 1, outcome |-> outcome]}]
                   /\ delivery' = IF refused THEN delivery ELSE
                          [delivery EXCEPT ![d].status = status, ![d].attempts = s.read + 1,
                                           ![d].owner = None, ![d].due = FALSE]
                   /\ worker' = [worker EXCEPT ![w] = IF refused THEN W!Idle ELSE W!With(@.batch)]
    <2> DEFINE out == IF s.outcome = "RETRYABLE" /\ ~W!MayRetry(s.read + 1)
                      THEN "TERMINAL" ELSE s.outcome
               stat == CASE out = "SUCCEEDED" -> "SUCCEEDED"
                         [] out = "TERMINAL"  -> "DEAD_LETTER"
                         [] out = "RETRYABLE" -> "PENDING"
    <2>1. /\ out \in W!Outcomes /\ stat \in {"SUCCEEDED", "DEAD_LETTER", "PENDING"}
          /\ out = "SUCCEEDED" <=> stat = "SUCCEEDED"
          /\ out = "TERMINAL" <=> stat = "DEAD_LETTER"
      BY DEF WorkerStates, W!Outcomes
    <2>2. /\ out = (IF worker[w].outcome = "RETRYABLE" /\ ~W!MayRetry(worker[w].read + 1)
                     THEN "TERMINAL" ELSE worker[w].outcome)
          /\ d = worker[w].current
      BY <1>1, <1>3
    <2>3. LET refused == W!Recorded(d, s.read + 1) \/ W!BreaksCheck(d, stat)
          IN  /\ attempt' = IF refused THEN attempt ELSE
                     [attempt EXCEPT ![d] = @ \cup {[number |-> s.read + 1, outcome |-> out]}]
              /\ delivery' = IF refused THEN delivery ELSE
                     [delivery EXCEPT ![d].status = stat, ![d].attempts = s.read + 1,
                                      ![d].owner = None, ![d].due = FALSE]
              /\ worker' = [worker EXCEPT ![w] = IF refused THEN W!Idle ELSE W!With(@.batch)]
      BY <1>1, <1>3 DEF W!WriteAttempt
    <2> HIDE DEF out, stat
    <2> QED
      BY <2>1, <2>3
  <1>5. CASE W!Recorded(d, s.read + 1) \/ W!BreaksCheck(d, status)
    BY <1>2, <1>4, <1>5, RefusedAttemptKeeps
  <1>6. CASE ~(W!Recorded(d, s.read + 1) \/ W!BreaksCheck(d, status))
    <2> DEFINE a == [number |-> s.read + 1, outcome |-> outcome]
    <2>1. /\ attempt' = [attempt EXCEPT ![d] = @ \cup {a}]
          /\ delivery' = [delivery EXCEPT ![d].status = status, ![d].attempts = s.read + 1,
                                          ![d].owner = None, ![d].due = FALSE]
          /\ worker' = [worker EXCEPT ![w] = W!With(s.batch)]
      BY <1>1, <1>4, <1>6
    <2>2. /\ delivery[d] \in Rows /\ delivery[d].attempts \in Nat /\ s.read \in Nat
          /\ AttemptsSound(d) /\ RowSound(d)
      BY DEF WebhookTypes, Rows, WorkerStates
    <2>3. delivery[d].attempts = s.read
      <3>1. {b.number : b \in attempt[d]} = 1 .. delivery[d].attempts
        BY <2>2 DEF AttemptsSound
      <3>2. s.read + 1 \notin 1 .. delivery[d].attempts
        BY <1>6, <3>1 DEF W!Recorded
      <3> QED
        BY <1>3, <2>2, <3>2
    <2>4. /\ delivery[d].status \in W!Live \cup {"CANCELLED"}
          /\ delivery[d].status # "ABSENT" /\ delivery[d].status \notin Settled
      BY <1>3, <2>3 DEF W!Live, Settled
    <2>5. /\ delivery'[d] \in Rows
          /\ delivery'[d].status = status /\ delivery'[d].attempts = s.read + 1
          /\ \A c \in W!Deliveries : c # d => delivery'[c] = delivery[c] /\ attempt'[c] = attempt[c]
          /\ attempt'[d] = attempt[d] \cup {a}
          /\ worker'[w] = W!With(s.batch)
          /\ \A v \in Invocations : v # w => worker'[v] = worker[v]
      <3>1. delivery'[d] = [delivery[d] EXCEPT !.status = status, !.attempts = s.read + 1,
                                               !.owner = None, !.due = FALSE]
        BY <2>1 DEF WebhookTypes, Rows
      <3>2. /\ delivery'[d] \in Rows
            /\ delivery'[d].status = status /\ delivery'[d].attempts = s.read + 1
        <4>1. s.read + 1 \in Nat
          BY <2>2
        <4> DEFINE owners == {Identity[v] : v \in Invocations} \cup {None}
        <4>2. None \in owners
          OBVIOUS
        <4>3. delivery[d] \in [status : {"ABSENT", "PENDING", "PROCESSING", "SUCCEEDED", "DEAD_LETTER", "CANCELLED"},
                  attempts : Nat, owner : owners, due : BOOLEAN, cancelled : BOOLEAN]
          BY <2>2 DEF Rows
        <4> HIDE DEF owners
        <4>4. /\ delivery'[d] \in [status : {"ABSENT", "PENDING", "PROCESSING", "SUCCEEDED", "DEAD_LETTER", "CANCELLED"},
                  attempts : Nat, owner : owners, due : BOOLEAN, cancelled : BOOLEAN]
              /\ delivery'[d].status = status /\ delivery'[d].attempts = s.read + 1
          BY <3>1, <4>1, <4>2, <4>3
        <4> QED
          BY <4>4 DEF Rows, owners
      <3>3. \A c \in W!Deliveries : c # d => delivery'[c] = delivery[c]
        BY <2>1 DEF WebhookTypes
      <3>4. /\ \A c \in W!Deliveries : c # d => attempt'[c] = attempt[c]
            /\ attempt'[d] = attempt[d] \cup {a}
        BY <2>1 DEF WebhookTypes
      <3>5. /\ worker'[w] = W!With(s.batch)
            /\ \A v \in Invocations : v # w => worker'[v] = worker[v]
        BY <2>1 DEF WebhookTypes
      <3> QED
        BY <3>2, <3>3, <3>4, <3>5
    <2>6. a \in Attempts /\ a.number = s.read + 1 /\ a.outcome = outcome
      BY <2>2 DEF Attempts
    <2> HIDE DEF a
    <2>7. /\ W!With(s.batch) \in WorkerStates /\ W!With(s.batch).batch = s.batch
          /\ W!With(s.batch).phase \in {"idle", "next"}
      BY WorkerTypes DEF WorkerStates
    <2>8. WebhookTypes'
      <3>1. delivery' \in [W!Deliveries -> Rows]
        BY <2>1, <2>5 DEF WebhookTypes
      <3>2. attempt' \in [W!Deliveries -> SUBSET Attempts]
        BY <2>1, <2>6 DEF WebhookTypes
      <3>3. worker' \in [Invocations -> WorkerStates]
        BY <2>1, <2>7 DEF WebhookTypes
      <3> QED
        BY <1>2, <3>1, <3>2, <3>3 DEF WebhookTypes
    <2>9. \A c \in W!Deliveries : RowMoves(c)
      BY <2>2, <2>3, <2>5 DEF RowMoves
    <2>10. \A c, e \in W!Deliveries : ~Appears(c, e)
      BY <2>4, <2>5 DEF Appears
    <2>11. AttemptsSound(d)'
      BY <1>4, <2>2, <2>3, <2>4, <2>5, <2>6, NextAttempt, ZenonT(30)
    <2>12. \A c \in W!Deliveries : AttemptsSound(c)'
      <3>1. ASSUME NEW c \in W!Deliveries, c # d PROVE AttemptsSound(c)'
        BY <2>5, <3>1 DEF AttemptsSound
      <3> QED
        BY <2>11, <3>1
    <2>13. RowSound(d)'
      BY <1>2, <1>3, <2>2, <2>4, <2>5 DEF RowSound, W!Visible
    <2>14. \A c \in W!Deliveries : RowSound(c)'
      BY <1>2, <2>5, <2>13 DEF RowSound, W!Visible
    <2>15. HoldingSound(w)'
      <3>1. ASSUME NEW c \in W!Deliveries, Takes(w, c)'
            PROVE  delivery'[c].status # "ABSENT" /\ (c.replay = 0 => Preceded(c)')
        <4>1. Takes(w, c) /\ HoldingSound(w)
          BY <1>1, <2>5, <2>7, <3>1 DEF Takes
        <4> QED
          BY <1>2, <2>9, <2>10, <4>1, PrecededStays DEF HoldingSound, RowMoves
      <3> QED
        BY <2>5, <2>7, <3>1 DEF HoldingSound
    <2>16. ASSUME NEW v \in Invocations, v # w PROVE HoldingSound(v)'
      BY <1>2, <2>5, <2>8, <2>9, <2>10, <2>16, HoldingStays
    <2>17. PostedSound'
      BY <1>2, <2>9, <2>10, PostedStays
    <2> QED
      BY <1>2, <2>8, <2>12, <2>14, <2>15, <2>16, <2>17, EventsStay
  <1> QED
    BY <1>5, <1>6

-----------------------------------------------------------------------------
(* Webhooks: the invariant *)

LEMMA WebhooksInit ==
    ASSUME QueuesAssumption, W!Init
    PROVE  WebhookInv
  <1> USE DEF W!Init
  <1>1. W!Row("ABSENT") \in Rows /\ W!Idle \in WorkerStates
    BY WorkerTypes DEF W!Row, Rows
  <1>2. WebhookTypes
    BY <1>1 DEF WebhookTypes, Enqueues, W!Absent
  <1>3. Numbered = {}
    BY DEF Numbered
  <1>4. EventsInOrder
    <2>1. IsFiniteSet(Numbered) /\ Cardinality(Numbered) = 0
      BY <1>3, FS_EmptySet
    <2> QED
      BY <2>1 DEF EventsInOrder, Started
  <1>5. ASSUME NEW d \in W!Deliveries PROVE RowSound(d) /\ AttemptsSound(d)
    <2>1. delivery[d].status = "ABSENT" /\ delivery[d].attempts = 0 /\ attempt[d] = {}
      BY DEF W!Row, W!Absent
    <2> QED
      BY <2>1, FS_EmptySet DEF RowSound, AttemptsSound
  <1>6. PostedSound /\ \A w \in Invocations : HoldingSound(w)
    BY DEF PostedSound, HoldingSound, Takes, W!Idle
  <1> QED
    BY <1>2, <1>4, <1>5, <1>6 DEF WebhookInv

LEMMA WebhooksStutter ==
    ASSUME WebhookInv, UNCHANGED W!vars
    PROVE  WebhookInv'
  <1>1. UNCHANGED <<endpoint, closing, locked, enqueue, sequence, delivery, attempt, worker, posted, replays>>
    BY DEF W!vars, W!stored
  <1>2. WebhookTypes' /\ PostedSound'
    BY <1>1 DEF WebhookInv, WebhookTypes, PostedSound, Preceded
  <1>3. EventsInOrder'
    BY <1>1, EventsStay DEF WebhookInv
  <1>4. \A d \in W!Deliveries : RowSound(d)' /\ AttemptsSound(d)'
    BY <1>1 DEF WebhookInv, RowSound, AttemptsSound, W!Visible
  <1>5. \A w \in Invocations : HoldingSound(w)'
    BY <1>1 DEF WebhookInv, HoldingSound, Takes, Preceded
  <1> QED
    BY <1>2, <1>3, <1>4, <1>5 DEF WebhookInv

LEMMA WebhooksNext ==
    ASSUME QueuesAssumption, WebhookInv, W!Next
    PROVE  WebhookInv'
  <1>1. ASSUME NEW e \in W!Events, W!OpenEnqueue(e) \/ W!CommitEnqueue(e) PROVE WebhookInv'
    BY <1>1, OpenEnqueueKeeps, CommitEnqueueKeeps
  <1>2. ASSUME NEW p \in Endpoints, W!Activate(p) \/ W!Revoke(p) \/ W!CommitRevoke(p) PROVE WebhookInv'
    BY <1>2, ActivateKeeps, RevokeKeeps, CommitRevokeKeeps
  <1>3. ASSUME NEW d \in W!Deliveries, W!ReadReplay(d) \/ W!WriteReplay(d) \/ W!Ripen(d)
        PROVE  WebhookInv'
    BY <1>3, ReadReplayKeeps, WriteReplayKeeps, RipenKeeps
  <1>4. ASSUME NEW w \in Invocations, W!Work(w) \/ W!Crash(w) PROVE WebhookInv'
    <2>1. CASE W!Claim(w) \/ W!Post(w) \/ W!ReadAttempt(w) \/ W!WriteAttempt(w) \/ W!Crash(w)
      BY <2>1, ClaimKeeps, PostKeeps, ReadAttemptKeeps, WriteAttemptKeeps, CrashKeeps
    <2>2. CASE \E d \in W!Deliveries : W!Take(w, d)
      BY <2>2, TakeKeeps
    <2> QED
      BY <1>4, <2>1, <2>2 DEF W!Work
  <1> QED
    BY <1>1, <1>2, <1>3, <1>4 DEF W!Next

LEMMA WebhooksHold ==
    ASSUME WebhookInv
    PROVE  W!QueueHolds
  <1>1. W!InOrder
    BY DEF WebhookInv, PostedSound, Preceded, W!InOrder, W!Absent
  <1>2. ASSUME NEW d \in W!Deliveries
        PROVE  /\ {a.number : a \in attempt[d]} = 1 .. delivery[d].attempts
               /\ W!Cardinality(attempt[d]) = delivery[d].attempts
               /\ \A a \in attempt[d] :
                   /\ a.outcome = "SUCCEEDED"
                          <=> delivery[d].status = "SUCCEEDED" /\ a.number = delivery[d].attempts
                   /\ a.outcome = "TERMINAL"
                          <=> delivery[d].status = "DEAD_LETTER" /\ a.number = delivery[d].attempts
    BY SameCount DEF WebhookInv, AttemptsSound
  <1> QED
    BY <1>1, <1>2 DEF W!QueueHolds, W!AttemptsAgree

-----------------------------------------------------------------------------
(* The invariant of the notification queue *)

NoteStatuses == {"ABSENT", "PENDING", "PROCESSING", "SUCCEEDED", "DEAD_LETTER", "CANCELLED"}
WorkerPhases == {"idle", "next", "checked", "cancel", "sent", "record"}
Invoked == [phase : WorkerPhases, batch : SUBSET N!Deliveries,
            current : N!Deliveries \cup {None},
            result : {None, "SUCCEEDED", "RETRYABLE", "TERMINAL"}]
Notes(waits) == [status : NoteStatuses, attempts : Nat, owned : BOOLEAN, wait : waits]
IsNote(r) == r \in Notes({r.wait})
IsFanOut(r) == r = [phase |-> r.phase, at |-> r.at]

NotificationTypes ==
    /\ minute \in N!Day /\ member \in BOOLEAN
    /\ preference \in [Scopes -> [status : N!Statuses, schedule : Schedules]]
    /\ worker \in [Invocations -> Invoked]
    /\ sent \in SUBSET N!Deliveries
    /\ enqueue = [e \in N!Events |-> enqueue[e]] /\ \A e \in N!Events : IsFanOut(enqueue[e])
    /\ delivery = [d \in N!Deliveries |-> delivery[d]] /\ \A d \in N!Deliveries : IsNote(delivery[d])

\* A game announces an event after the earlier ones are committed.
EventsInTurn ==
    \A e \in N!Events : enqueue[e].phase # "new" =>
        \A f \in N!Events : f < e => enqueue[f].phase = "sent"

\* The row of a delivery, its transaction and its message.
NoteSound(d) ==
    /\ delivery[d].status \in NoteStatuses
    /\ delivery[d].attempts \in 0 .. SendAttempts
    /\ delivery[d].status \in N!Live => delivery[d].attempts < SendAttempts
    /\ delivery[d].owned <=> delivery[d].status = "PROCESSING"
    /\ delivery[d].wait \in N!Day => delivery[d].status \in {"PENDING", "CANCELLED"}
    /\ delivery[d].status # "ABSENT" => enqueue[d[2]].phase = "sent"
    /\ delivery[d].status \in Settled => d \in sent

\* The delivery is there, and every earlier one of the preference is sent or never will be.
Passed == {"ABSENT", "CANCELLED"}
Turn(d) ==
    /\ delivery[d].status # "ABSENT"
    /\ \A e \in N!Events :
           e < d[2] => <<d[1], e>> \in sent \/ delivery[<<d[1], e>>].status \in Passed

\* What an invocation holds is in its turn; what it is to record was sent.
Working == {"checked", "cancel", "sent", "record"}
Carries(w, d) == d \in worker[w].batch \/ (worker[w].phase \in Working /\ d = worker[w].current)
InvocationSound(w) ==
    /\ \A d \in N!Deliveries : Carries(w, d) => Turn(d)
    /\ worker[w].phase \in Working => worker[w].current \in N!Deliveries
    /\ worker[w].phase \in {"sent", "record"} => worker[w].current \in sent

NotificationInv ==
    /\ NotificationTypes /\ EventsInTurn
    /\ \A d \in N!Deliveries : NoteSound(d)
    /\ \A d \in sent : Turn(d)
    /\ \A w \in Invocations : InvocationSound(w)

-----------------------------------------------------------------------------
(* Notifications: rows that are written *)

LEMMA NoteWaits ==
    ASSUME NEW r, IsNote(r), NEW t
    PROVE  LET q == [r EXCEPT !.wait = t]
           IN  /\ IsNote(q) /\ q.status = r.status /\ q.owned = r.owned
               /\ q.attempts = r.attempts /\ q.wait = t
  <1> DEFINE q == [r EXCEPT !.wait = t]
  <1>1. r \in Notes({r.wait, t})
    BY DEF IsNote, Notes
  <1>2. /\ q \in Notes({t}) /\ q.status = r.status /\ q.owned = r.owned
        /\ q.attempts = r.attempts /\ q.wait = t
    BY <1>1 DEF Notes
  <1> QED
    BY <1>2 DEF IsNote

LEMMA NoteCancels ==
    ASSUME NEW r, IsNote(r)
    PROVE  LET q == [r EXCEPT !.status = "CANCELLED", !.owned = FALSE]
           IN  /\ IsNote(q) /\ q.status = "CANCELLED" /\ q.owned = FALSE
               /\ q.attempts = r.attempts /\ q.wait = r.wait
  <1> DEFINE q == [r EXCEPT !.status = "CANCELLED", !.owned = FALSE]
  <1>1. r \in Notes({r.wait})
    BY DEF IsNote, Notes
  <1>2. /\ q \in Notes({r.wait}) /\ q.status = "CANCELLED" /\ q.owned = FALSE
        /\ q.attempts = r.attempts /\ q.wait = r.wait
    BY <1>1 DEF Notes, NoteStatuses
  <1> QED
    BY <1>2 DEF IsNote

LEMMA NoteLeases ==
    ASSUME NEW r, IsNote(r), NEW t
    PROVE  LET q == [r EXCEPT !.status = "PROCESSING", !.owned = TRUE, !.wait = t]
           IN  /\ IsNote(q) /\ q.status = "PROCESSING" /\ q.owned = TRUE
               /\ q.attempts = r.attempts /\ q.wait = t
  <1> DEFINE q == [r EXCEPT !.status = "PROCESSING", !.owned = TRUE, !.wait = t]
  <1>1. r \in Notes({r.wait, t})
    BY DEF IsNote, Notes
  <1>2. /\ q \in Notes({t}) /\ q.status = "PROCESSING" /\ q.owned = TRUE
        /\ q.attempts = r.attempts /\ q.wait = t
    BY <1>1 DEF Notes, NoteStatuses
  <1> QED
    BY <1>2 DEF IsNote

\* How a row may change: one whose transaction has committed does not appear or come back.
NoteMoves(d) ==
    /\ delivery[d].status # "ABSENT" => delivery'[d].status # "ABSENT"
    /\ delivery[d].status \in Passed /\ enqueue[d[2]].phase = "sent"
       => delivery'[d].status \in Passed

LEMMA TurnStays ==
    ASSUME NotificationInv, NEW d \in N!Deliveries, Turn(d), sent \subseteq sent',
           \A c \in N!Deliveries : NoteMoves(c)
    PROVE  Turn(d)'
  <1>1. d[1] \in Scopes /\ d[2] \in N!Events
    BY DEF N!Deliveries
  <1>2. enqueue[d[2]].phase = "sent"
    BY DEF NotificationInv, NoteSound, Turn
  <1>3. ASSUME NEW e \in N!Events, e < d[2]
        PROVE  <<d[1], e>> \in sent' \/ delivery'[<<d[1], e>>].status \in Passed
    <2>1. PICK c \in N!Deliveries : c = <<d[1], e>> /\ c[2] = e
      <3>1. <<d[1], e>> \in N!Deliveries /\ <<d[1], e>>[2] = e
        BY <1>1 DEF N!Deliveries
      <3> QED
        BY <3>1
    <2>2. enqueue[e].phase = "sent"
      BY <1>1, <1>2, <1>3 DEF NotificationInv, EventsInTurn
    <2>3. c \in sent \/ delivery[c].status \in Passed
      BY <1>3, <2>1 DEF Turn
    <2>4. NoteMoves(c)
      OBVIOUS
    <2> QED
      BY <2>1, <2>2, <2>3, <2>4 DEF NoteMoves
  <1>4. delivery'[d].status # "ABSENT"
    BY DEF NoteMoves, Turn
  <1> QED
    BY <1>3, <1>4 DEF Turn

\* A step that sends nothing.
LEMMA NoteStep ==
    ASSUME NotificationInv, NotificationTypes', EventsInTurn', sent' = sent,
           \A d \in N!Deliveries : NoteSound(d)' /\ NoteMoves(d),
           \A w \in Invocations : worker'[w] = worker[w] \/ InvocationSound(w)'
    PROVE  NotificationInv'
  <1>1. \A d \in sent' : Turn(d)'
    BY TurnStays DEF NotificationInv, NotificationTypes
  <1>2. ASSUME NEW w \in Invocations, worker'[w] = worker[w] PROVE InvocationSound(w)'
    <2>1. InvocationSound(w)
      BY DEF NotificationInv
    <2>2. \A d \in N!Deliveries : Carries(w, d)' => Turn(d)'
      BY <1>2, <2>1, TurnStays DEF InvocationSound, Carries
    <2> QED
      BY <1>2, <2>1, <2>2 DEF InvocationSound
  <1> QED
    BY <1>1, <1>2 DEF NotificationInv

\* A step that leaves the rows and their transactions alone.
LEMMA NotesAlone ==
    ASSUME NotificationInv, UNCHANGED <<delivery, enqueue, sent>>
    PROVE  /\ EventsInTurn'
           /\ \A d \in N!Deliveries : NoteSound(d)' /\ NoteMoves(d)
  <1>1. EventsInTurn'
    BY DEF NotificationInv, EventsInTurn
  <1>2. \A d \in N!Deliveries : NoteSound(d)'
    BY DEF NotificationInv, NoteSound
  <1>3. \A d \in N!Deliveries : NoteMoves(d)
    BY DEF NoteMoves
  <1> QED
    BY <1>1, <1>2, <1>3

\* A row that is unchanged, or cancelled while in flight.
LEMMA CancelledNote ==
    ASSUME NotificationInv, UNCHANGED <<enqueue, sent>>, NEW d \in N!Deliveries,
           delivery'[d] = delivery[d]
           \/ (/\ delivery[d].status \in N!Live
               /\ delivery'[d] = [delivery[d] EXCEPT !.status = "CANCELLED", !.owned = FALSE])
    PROVE  NoteSound(d)' /\ NoteMoves(d) /\ IsNote(delivery'[d])
  <1>1. NoteSound(d) /\ IsNote(delivery[d])
    BY DEF NotificationInv, NotificationTypes
  <1>2. CASE delivery'[d] = delivery[d]
    BY <1>1, <1>2 DEF NoteSound, NoteMoves
  <1>3. CASE /\ delivery[d].status \in N!Live
             /\ delivery'[d] = [delivery[d] EXCEPT !.status = "CANCELLED", !.owned = FALSE]
    <2>1. /\ IsNote(delivery'[d]) /\ delivery'[d].status = "CANCELLED" /\ delivery'[d].owned = FALSE
          /\ delivery'[d].attempts = delivery[d].attempts /\ delivery'[d].wait = delivery[d].wait
      <3>1. PICK r, q : r = delivery[d] /\ q = delivery'[d]
        OBVIOUS
      <3>2. IsNote(r) /\ q = [r EXCEPT !.status = "CANCELLED", !.owned = FALSE]
        BY <1>1, <1>3, <3>1
      <3>3. /\ IsNote(q) /\ q.status = "CANCELLED" /\ q.owned = FALSE
            /\ q.attempts = r.attempts /\ q.wait = r.wait
        BY <3>2, NoteCancels, Zenon
      <3> QED
        BY <3>1, <3>3
    <2>2. delivery[d].status # "ABSENT" /\ delivery[d].status \notin Passed
      BY <1>3 DEF N!Live, Passed
    <2>3. NoteMoves(d)
      BY <2>1, <2>2 DEF NoteMoves
    <2>4. NoteSound(d)'
      <3>1. delivery'[d].owned <=> delivery'[d].status = "PROCESSING"
        BY <2>1
      <3> QED
        BY <1>1, <2>1, <2>2, <3>1 DEF NoteSound, NoteStatuses, Settled, N!Live
    <2> QED
      BY <2>1, <2>3, <2>4
  <1> QED
    BY <1>2, <1>3

-----------------------------------------------------------------------------
(* Notifications: preferences, events and time *)

LEMMA ReadConfigureKeeps ==
    ASSUME QueuesAssumption, NotificationInv, NEW p \in Scopes, N!ReadConfigure(p)
    PROVE  NotificationInv'
  <1>1. UNCHANGED <<minute, member, preference, enqueue, delivery, worker, sent>>
    BY DEF N!ReadConfigure
  <1>2. NotificationTypes'
    BY <1>1 DEF NotificationInv, NotificationTypes
  <1> QED
    BY <1>1, <1>2, NotesAlone, NoteStep

LEMMA WriteConfigureKeeps ==
    ASSUME QueuesAssumption, NotificationInv, NEW p \in Scopes, N!WriteConfigure(p)
    PROVE  NotificationInv'
  <1>1. UNCHANGED <<minute, member, enqueue, delivery, worker, sent>>
    BY DEF N!WriteConfigure
  <1>2. preference' = preference
        \/ \E s \in Schedules : preference' = [preference EXCEPT ![p] = [status |-> "ACTIVE", schedule |-> s]]
    BY DEF N!WriteConfigure
  <1>3. preference' \in [Scopes -> [status : N!Statuses, schedule : Schedules]]
    BY <1>2 DEF NotificationInv, NotificationTypes, N!Statuses
  <1>4. NotificationTypes'
    BY <1>1, <1>3 DEF NotificationInv, NotificationTypes
  <1> QED
    BY <1>1, <1>4, NotesAlone, NoteStep

\* The updates of a disabled or opted-out preference.
LEMMA CancelOfKeeps ==
    ASSUME QueuesAssumption, NotificationInv, NEW scopes, N!CancelOf(scopes),
           UNCHANGED <<minute, member, enqueue, worker, sent>>,
           preference' \in [Scopes -> [status : N!Statuses, schedule : Schedules]]
    PROVE  NotificationInv'
  <1>1. \A d \in N!Deliveries : NoteSound(d)' /\ NoteMoves(d) /\ IsNote(delivery'[d])
    <2>1. \A d \in N!Deliveries :
              \/ delivery'[d] = delivery[d]
              \/ /\ delivery[d].status \in N!Live
                 /\ delivery'[d] = [delivery[d] EXCEPT !.status = "CANCELLED", !.owned = FALSE]
      BY DEF N!CancelOf
    <2> QED
      BY <2>1, CancelledNote
  <1>2. delivery' = [d \in N!Deliveries |-> delivery'[d]]
    BY DEF N!CancelOf
  <1>3. NotificationTypes'
    BY <1>1, <1>2 DEF NotificationInv, NotificationTypes
  <1>4. EventsInTurn'
    BY DEF NotificationInv, EventsInTurn
  <1> QED
    BY <1>1, <1>3, <1>4, NoteStep

LEMMA DisableKeeps ==
    ASSUME QueuesAssumption, NotificationInv, NEW p \in Scopes, N!Disable(p)
    PROVE  NotificationInv'
  <1>1. /\ UNCHANGED <<minute, member, enqueue, worker, sent>> /\ N!CancelOf({p})
        /\ preference' = [preference EXCEPT ![p].status = IF @ = "OPTED_OUT" THEN @ ELSE "DISABLED"]
    BY DEF N!Disable
  <1>2. preference' \in [Scopes -> [status : N!Statuses, schedule : Schedules]]
    BY <1>1 DEF NotificationInv, NotificationTypes, N!Statuses
  <1> QED
    BY <1>1, <1>2, CancelOfKeeps

LEMMA OptOutKeeps ==
    ASSUME QueuesAssumption, NotificationInv, N!OptOut
    PROVE  NotificationInv'
  <1>1. PICK mine \in SUBSET Scopes :
            /\ UNCHANGED <<minute, member, enqueue, worker, sent>> /\ N!CancelOf(mine)
            /\ preference' = [p \in Scopes |-> IF p \in mine
                   THEN [preference[p] EXCEPT !.status = "OPTED_OUT"] ELSE preference[p]]
    BY DEF N!OptOut
  <1>2. preference' \in [Scopes -> [status : N!Statuses, schedule : Schedules]]
    BY <1>1 DEF NotificationInv, NotificationTypes, N!Statuses
  <1> QED
    BY <1>1, <1>2, CancelOfKeeps

LEMMA SuspendKeeps ==
    ASSUME QueuesAssumption, NotificationInv, N!Suspend
    PROVE  NotificationInv'
  <1>1. UNCHANGED <<minute, preference, enqueue, delivery, worker, sent>> /\ member' = ~member
    BY DEF N!Suspend
  <1>2. NotificationTypes'
    BY <1>1 DEF NotificationInv, NotificationTypes
  <1> QED
    BY <1>1, <1>2, NotesAlone, NoteStep

LEMMA OpenNoteKeeps ==
    ASSUME QueuesAssumption, NotificationInv, NEW e \in N!Events, N!OpenEnqueue(e)
    PROVE  NotificationInv'
  <1>1. /\ UNCHANGED <<minute, member, preference, delivery, worker, sent>>
        /\ enqueue[e].phase = "new" /\ (e > 1 => enqueue[e - 1].phase = "sent")
    BY DEF N!OpenEnqueue
  <1>2. PICK phase, at :
            /\ phase # "sent" /\ phase # "new"
            /\ enqueue' = [enqueue EXCEPT ![e] = [phase |-> phase, at |-> at]]
    <2>1. \/ enqueue' = [enqueue EXCEPT ![e] = [phase |-> "failed", at |-> <<>>]]
          \/ \E at : enqueue' = [enqueue EXCEPT ![e] = [phase |-> "open", at |-> at]]
      BY Zenon DEF N!OpenEnqueue
    <2>2. "failed" # "sent" /\ "failed" # "new" /\ "open" # "sent" /\ "open" # "new"
      OBVIOUS
    <2> QED
      BY <2>1, <2>2, Zenon
  <1>3. /\ enqueue' = [f \in N!Events |-> enqueue'[f]]
        /\ enqueue'[e] = [phase |-> phase, at |-> at]
        /\ \A f \in N!Events : f # e => enqueue'[f] = enqueue[f]
    BY <1>2 DEF NotificationInv, NotificationTypes
  <1>4. NotificationTypes'
    <2>1. \A f \in N!Events : IsFanOut(enqueue'[f])
      BY <1>3 DEF IsFanOut, NotificationInv, NotificationTypes
    <2> QED
      BY <1>1, <1>3, <2>1 DEF NotificationInv, NotificationTypes
  <1>5. EventsInTurn'
    <2>1. SUFFICES ASSUME NEW g \in N!Events, enqueue'[g].phase # "new", NEW f \in N!Events, f < g
                   PROVE  enqueue'[f].phase = "sent"
      BY DEF EventsInTurn
    <2>2. f \in Int /\ g \in Int /\ e \in Int /\ MaxEvents \in Nat
      BY QueuesAssumption DEF N!Events, QueuesAssumption, N!NotificationAssumption
    <2>3. CASE g = e
      <3>1. e > 1 /\ e - 1 \in N!Events /\ (f < e - 1 \/ f = e - 1)
        BY <2>1, <2>2, <2>3 DEF N!Events
      <3>2. enqueue[e - 1].phase = "sent"
        BY <1>1, <3>1
      <3>3. enqueue[f].phase = "sent"
        BY <3>1, <3>2 DEF NotificationInv, EventsInTurn
      <3> QED
        BY <1>3, <2>1, <2>2, <2>3, <3>3
    <2>4. CASE g # e
      <3>1. enqueue[f].phase = "sent"
        BY <1>3, <2>1, <2>4 DEF NotificationInv, EventsInTurn
      <3> QED
        BY <1>1, <1>3, <3>1
    <2> QED
      BY <2>3, <2>4
  <1>6. ASSUME NEW d \in N!Deliveries PROVE NoteSound(d)' /\ NoteMoves(d)
    <2>1. NoteSound(d) /\ d[2] \in N!Events
      BY DEF NotificationInv, N!Deliveries
    <2>2. enqueue[d[2]].phase = "sent" => enqueue'[d[2]].phase = "sent"
      BY <1>1, <1>3, <2>1
    <2> QED
      BY <1>1, <2>1, <2>2 DEF NoteSound, NoteMoves
  <1> QED
    BY <1>1, <1>4, <1>5, <1>6, NoteStep

LEMMA CommitNoteKeeps ==
    ASSUME QueuesAssumption, NotificationInv, NEW e \in N!Events, N!CommitEnqueue(e)
    PROVE  NotificationInv'
  <1>1. /\ UNCHANGED <<minute, member, preference, worker, sent>> /\ enqueue[e].phase = "open"
        /\ enqueue' = [enqueue EXCEPT ![e] = [phase |-> "sent", at |-> <<>>]]
    BY DEF N!CommitEnqueue
  <1>2. /\ enqueue' = [f \in N!Events |-> enqueue'[f]]
        /\ enqueue'[e] = [phase |-> "sent", at |-> <<>>]
        /\ \A f \in N!Events : f # e => enqueue'[f] = enqueue[f]
    BY <1>1 DEF NotificationInv, NotificationTypes
  <1>3. ASSUME NEW d \in N!Deliveries
        PROVE  \/ delivery'[d] = delivery[d]
               \/ d[2] = e /\ \E t : delivery'[d] = N!Row("PENDING", t)
    BY DEF N!CommitEnqueue
  <1>4. ASSUME NEW d \in N!Deliveries
        PROVE  NoteSound(d)' /\ NoteMoves(d) /\ IsNote(delivery'[d])
    <2>1. NoteSound(d) /\ d[2] \in N!Events /\ IsNote(delivery[d])
      BY DEF NotificationInv, NotificationTypes, N!Deliveries
    <2>2. enqueue[d[2]].phase = "sent" => enqueue'[d[2]].phase = "sent" /\ d[2] # e
      BY <1>1, <1>2, <2>1
    <2>3. CASE delivery'[d] = delivery[d]
      BY <1>1, <2>1, <2>2, <2>3 DEF NoteSound, NoteMoves
    <2>4. CASE d[2] = e /\ \E t : delivery'[d] = N!Row("PENDING", t)
      <3>1. PICK t : delivery'[d] = N!Row("PENDING", t)
        BY <2>4
      <3>2. /\ delivery'[d].status = "PENDING" /\ delivery'[d].attempts = 0 /\ IsNote(delivery'[d])
            /\ ~delivery'[d].owned
        <4>1. PICK q : q = N!Row("PENDING", t)
          OBVIOUS
        <4>2. q.owned = ("PENDING" = "PROCESSING") /\ "PENDING" # "PROCESSING"
          BY <4>1 DEF N!Row
        <4>3. q.status = "PENDING" /\ q.attempts = 0 /\ q \in Notes({t}) /\ q.wait = t
          BY <4>1 DEF N!Row, Notes, NoteStatuses
        <4>4. ~q.owned
          BY <4>2
        <4> QED
          BY <3>1, <4>1, <4>3, <4>4 DEF IsNote
      <3>3. SendAttempts \in Nat \ {0}
        BY QueuesAssumption DEF QueuesAssumption, N!NotificationAssumption
      <3>4. enqueue'[d[2]].phase = "sent"
        BY <1>2, <2>4
      <3>5. delivery'[d].owned <=> delivery'[d].status = "PROCESSING"
        BY <3>2
      <3>6. NoteSound(d)'
        BY <3>2, <3>3, <3>4, <3>5 DEF NoteSound, NoteStatuses, Settled
      <3> QED
        BY <2>2, <2>4, <3>2, <3>6 DEF NoteMoves
    <2> QED
      BY <1>3, <2>3, <2>4
  <1>5. NotificationTypes'
    <2>1. \A f \in N!Events : IsFanOut(enqueue'[f])
      BY <1>2 DEF IsFanOut, NotificationInv, NotificationTypes
    <2>2. delivery' = [d \in N!Deliveries |-> delivery'[d]]
      BY DEF N!CommitEnqueue
    <2> QED
      BY <1>1, <1>2, <1>4, <2>1, <2>2 DEF NotificationInv, NotificationTypes
  <1>6. EventsInTurn'
    BY <1>1, <1>2 DEF NotificationInv, EventsInTurn
  <1> QED
    BY <1>1, <1>4, <1>5, <1>6, NoteStep

\* A row whose wait changes, to one that is not a minute or not at all.
LEMMA WaitsOtherwise ==
    ASSUME NotificationInv, NEW d \in N!Deliveries,
           delivery'[d] = delivery[d]
           \/ \E t : t \notin N!Day /\ delivery'[d] = [delivery[d] EXCEPT !.wait = t],
           enqueue'[d[2]].phase = enqueue[d[2]].phase, sent' = sent
    PROVE  NoteSound(d)' /\ NoteMoves(d) /\ IsNote(delivery'[d])
  <1>1. NoteSound(d) /\ IsNote(delivery[d])
    BY DEF NotificationInv, NotificationTypes
  <1>2. /\ IsNote(delivery'[d]) /\ delivery'[d].status = delivery[d].status
        /\ delivery'[d].attempts = delivery[d].attempts
        /\ delivery'[d].owned = delivery[d].owned
        /\ delivery'[d].wait = delivery[d].wait \/ delivery'[d].wait \notin N!Day
    <2>1. CASE delivery'[d] = delivery[d]
      BY <1>1, <2>1
    <2>2. CASE \E t : t \notin N!Day /\ delivery'[d] = [delivery[d] EXCEPT !.wait = t]
      <3>1. PICK t : t \notin N!Day /\ delivery'[d] = [delivery[d] EXCEPT !.wait = t]
        BY <2>2
      <3>2. PICK r, q : r = delivery[d] /\ q = delivery'[d]
        OBVIOUS
      <3>3. IsNote(r) /\ q = [r EXCEPT !.wait = t]
        BY <1>1, <3>1, <3>2
      <3>4. /\ IsNote(q) /\ q.status = r.status /\ q.attempts = r.attempts
            /\ q.owned = r.owned /\ q.wait = t
        BY <3>3, NoteWaits, Zenon
      <3> QED
        BY <3>1, <3>2, <3>4
    <2> QED
      BY <2>1, <2>2
  <1>3. delivery'[d].owned <=> delivery'[d].status = "PROCESSING"
    BY <1>1, <1>2 DEF NoteSound
  <1>4. NoteSound(d)'
    BY <1>1, <1>2, <1>3 DEF NoteSound
  <1>5. NoteMoves(d)
    BY <1>2 DEF NoteMoves
  <1> QED
    BY <1>2, <1>4, <1>5

LEMMA ExpireLeaseKeeps ==
    ASSUME QueuesAssumption, NotificationInv, NEW d \in N!Deliveries, N!ExpireLease(d)
    PROVE  NotificationInv'
  <1>1. /\ UNCHANGED <<minute, member, preference, enqueue, worker, sent>>
        /\ delivery' = [delivery EXCEPT ![d].wait = N!Due]
    BY DEF N!ExpireLease
  <1>2. N!Due \notin N!Day
    BY DEF N!Due, N!Day
  <1>3. /\ delivery' = [c \in N!Deliveries |-> delivery'[c]]
        /\ delivery'[d] = [delivery[d] EXCEPT !.wait = N!Due]
        /\ \A c \in N!Deliveries : c # d => delivery'[c] = delivery[c]
    BY <1>1 DEF NotificationInv, NotificationTypes
  <1>4. \A c \in N!Deliveries : NoteSound(c)' /\ NoteMoves(c) /\ IsNote(delivery'[c])
    BY <1>1, <1>2, <1>3, WaitsOtherwise
  <1>5. NotificationTypes'
    BY <1>1, <1>3, <1>4 DEF NotificationInv, NotificationTypes
  <1>6. EventsInTurn'
    BY <1>1 DEF NotificationInv, EventsInTurn
  <1> QED
    BY <1>1, <1>4, <1>5, <1>6, NoteStep

LEMMA TickKeeps ==
    ASSUME QueuesAssumption, NotificationInv, N!Tick
    PROVE  NotificationInv'
  <1>1. /\ UNCHANGED <<member, preference, worker, sent>>
        /\ minute' = (minute + 1) % Minutes
        /\ delivery' = [d \in N!Deliveries |-> IF delivery[d].wait = (minute + 1) % Minutes
                            THEN [delivery[d] EXCEPT !.wait = N!Due] ELSE delivery[d]]
    BY DEF N!Tick
  <1>2. minute' \in N!Day
    <2>1. minute \in Int /\ Minutes \in Nat \ {0}
      BY QueuesAssumption
      DEF QueuesAssumption, N!NotificationAssumption, NotificationInv, NotificationTypes, N!Day
    <2> QED
      BY <1>1, <2>1 DEF N!Day
  <1>3. /\ enqueue' = [e \in N!Events |-> enqueue'[e]]
        /\ \A e \in N!Events : IsFanOut(enqueue'[e]) /\ enqueue'[e].phase = enqueue[e].phase
    <2>1. ASSUME NEW e \in N!Events
          PROVE  IsFanOut(enqueue'[e]) /\ enqueue'[e].phase = enqueue[e].phase
      <3>1. PICK at : enqueue'[e] = [enqueue[e] EXCEPT !.at = at]
        BY DEF N!Tick
      <3>2. PICK p, a : enqueue[e] = [phase |-> p, at |-> a]
        BY DEF IsFanOut, NotificationInv, NotificationTypes
      <3> QED
        BY <3>1, <3>2 DEF IsFanOut
    <2> QED
      BY <2>1 DEF N!Tick
  <1>4. N!Due \notin N!Day
    BY DEF N!Due, N!Day
  <1>5. \A d \in N!Deliveries : NoteSound(d)' /\ NoteMoves(d) /\ IsNote(delivery'[d])
    <2>1. \A d \in N!Deliveries : d[2] \in N!Events
      BY DEF N!Deliveries
    <2> QED
      BY <1>1, <1>3, <1>4, <2>1, WaitsOtherwise
  <1>6. NotificationTypes'
    <2>1. delivery' = [d \in N!Deliveries |-> delivery'[d]]
      BY <1>1
    <2> QED
      BY <1>1, <1>2, <1>3, <1>5, <2>1 DEF NotificationInv, NotificationTypes
  <1>7. EventsInTurn'
    BY <1>3 DEF NotificationInv, EventsInTurn
  <1> QED
    BY <1>1, <1>5, <1>6, <1>7, NoteStep

-----------------------------------------------------------------------------
(* Notifications: the worker *)

LEMMA InvokedTypes ==
    ASSUME NEW batch \in SUBSET N!Deliveries, NEW phase \in WorkerPhases
    PROVE  LET q == [N!Idle EXCEPT !.phase = phase, !.batch = batch]
           IN  q \in Invoked /\ q.phase = phase /\ q.batch = batch
  BY DEF N!Idle, Invoked, WorkerPhases

LEMMA IdleInvocation == N!Idle \in Invoked /\ N!Idle.phase = "idle" /\ N!Idle.batch = {}
  BY DEF N!Idle, Invoked, WorkerPhases

LEMMA DoneTypes ==
    ASSUME NotificationInv, NEW w \in Invocations
    PROVE  N!Done(w) \in Invoked /\ N!Done(w).phase \in {"idle", "next"}
           /\ N!Done(w).batch = worker[w].batch
  <1>1. PICK batch \in SUBSET N!Deliveries : batch = worker[w].batch
    BY DEF NotificationInv, NotificationTypes, Invoked
  <1>2. PICK phase \in {"idle", "next"} : phase = IF batch = {} THEN "idle" ELSE "next"
    OBVIOUS
  <1>3. phase \in WorkerPhases
    BY DEF WorkerPhases
  <1>4. N!Done(w) = [N!Idle EXCEPT !.phase = phase, !.batch = batch]
    BY <1>1, <1>2 DEF N!Done
  <1>5. LET q == [N!Idle EXCEPT !.phase = phase, !.batch = batch]
        IN  q \in Invoked /\ q.phase = phase /\ q.batch = batch
    BY <1>3, InvokedTypes
  <1> QED
    BY <1>1, <1>2, <1>4, <1>5

\* An invocation that goes on to hold no more than it did.
LEMMA HoldsLess ==
    ASSUME NotificationInv, NEW w \in Invocations, NEW state \in Invoked,
           worker' = [worker EXCEPT ![w] = state],
           state.phase \in {"idle", "next"}, state.batch \subseteq worker[w].batch,
           \A d \in N!Deliveries : NoteMoves(d), sent' = sent
    PROVE  /\ worker' \in [Invocations -> Invoked]
           /\ \A v \in Invocations : worker'[v] = worker[v] \/ InvocationSound(v)'
  <1>1. worker'[w] = state /\ worker' \in [Invocations -> Invoked]
        /\ \A v \in Invocations : v # w => worker'[v] = worker[v]
    BY DEF NotificationInv, NotificationTypes
  <1>2. ASSUME NEW d \in N!Deliveries, Carries(w, d)' PROVE Turn(d)'
    <2>1. Carries(w, d) /\ InvocationSound(w)
      BY <1>1, <1>2 DEF Carries, Working, NotificationInv
    <2> QED
      BY <2>1, TurnStays DEF InvocationSound
  <1>3. InvocationSound(w)'
    BY <1>1, <1>2 DEF InvocationSound, Working
  <1> QED
    BY <1>1, <1>3

\* A step of an invocation that leaves the rows alone.
LEMMA InvocationOnly ==
    ASSUME NotificationInv, NEW w \in Invocations, NEW state \in Invoked,
           worker' = [worker EXCEPT ![w] = state], InvocationSound(w)',
           UNCHANGED <<minute, member, preference, enqueue, delivery, sent>>
    PROVE  NotificationInv'
  <1>1. NotificationTypes'
    BY DEF NotificationInv, NotificationTypes
  <1>2. \A v \in Invocations : worker'[v] = worker[v] \/ InvocationSound(v)'
    BY DEF NotificationInv, NotificationTypes
  <1> QED
    BY <1>1, <1>2, NotesAlone, NoteStep

LEMMA ClaimNoteKeeps ==
    ASSUME QueuesAssumption, NotificationInv, NEW w \in Invocations, N!Claim(w)
    PROVE  NotificationInv'
  <1>1. PICK batch \in SUBSET N!Deliveries :
            /\ \A d \in batch : N!Claimable(d)
            /\ delivery' = [d \in N!Deliveries |-> IF d \in batch
                   THEN [delivery[d] EXCEPT !.status = "PROCESSING", !.owned = TRUE, !.wait = N!Leasing]
                   ELSE delivery[d]]
            /\ worker' = [worker EXCEPT ![w] = [N!Idle EXCEPT !.phase = "next", !.batch = batch]]
    BY DEF N!Claim
  <1>2. UNCHANGED <<minute, member, preference, enqueue, sent>>
    BY DEF N!Claim
  <1>3. ASSUME NEW d \in batch
        PROVE  /\ delivery[d].status \in N!Live /\ d \in N!Deliveries
               /\ \A e \in N!Events : e < d[2] => delivery[<<d[1], e>>].status \notin N!Live
    <2>1. N!Claimable(d)
      BY <1>1
    <2>2. delivery[d].status \in N!Live /\ N!First(d)
      BY <2>1 DEF N!Claimable
    <2>3. d[2] \in Int /\ \A e \in N!Events : e < d[2] => e \in 1 .. d[2] - 1
      BY DEF N!Deliveries, N!Events
    <2> QED
      BY <2>2, <2>3 DEF N!First
  <1>4. ASSUME NEW d \in batch
        PROVE  NoteSound(d)' /\ NoteMoves(d) /\ IsNote(delivery'[d]) /\ delivery'[d].status = "PROCESSING"
    <2>1. /\ NoteSound(d) /\ IsNote(delivery[d]) /\ d \in N!Deliveries
          /\ delivery[d].status \in N!Live
      BY <1>3 DEF NotificationInv, NotificationTypes
    <2>2. PICK r, q : r = delivery[d] /\ q = delivery'[d]
      OBVIOUS
    <2>3. IsNote(r) /\ q = [r EXCEPT !.status = "PROCESSING", !.owned = TRUE, !.wait = N!Leasing]
      BY <1>1, <2>1, <2>2
    <2>4. /\ IsNote(q) /\ q.status = "PROCESSING" /\ q.owned = TRUE
          /\ q.attempts = r.attempts /\ q.wait = N!Leasing
      BY <2>3, NoteLeases, Zenon
    <2>5. N!Leasing \notin N!Day
      BY DEF N!Leasing, N!Day
    <2>6. delivery'[d].owned <=> delivery'[d].status = "PROCESSING"
      BY <2>2, <2>4
    <2>7. delivery[d].status # "ABSENT" /\ delivery[d].status \notin Passed
      BY <2>1 DEF N!Live, Passed
    <2>8. NoteSound(d)'
      BY <1>2, <2>1, <2>2, <2>4, <2>5, <2>6, <2>7 DEF NoteSound, NoteStatuses, Settled, N!Live
    <2> QED
      BY <2>2, <2>4, <2>7, <2>8 DEF NoteMoves
  <1>5. ASSUME NEW d \in N!Deliveries
        PROVE  NoteSound(d)' /\ NoteMoves(d) /\ IsNote(delivery'[d])
    <2>1. CASE d \in batch
      BY <1>4, <2>1
    <2>2. CASE d \notin batch
      <3>1. delivery'[d] = delivery[d]
        BY <1>1, <2>2
      <3> QED
        BY <1>2, <3>1, CancelledNote
    <2> QED
      BY <2>1, <2>2
  <1>6. /\ worker' \in [Invocations -> Invoked]
        /\ worker'[w].phase = "next" /\ worker'[w].batch = batch
        /\ \A v \in Invocations : v # w => worker'[v] = worker[v]
    <2>1. LET q == [N!Idle EXCEPT !.phase = "next", !.batch = batch]
          IN  q \in Invoked /\ q.phase = "next" /\ q.batch = batch
      BY InvokedTypes DEF WorkerPhases
    <2> QED
      BY <1>1, <2>1 DEF NotificationInv, NotificationTypes
  <1>7. ASSUME NEW d \in batch PROVE Turn(d)'
    <2>1. d \in N!Deliveries /\ d[1] \in Scopes
      BY DEF N!Deliveries
    <2>2. ASSUME NEW e \in N!Events, e < d[2]
          PROVE  <<d[1], e>> \in sent' \/ delivery'[<<d[1], e>>].status \in Passed
      <3>1. PICK c \in N!Deliveries : c = <<d[1], e>>
        <4>1. <<d[1], e>> \in N!Deliveries
          BY <2>1 DEF N!Deliveries
        <4> QED
          BY <4>1
      <3>2. delivery[c].status \notin N!Live
        BY <1>3, <2>2, <3>1
      <3>3. delivery'[c] = delivery[c]
        BY <1>1, <1>3, <3>2
      <3>4. NoteSound(c)
        BY DEF NotificationInv
      <3> QED
        BY <1>2, <3>1, <3>2, <3>3, <3>4 DEF NoteSound, NoteStatuses, N!Live, Passed, Settled
    <2>3. delivery'[d].status # "ABSENT"
      BY <1>4
    <2> QED
      BY <2>2, <2>3 DEF Turn
  <1>8. InvocationSound(w)'
    BY <1>6, <1>7 DEF InvocationSound, Carries, Working
  <1>9. NotificationTypes'
    <2>1. delivery' = [d \in N!Deliveries |-> delivery'[d]]
      BY <1>1
    <2> QED
      BY <1>2, <1>5, <1>6, <2>1 DEF NotificationInv, NotificationTypes
  <1>10. EventsInTurn'
    BY <1>2 DEF NotificationInv, EventsInTurn
  <1> QED
    BY <1>2, <1>5, <1>6, <1>8, <1>9, <1>10, NoteStep

LEMMA TakeNoteKeeps ==
    ASSUME QueuesAssumption, NotificationInv, NEW w \in Invocations, N!Take(w)
    PROVE  NotificationInv'
  <1>1. PICK s \in Invoked : s = worker[w]
    BY DEF NotificationInv, NotificationTypes
  <1>2. PICK d \in N!Deliveries, phase \in {"checked", "cancel"} :
            /\ d \in s.batch
            /\ worker' = [worker EXCEPT ![w].batch = @ \ {d}, ![w].current = d, ![w].phase = phase]
    <2>1. PICK d \in s.batch :
              worker' = [worker EXCEPT ![w].batch = @ \ {d}, ![w].current = d,
                             ![w].phase = IF N!Receives(d[1]) THEN "checked" ELSE "cancel"]
      BY <1>1 DEF N!Take
    <2>2. d \in N!Deliveries
      BY DEF Invoked
    <2> QED
      BY <2>1, <2>2
  <1>3. UNCHANGED <<minute, member, preference, enqueue, delivery, sent>> /\ InvocationSound(w)
    BY DEF N!Take, NotificationInv
  <1> DEFINE t == [s EXCEPT !.batch = s.batch \ {d}, !.current = d, !.phase = phase]
  <1>4. worker' = [worker EXCEPT ![w] = t]
    BY <1>1, <1>2 DEF NotificationInv, NotificationTypes, Invoked
  <1>5. t \in Invoked /\ t.batch = s.batch \ {d} /\ t.current = d /\ t.phase = phase
    BY DEF Invoked, WorkerPhases
  <1> HIDE DEF t
  <1>6. worker'[w] = t
    BY <1>4 DEF NotificationInv, NotificationTypes
  <1>7. InvocationSound(w)'
    <2>1. ASSUME NEW c \in N!Deliveries, Carries(w, c)' PROVE Turn(c)'
      <3>1. c \in worker[w].batch
        BY <1>1, <1>2, <1>5, <1>6, <2>1 DEF Carries
      <3>2. Turn(c)
        BY <1>3, <3>1 DEF InvocationSound, Carries
      <3> QED
        BY <1>3, <3>2 DEF Turn
    <2> QED
      BY <1>5, <1>6, <2>1 DEF InvocationSound
  <1> QED
    BY <1>3, <1>4, <1>5, <1>7, InvocationOnly

LEMMA CancelClaimKeeps ==
    ASSUME QueuesAssumption, NotificationInv, NEW w \in Invocations, N!CancelClaim(w)
    PROVE  NotificationInv'
  <1>1. PICK d \in N!Deliveries :
            delivery' = IF N!Leased(d)
                        THEN [delivery EXCEPT ![d].status = "CANCELLED", ![d].owned = FALSE] ELSE delivery
    <2>1. worker[w].current \in N!Deliveries
      BY DEF N!CancelClaim, NotificationInv, InvocationSound, Working
    <2> QED
      BY <2>1 DEF N!CancelClaim
  <1>2. /\ UNCHANGED <<minute, member, preference, enqueue, sent>>
        /\ worker' = [worker EXCEPT ![w] = N!Done(w)]
    BY DEF N!CancelClaim
  <1>3. /\ delivery' = [c \in N!Deliveries |-> delivery'[c]]
        /\ \A c \in N!Deliveries :
              \/ delivery'[c] = delivery[c]
              \/ /\ delivery[c].status \in N!Live
                 /\ delivery'[c] = [delivery[c] EXCEPT !.status = "CANCELLED", !.owned = FALSE]
    <2>1. CASE ~N!Leased(d)
      BY <1>1, <2>1 DEF NotificationInv, NotificationTypes
    <2>2. CASE N!Leased(d)
      <3>1. delivery' = [delivery EXCEPT ![d] = [delivery[d] EXCEPT !.status = "CANCELLED", !.owned = FALSE]]
        BY <1>1, <2>2 DEF NotificationInv, NotificationTypes
      <3>2. delivery[d].status \in N!Live
        BY <2>2 DEF N!Leased, N!Live
      <3> QED
        BY <3>1, <3>2 DEF NotificationInv, NotificationTypes
    <2> QED
      BY <2>1, <2>2
  <1>4. \A c \in N!Deliveries : NoteSound(c)' /\ NoteMoves(c) /\ IsNote(delivery'[c])
    BY <1>2, <1>3, CancelledNote
  <1>5. /\ worker' \in [Invocations -> Invoked]
        /\ \A v \in Invocations : worker'[v] = worker[v] \/ InvocationSound(v)'
    BY <1>2, <1>4, DoneTypes, HoldsLess
  <1>6. NotificationTypes'
    BY <1>2, <1>3, <1>4, <1>5 DEF NotificationInv, NotificationTypes
  <1>7. EventsInTurn'
    BY <1>2 DEF NotificationInv, EventsInTurn
  <1> QED
    BY <1>2, <1>4, <1>5, <1>6, <1>7, NoteStep

LEMMA SendKeeps ==
    ASSUME QueuesAssumption, NotificationInv, NEW w \in Invocations, N!Send(w)
    PROVE  NotificationInv'
  <1>1. PICK s \in Invoked : s = worker[w]
    BY DEF NotificationInv, NotificationTypes
  <1>2. PICK d \in N!Deliveries : d = s.current
    BY <1>1 DEF N!Send, NotificationInv, InvocationSound, Working
  <1>3. /\ UNCHANGED <<minute, member, preference, enqueue, delivery>>
        /\ s.phase = "checked" /\ sent' = sent \cup {d} /\ InvocationSound(w)
    BY <1>1, <1>2 DEF N!Send, NotificationInv
  <1>4. PICK result \in {"SUCCEEDED", "RETRYABLE", "TERMINAL"} :
            worker' = [worker EXCEPT ![w].phase = "sent", ![w].result = result]
    BY DEF N!Send
  <1> DEFINE t == [s EXCEPT !.phase = "sent", !.result = result]
  <1>5. worker' = [worker EXCEPT ![w] = t]
    BY <1>1, <1>4 DEF NotificationInv, NotificationTypes, Invoked
  <1>6. t \in Invoked /\ t.batch = s.batch /\ t.current = d /\ t.phase = "sent"
    BY <1>2 DEF Invoked, WorkerPhases
  <1> HIDE DEF t
  <1>7. /\ worker'[w] = t /\ worker' \in [Invocations -> Invoked]
        /\ \A v \in Invocations : v # w => worker'[v] = worker[v]
    BY <1>5, <1>6 DEF NotificationInv, NotificationTypes
  <1>8. \A c \in N!Deliveries : NoteMoves(c)
    BY <1>3 DEF NoteMoves
  <1>9. \A c \in N!Deliveries : Turn(c) => Turn(c)'
    BY <1>3, <1>8, TurnStays
  <1>10. InvocationSound(w)'
    <2>1. \A c \in N!Deliveries : Carries(w, c)' => Carries(w, c)
      BY <1>1, <1>2, <1>3, <1>6, <1>7 DEF Carries, Working
    <2> QED
      BY <1>3, <1>6, <1>7, <1>9, <2>1 DEF InvocationSound
  <1>11. ASSUME NEW v \in Invocations, v # w PROVE InvocationSound(v)'
    <2>1. InvocationSound(v) /\ worker'[v] = worker[v]
      BY <1>7, <1>11 DEF NotificationInv
    <2> QED
      BY <1>3, <1>9, <2>1 DEF InvocationSound, Carries
  <1>12. Turn(d) /\ \A c \in sent : c \in N!Deliveries /\ Turn(c)
    BY <1>1, <1>2, <1>3 DEF InvocationSound, Carries, Working, NotificationInv, NotificationTypes
  <1>13. \A c \in sent' : Turn(c)'
    BY <1>3, <1>9, <1>12
  <1>14. NotificationTypes'
    BY <1>3, <1>7 DEF NotificationInv, NotificationTypes
  <1>15. EventsInTurn' /\ \A c \in N!Deliveries : NoteSound(c)'
    BY <1>3 DEF NotificationInv, EventsInTurn, NoteSound
  <1> QED
    BY <1>10, <1>11, <1>13, <1>14, <1>15 DEF NotificationInv

LEMMA ReadNoteKeeps ==
    ASSUME QueuesAssumption, NotificationInv, NEW w \in Invocations, N!ReadAttempt(w)
    PROVE  NotificationInv'
  <1>1. PICK s \in Invoked : s = worker[w]
    BY DEF NotificationInv, NotificationTypes
  <1>2. /\ UNCHANGED <<minute, member, preference, enqueue, delivery, sent>>
        /\ s.phase = "sent" /\ InvocationSound(w)
    BY <1>1 DEF N!ReadAttempt, NotificationInv
  <1>3. CASE N!Leased(worker[w].current)
    <2> DEFINE t == [s EXCEPT !.phase = "record"]
    <2>1. worker' = [worker EXCEPT ![w] = t]
      BY <1>1, <1>3 DEF N!ReadAttempt
    <2>2. t \in Invoked /\ t.batch = s.batch /\ t.current = s.current /\ t.phase = "record"
      BY DEF Invoked, WorkerPhases
    <2> HIDE DEF t
    <2>3. worker'[w] = t
      BY <2>1 DEF NotificationInv, NotificationTypes
    <2>4. InvocationSound(w)'
      <3>1. ASSUME NEW c \in N!Deliveries, Carries(w, c)' PROVE Turn(c)'
        <4>1. Carries(w, c)
          BY <1>1, <1>2, <2>2, <2>3, <3>1 DEF Carries, Working
        <4>2. Turn(c)
          BY <1>2, <4>1 DEF InvocationSound
        <4> QED
          BY <1>2, <4>2 DEF Turn
      <3>2. s.current \in sent /\ s.current \in N!Deliveries
        BY <1>1, <1>2 DEF InvocationSound, Working
      <3> QED
        BY <1>2, <2>2, <2>3, <3>1, <3>2 DEF InvocationSound
    <2> QED
      BY <1>2, <2>1, <2>2, <2>4, InvocationOnly
  <1>4. CASE ~N!Leased(worker[w].current)
    <2>1. worker' = [worker EXCEPT ![w] = N!Done(w)]
      BY <1>4 DEF N!ReadAttempt
    <2>2. /\ \A c \in N!Deliveries : NoteSound(c)' /\ NoteMoves(c)
          /\ EventsInTurn'
      BY <1>2, NotesAlone
    <2>3. /\ worker' \in [Invocations -> Invoked]
          /\ \A v \in Invocations : worker'[v] = worker[v] \/ InvocationSound(v)'
      BY <1>2, <2>1, <2>2, DoneTypes, HoldsLess
    <2>4. NotificationTypes'
      BY <1>2, <2>3 DEF NotificationInv, NotificationTypes
    <2> QED
      BY <1>2, <2>2, <2>3, <2>4, NoteStep
  <1> QED
    BY <1>3, <1>4

\* The row of an attempt that is recorded.
LEMMA RecordedNote ==
    ASSUME NEW status \in {"SUCCEEDED", "DEAD_LETTER", "PENDING"}, NEW wait, NEW number \in Nat
    PROVE  LET q == [N!Row(status, wait) EXCEPT !.attempts = number]
           IN  /\ IsNote(q) /\ q.status = status /\ ~q.owned
               /\ q.attempts = number /\ q.wait = wait
  <1> DEFINE q == [N!Row(status, wait) EXCEPT !.attempts = number]
  <1>1. N!Row(status, wait) \in Notes({wait})
    BY DEF N!Row, Notes, NoteStatuses
  <1>2. q \in Notes({wait}) /\ q.attempts = number
    BY <1>1 DEF Notes
  <1>3. q.status = status /\ q.wait = wait /\ q.owned = (status = "PROCESSING")
    BY DEF N!Row
  <1>4. status # "PROCESSING"
    OBVIOUS
  <1>5. ~q.owned
    BY <1>3, <1>4
  <1>6. IsNote(q)
    BY <1>2, <1>3 DEF IsNote
  <1> QED
    BY <1>2, <1>3, <1>5, <1>6

LEMMA RecordKeeps ==
    ASSUME QueuesAssumption, NotificationInv, NEW w \in Invocations, N!WriteAttempt(w)
    PROVE  NotificationInv'
  <1>1. PICK d \in N!Deliveries : d = worker[w].current /\ d \in sent
    BY DEF N!WriteAttempt, NotificationInv, InvocationSound, Working
  <1>2. UNCHANGED <<minute, member, preference, enqueue, sent>>
    BY DEF N!WriteAttempt
  <1>3. NoteSound(d) /\ IsNote(delivery[d])
    BY DEF NotificationInv, NotificationTypes
  <1>4. EventsInTurn'
    BY <1>2 DEF NotificationInv, EventsInTurn
  <1>5. CASE ~N!Leased(d)
    <2>1. delivery' = delivery /\ worker' = [worker EXCEPT ![w] = N!Idle]
      BY <1>1, <1>5 DEF N!WriteAttempt
    <2>2. \A c \in N!Deliveries : NoteSound(c)' /\ NoteMoves(c)
      BY <1>2, <2>1, NotesAlone
    <2>3. N!Idle.batch \subseteq worker[w].batch /\ N!Idle.phase \in {"idle", "next"} /\ N!Idle \in Invoked
      BY IdleInvocation
    <2>4. /\ worker' \in [Invocations -> Invoked]
          /\ \A v \in Invocations : worker'[v] = worker[v] \/ InvocationSound(v)'
      BY <1>2, <2>1, <2>2, <2>3, HoldsLess
    <2>5. NotificationTypes'
      BY <1>2, <2>1, <2>4 DEF NotificationInv, NotificationTypes
    <2> QED
      BY <1>2, <1>4, <2>2, <2>4, <2>5, NoteStep
  <1>6. CASE N!Leased(d)
    <2>1. /\ delivery[d].status = "PROCESSING" /\ delivery[d].attempts \in Nat
          /\ delivery[d].attempts < SendAttempts /\ SendAttempts \in Nat
          /\ enqueue[d[2]].phase = "sent"
      BY <1>3, <1>6, QueuesAssumption
      DEF N!Leased, N!Live, NoteSound, QueuesAssumption, N!NotificationAssumption
    <2>2. PICK number \in Nat : number = delivery[d].attempts + 1
      BY <2>1
    <2> DEFINE dead == worker[w].result = "TERMINAL" \/ number >= SendAttempts
               row == CASE worker[w].result = "SUCCEEDED" -> N!Row("SUCCEEDED", N!Due)
                        [] worker[w].result # "SUCCEEDED" /\ dead -> N!Row("DEAD_LETTER", N!Due)
                        [] OTHER -> N!Row("PENDING", (minute + 1) % Minutes)
               q == [row EXCEPT !.attempts = number]
    <2>3. delivery' = [delivery EXCEPT ![d] = q]
      BY <1>1, <1>6, <2>2 DEF N!WriteAttempt
    <2>4. /\ IsNote(q) /\ ~q.owned /\ q.attempts = number
          /\ \/ q.status \in {"SUCCEEDED", "DEAD_LETTER"} /\ q.wait = N!Due
             \/ q.status = "PENDING" /\ ~(number >= SendAttempts)
      <3>1. CASE worker[w].result = "SUCCEEDED"
        <4>1. row = N!Row("SUCCEEDED", N!Due)
          BY <3>1
        <4>2. LET r == [N!Row("SUCCEEDED", N!Due) EXCEPT !.attempts = number]
              IN  IsNote(r) /\ r.status = "SUCCEEDED" /\ ~r.owned /\ r.attempts = number /\ r.wait = N!Due
          BY RecordedNote
        <4> QED
          BY <4>1, <4>2
      <3>2. CASE worker[w].result # "SUCCEEDED" /\ dead
        <4>1. row = N!Row("DEAD_LETTER", N!Due)
          BY <3>2
        <4>2. LET r == [N!Row("DEAD_LETTER", N!Due) EXCEPT !.attempts = number]
              IN  IsNote(r) /\ r.status = "DEAD_LETTER" /\ ~r.owned /\ r.attempts = number /\ r.wait = N!Due
          BY RecordedNote
        <4> QED
          BY <4>1, <4>2
      <3>3. CASE worker[w].result # "SUCCEEDED" /\ ~dead
        <4>1. row = N!Row("PENDING", (minute + 1) % Minutes) /\ ~(number >= SendAttempts)
          BY <3>3
        <4>2. LET r == [N!Row("PENDING", (minute + 1) % Minutes) EXCEPT !.attempts = number]
              IN  IsNote(r) /\ r.status = "PENDING" /\ ~r.owned /\ r.attempts = number /\ r.wait = (minute + 1) % Minutes
          BY RecordedNote
        <4> QED
          BY <4>1, <4>2
      <3> QED
        BY <3>1, <3>2, <3>3
    <2> HIDE DEF q
    <2>5. /\ delivery' = [c \in N!Deliveries |-> delivery'[c]]
          /\ delivery'[d] = q
          /\ \A c \in N!Deliveries : c # d => delivery'[c] = delivery[c]
      BY <2>3, <2>4 DEF NotificationInv, NotificationTypes
    <2>6. NoteSound(d)'
      <3>1. PICK r : r = delivery'[d] /\ r = q
        BY <2>5
      <3>2. r.owned <=> r.status = "PROCESSING"
        BY <2>4, <3>1
      <3>3. number \in 0 .. SendAttempts /\ (r.status = "PENDING" => number < SendAttempts)
        BY <2>1, <2>2, <2>4, <3>1
      <3>4. r.wait \in N!Day => r.status = "PENDING"
        BY <2>4, <3>1 DEF N!Due, N!Day
      <3>5. r.status \in {"SUCCEEDED", "DEAD_LETTER", "PENDING"} /\ r.attempts = number
        BY <2>4, <3>1
      <3> QED
        BY <1>1, <1>2, <2>1, <3>1, <3>2, <3>3, <3>4, <3>5 DEF NoteSound, NoteStatuses, N!Live
    <2>7. NoteMoves(d)
      BY <2>1, <2>4, <2>5 DEF NoteMoves, Passed
    <2>8. \A c \in N!Deliveries : NoteSound(c)' /\ NoteMoves(c) /\ IsNote(delivery'[c])
      <3>1. ASSUME NEW c \in N!Deliveries, c # d
            PROVE  NoteSound(c)' /\ NoteMoves(c) /\ IsNote(delivery'[c])
        BY <1>2, <2>5, <3>1, CancelledNote
      <3> QED
        BY <2>4, <2>5, <2>6, <2>7, <3>1
    <2>9. worker' = [worker EXCEPT ![w] = N!Done(w)]
      BY <1>1, <1>6 DEF N!WriteAttempt
    <2>10. /\ worker' \in [Invocations -> Invoked]
           /\ \A v \in Invocations : worker'[v] = worker[v] \/ InvocationSound(v)'
      BY <1>2, <2>8, <2>9, DoneTypes, HoldsLess
    <2>11. NotificationTypes'
      BY <1>2, <2>5, <2>8, <2>10 DEF NotificationInv, NotificationTypes
    <2> QED
      BY <1>2, <1>4, <2>8, <2>10, <2>11, NoteStep
  <1> QED
    BY <1>5, <1>6

LEMMA CrashNoteKeeps ==
    ASSUME QueuesAssumption, NotificationInv, NEW w \in Invocations, N!Crash(w)
    PROVE  NotificationInv'
  <1>1. /\ UNCHANGED <<minute, member, preference, enqueue, delivery, sent>>
        /\ worker' = [worker EXCEPT ![w] = N!Idle]
    BY DEF N!Crash
  <1>2. N!Idle.batch \subseteq worker[w].batch /\ N!Idle.phase \in {"idle", "next"} /\ N!Idle \in Invoked
    BY IdleInvocation
  <1>3. \A c \in N!Deliveries : NoteSound(c)' /\ NoteMoves(c)
    BY <1>1, NotesAlone
  <1>4. /\ worker' \in [Invocations -> Invoked]
        /\ \A v \in Invocations : worker'[v] = worker[v] \/ InvocationSound(v)'
    BY <1>1, <1>2, <1>3, HoldsLess
  <1>5. NotificationTypes'
    BY <1>1, <1>4 DEF NotificationInv, NotificationTypes
  <1> QED
    BY <1>1, <1>3, <1>4, <1>5, NotesAlone, NoteStep

-----------------------------------------------------------------------------
(* Notifications: the invariant *)

LEMMA NotificationsInit ==
    ASSUME QueuesAssumption, N!Init
    PROVE  NotificationInv
  <1> USE DEF N!Init
  <1>1. {Minutes, MaxEvents, SendAttempts} \subseteq Nat \ {0}
    BY QueuesAssumption DEF QueuesAssumption, N!NotificationAssumption
  <1>2. ASSUME NEW d \in N!Deliveries PROVE NoteSound(d) /\ IsNote(delivery[d])
    <2>1. PICK q : q = N!Row("ABSENT", N!Due) /\ delivery[d] = q
      OBVIOUS
    <2>2. q.owned = ("ABSENT" = "PROCESSING") /\ "ABSENT" # "PROCESSING"
      BY <2>1 DEF N!Row
    <2>3. q.status = "ABSENT" /\ q.attempts = 0 /\ q.wait = N!Due /\ q \in Notes({N!Due})
      BY <2>1 DEF N!Row, Notes, NoteStatuses
    <2>4. ~q.owned
      BY <2>2
    <2>5. delivery[d].owned <=> delivery[d].status = "PROCESSING"
      BY <2>1, <2>3, <2>4
    <2>6. N!Due \notin N!Day
      BY DEF N!Due, N!Day
    <2>7. NoteSound(d)
      BY <1>1, <2>1, <2>3, <2>5, <2>6 DEF NoteSound, NoteStatuses, N!Live, Settled
    <2> QED
      BY <2>1, <2>3, <2>7 DEF IsNote
  <1>3. NotificationTypes
    <2>1. minute \in N!Day
      BY <1>1 DEF N!Day
    <2>2. preference \in [Scopes -> [status : N!Statuses, schedule : Schedules]]
      BY QueuesAssumption DEF QueuesAssumption, N!NotificationAssumption
    <2>3. worker \in [Invocations -> Invoked]
      BY IdleInvocation DEF N!Workers, Invocations
    <2>4. enqueue = [e \in N!Events |-> enqueue[e]] /\ \A e \in N!Events : IsFanOut(enqueue[e])
      BY DEF IsFanOut
    <2>5. delivery = [d \in N!Deliveries |-> delivery[d]]
      OBVIOUS
    <2> QED
      BY <1>2, <2>1, <2>2, <2>3, <2>4, <2>5 DEF NotificationTypes
  <1>4. EventsInTurn
    BY DEF EventsInTurn
  <1>5. \A w \in Invocations : InvocationSound(w)
    BY IdleInvocation DEF InvocationSound, Carries, Working, N!Workers, Invocations
  <1> QED
    BY <1>2, <1>3, <1>4, <1>5 DEF NotificationInv

LEMMA NotificationsStutter ==
    ASSUME NotificationInv, UNCHANGED N!vars
    PROVE  NotificationInv'
  <1>1. UNCHANGED <<minute, member, preference, enqueue, delivery, worker, sent>>
    BY DEF N!vars
  <1>2. NotificationTypes'
    BY <1>1 DEF NotificationInv, NotificationTypes
  <1> QED
    BY <1>1, <1>2, NotesAlone, NoteStep

LEMMA NotificationsNext ==
    ASSUME QueuesAssumption, NotificationInv, N!Next
    PROVE  NotificationInv'
  <1>1. ASSUME NEW p \in Scopes, N!ReadConfigure(p) \/ N!WriteConfigure(p) \/ N!Disable(p)
        PROVE  NotificationInv'
    BY <1>1, ReadConfigureKeeps, WriteConfigureKeeps, DisableKeeps
  <1>2. ASSUME N!OptOut \/ N!Suspend \/ N!Tick PROVE NotificationInv'
    BY <1>2, OptOutKeeps, SuspendKeeps, TickKeeps
  <1>3. ASSUME NEW e \in N!Events, N!OpenEnqueue(e) \/ N!CommitEnqueue(e) PROVE NotificationInv'
    BY <1>3, OpenNoteKeeps, CommitNoteKeeps
  <1>4. ASSUME NEW w \in N!Workers, N!Work(w) \/ N!Crash(w) PROVE NotificationInv'
    <2>1. w \in Invocations
      BY DEF N!Workers, Invocations
    <2> QED
      BY <1>4, <2>1, ClaimNoteKeeps, TakeNoteKeeps, CancelClaimKeeps, SendKeeps, ReadNoteKeeps,
         RecordKeeps, CrashNoteKeeps DEF N!Work
  <1>5. ASSUME NEW d \in N!Deliveries, N!ExpireLease(d) PROVE NotificationInv'
    BY <1>5, ExpireLeaseKeeps
  <1> QED
    BY <1>1, <1>2, <1>3, <1>4, <1>5 DEF N!Next

LEMMA NotificationsHold ==
    ASSUME QueuesAssumption, NotificationInv
    PROVE  N!DeliveriesHold
  <1>1. N!TypeOK
    <2>1. ASSUME NEW p \in Scopes PROVE N!Status(p) \in N!Statuses /\ preference[p].schedule \in Schedules
      BY DEF NotificationInv, NotificationTypes, N!Status
    <2>2. ASSUME NEW d \in N!Deliveries
          PROVE  /\ delivery[d].status \in N!Live \cup {"SUCCEEDED", "DEAD_LETTER", "CANCELLED", "ABSENT"}
                 /\ delivery[d].attempts \in 0 .. SendAttempts
                 /\ delivery[d].owned <=> delivery[d].status = "PROCESSING"
                 /\ delivery[d].wait \in N!Day => delivery[d].status \in {"PENDING", "CANCELLED"}
      <3>1. NoteSound(d)
        BY DEF NotificationInv
      <3>2. delivery[d].owned <=> delivery[d].status = "PROCESSING"
        BY <3>1 DEF NoteSound
      <3> QED
        BY <3>1, <3>2 DEF NoteSound, NoteStatuses, N!Live
    <2>3. minute \in N!Day /\ member \in BOOLEAN /\ sent \subseteq N!Deliveries
      BY DEF NotificationInv, NotificationTypes
    <2> QED
      BY <2>1, <2>2, <2>3 DEF N!TypeOK
  <1>2. N!SentInOrder
    <2>1. SUFFICES ASSUME NEW d \in sent, NEW e \in 1 .. d[2] - 1,
                          delivery[<<d[1], e>>].status # "ABSENT", <<d[1], e>> \notin sent
                   PROVE  delivery[<<d[1], e>>].status = "CANCELLED"
      BY DEF N!SentInOrder
    <2>2. d \in N!Deliveries /\ Turn(d)
      BY DEF NotificationInv, NotificationTypes
    <2>3. MaxEvents \in Nat /\ d[2] \in 1 .. MaxEvents
      BY <2>2, QueuesAssumption
      DEF N!Deliveries, N!Events, QueuesAssumption, N!NotificationAssumption
    <2>4. e \in N!Events /\ e < d[2]
      BY <2>1, <2>3 DEF N!Events
    <2> QED
      BY <2>1, <2>2, <2>4 DEF Turn, Passed
  <1> QED
    BY <1>1, <1>2 DEF N!DeliveriesHold

-----------------------------------------------------------------------------
(* The queues *)

QueuesInv ==
    /\ queue = "webhooks" => WebhookInv
    /\ queue = "notifications" => NotificationInv

\* Whatever order transactions, workers, crashes and lease expiries come in, the queue of
\* a behaviour keeps its invariant.
THEOREM QueuesInvariant == Spec => []QueuesInv
  <1> USE QueuesAssumption
  <1>1. ASSUME Init PROVE QueuesInv
    <2>1. (queue = "webhooks" /\ W!Init) \/ (queue = "notifications" /\ N!Init)
      BY <1>1 DEF Init
    <2> QED
      BY <2>1, WebhooksInit, NotificationsInit DEF QueuesInv
  <1>2. ASSUME QueuesInv, [Next]_vars PROVE QueuesInv'
    <2>1. CASE InWebhooks(W!Next)
      BY <1>2, <2>1, WebhooksNext DEF QueuesInv, InWebhooks
    <2>2. CASE InNotifications(N!Next)
      BY <1>2, <2>2, NotificationsNext DEF QueuesInv, InNotifications
    <2>3. CASE UNCHANGED vars
      <3>1. queue' = queue /\ UNCHANGED W!vars /\ UNCHANGED N!vars
        BY <2>3 DEF vars, webhookVars, notificationVars, W!vars, W!stored, N!vars
      <3> QED
        BY <1>2, <3>1, WebhooksStutter, NotificationsStutter DEF QueuesInv
    <2> QED
      BY <1>2, <2>1, <2>2, <2>3 DEF Next
  <1> HIDE DEF QueuesInv
  <1> QED
    BY <1>1, <1>2, PTL DEF Spec

\* Webhooks of one writer reach an endpoint in order and their attempts are numbered without
\* a gap; notifications are sent in the order of their events and their rows are well formed.
THEOREM QueuesCorrect == Spec => []QueuesHold
  <1>1. QueuesInv => QueuesHold
    BY QueuesAssumption, WebhooksHold, NotificationsHold DEF QueuesInv, QueuesHold
  <1> QED
    BY <1>1, QueuesInvariant, PTL

\* An administrator's write that read the preferences before the recipient opted out, or at
\* any other time, never makes an opted-out preference active.
THEOREM OptOutCorrect == Spec => OptOutStands
  <1>1. ASSUME QueuesInv, [Next]_vars, queue = "notifications", NEW p \in Scopes,
               preference[p].status = "OPTED_OUT"
        PROVE  preference'[p].status = "OPTED_OUT"
    <2>1. preference \in [Scopes -> [status : N!Statuses, schedule : Schedules]]
      BY <1>1 DEF QueuesInv, NotificationInv, NotificationTypes
    <2>2. CASE preference' = preference
      BY <1>1, <2>2
    <2>3. ASSUME NEW q \in Scopes, N!WriteConfigure(q) PROVE preference'[p].status = "OPTED_OUT"
      BY <1>1, <2>1, <2>3 DEF N!WriteConfigure, N!Refused, N!Status
    <2>4. ASSUME NEW q \in Scopes, N!Disable(q) PROVE preference'[p].status = "OPTED_OUT"
      BY <1>1, <2>1, <2>4 DEF N!Disable
    <2>5. CASE N!OptOut
      BY <1>1, <2>1, <2>5 DEF N!OptOut
    <2>6. CASE InNotifications(N!Next)
      <3>1. \/ preference' = preference \/ N!OptOut
            \/ \E q \in Scopes : N!WriteConfigure(q) \/ N!Disable(q)
        BY <2>6 DEF InNotifications, N!Next, N!ReadConfigure, N!Suspend, N!Tick, N!OpenEnqueue,
           N!CommitEnqueue, N!Work, N!Claim, N!Take, N!CancelClaim, N!Send, N!ReadAttempt,
           N!WriteAttempt, N!Crash, N!ExpireLease
      <3> QED
        BY <2>2, <2>3, <2>4, <2>5, <3>1
    <2>7. CASE InWebhooks(W!Next)
      BY <1>1, <2>7 DEF InWebhooks
    <2>8. CASE UNCHANGED vars
      BY <2>2, <2>8 DEF vars, notificationVars
    <2> QED
      BY <1>1, <2>6, <2>7, <2>8 DEF Next
  <1>2. QueuesInv /\ [Next]_vars =>
            [queue = "notifications" => \A p \in Scopes :
                preference[p].status = "OPTED_OUT" => preference'[p].status = "OPTED_OUT"]_vars
    BY <1>1
  <1> QED
    BY <1>2, QueuesInvariant, PTL DEF Spec, OptOutStands

-----------------------------------------------------------------------------
(* Deletion requests and exports *)

Grants == [status : {"AVAILABLE", "DOWNLOADED", "EXPIRED", "CANCELLED", "REVOKED"},
           token : Nat \cup {Nothing}, until : Nat]
Authorized == [act : {"prepare", "download", "cancel"}, key : DOMAIN grant,
               token : Nat \cup {Nothing}]

PrivacyTypes ==
    /\ account \in {"ACTIVE", "ARCHIVED"} /\ token \in Nat /\ tick \in Nat
    /\ asked = [i \in DOMAIN asked |-> asked[i]]
    /\ execution # Nothing => execution.id \in DOMAIN asked
    /\ grant \in [DOMAIN grant -> Grants \cup {Nothing}]
    /\ export \in [DOMAIN export -> Authorized \cup {Nothing}]
    /\ used \in Seq([token : Nat, account : {"ACTIVE", "ARCHIVED"}])

\* What the worker's transaction read was still to be executed.
ExecutesStanding == execution # Nothing => execution.request # Nothing /\ execution.request.status \in P!Standing

\* The tokens of grants that can be used are issued, different, and not used yet.
Usable(k) == grant[k] # Nothing /\ grant[k].status = "AVAILABLE"
TokensSound ==
    /\ \A k \in DOMAIN grant : Usable(k) =>
          /\ grant[k].token \in 1 .. token
          /\ \A j \in DOMAIN grant : Usable(j) /\ grant[j].token = grant[k].token => j = k
          /\ \A m \in DOMAIN used : used[m].token # grant[k].token
    /\ \A m \in DOMAIN used : used[m].token \in 1 .. token

\* A download names an issued token.  Once the account is deleted none names one that can
\* be used, although tokens may still be issued to whoever was authorized before.
DownloadsSound ==
    \A c \in DOMAIN export : export[c] # Nothing /\ export[c].act = "download" =>
        /\ export[c].token \in 1 .. token
        /\ account = "ARCHIVED" =>
              \A k \in DOMAIN grant : Usable(k) => grant[k].token # export[c].token

PrivacyInv ==
    PrivacyTypes /\ ExecutesStanding /\ TokensSound /\ DownloadsSound /\ P!TokenGoodForOne

LEMMA PrivacyBegins == AccountsAssumption /\ P!PrivacyInit => PrivacyInv
  BY DEF P!PrivacyInit, PrivacyInv, PrivacyTypes, ExecutesStanding, TokensSound, DownloadsSound, Usable,
     P!TokenGoodForOne

\* A step that issues and uses no token and makes no grant usable.
LEMMA QuietPrivacyStep ==
    ASSUME PrivacyInv, PrivacyTypes', ExecutesStanding', UNCHANGED <<token, used>>,
           DOMAIN grant' = DOMAIN grant, DOMAIN export' = DOMAIN export,
           account' = account \/ \A k \in DOMAIN grant : ~Usable(k)',
           \A k \in DOMAIN grant : Usable(k)' => Usable(k) /\ grant'[k].token = grant[k].token,
           \A c \in DOMAIN export :
               \/ export'[c] \in {export[c], Nothing}
               \/ account = "ACTIVE" /\ account' = "ACTIVE" /\ (export'[c].act = "download" => export'[c].token \in 1 .. token)
    PROVE  PrivacyInv'
  <1>1. TokensSound'
    BY DEF PrivacyInv, TokensSound
  <1>2. DownloadsSound'
    BY DEF PrivacyInv, DownloadsSound, PrivacyTypes
  <1>3. P!TokenGoodForOne'
    BY DEF PrivacyInv, P!TokenGoodForOne
  <1> QED
    BY <1>1, <1>2, <1>3 DEF PrivacyInv

LEMMA RequestKeeps ==
    ASSUME AccountsAssumption, PrivacyInv,
           \/ \E i \in DOMAIN asked :
                 \/ P!CancelRequest(i) \/ P!BlockRequest(i) \/ P!BeginExecution(i)
                 \/ \E target \in Targets : P!CreateRequest(i, target)
           \/ \E h \in DOMAIN hold :
                 \/ P!ReleaseHold(h)
                 \/ \E covers \in DOMAIN asked \cup {P!Everything}, until \in {Nothing} \cup HoldEnds :
                       P!PlaceHold(h, covers, until)
           \/ P!ExecutionFails \/ P!TickPasses
    PROVE  PrivacyInv'
  <1>1. UNCHANGED <<account, grant, token, export, used>>
    BY DEF P!CancelRequest, P!BlockRequest, P!BeginExecution, P!CreateRequest, P!ReleaseHold, P!PlaceHold,
       P!ExecutionFails, P!TickPasses
  <1>2. /\ asked' = [i \in DOMAIN asked' |-> asked'[i]]
        /\ DOMAIN asked' = DOMAIN asked
    BY DEF P!CancelRequest, P!BlockRequest, P!BeginExecution, P!CreateRequest, P!ReleaseHold, P!PlaceHold,
       P!ExecutionFails, P!TickPasses, PrivacyInv, PrivacyTypes
  <1>3. /\ execution' # Nothing => execution'.id \in DOMAIN asked
        /\ ExecutesStanding'
    BY DEF P!CancelRequest, P!BlockRequest, P!BeginExecution, P!CreateRequest, P!ReleaseHold, P!PlaceHold,
       P!ExecutionFails, P!TickPasses, PrivacyInv, PrivacyTypes, ExecutesStanding, P!MayExecute
  <1>4. tick' \in Nat
    BY DEF P!CancelRequest, P!BlockRequest, P!BeginExecution, P!CreateRequest, P!ReleaseHold, P!PlaceHold,
       P!ExecutionFails, P!TickPasses, PrivacyInv, PrivacyTypes
  <1>5. PrivacyTypes'
    BY <1>1, <1>2, <1>3, <1>4 DEF PrivacyInv, PrivacyTypes, Authorized
  <1> QED
    BY <1>1, <1>3, <1>5, QuietPrivacyStep DEF Usable

LEMMA FinishedGrant ==
    ASSUME PrivacyInv, NEW k \in DOMAIN grant, grant[k] # Nothing,
           NEW s \in {"DOWNLOADED", "EXPIRED", "CANCELLED", "REVOKED"},
           grant' = P!Finished(k, s)
    PROVE  /\ grant' \in [DOMAIN grant -> Grants \cup {Nothing}]
           /\ \A j \in DOMAIN grant : j # k => grant'[j] = grant[j]
           /\ ~Usable(k)'
  <1> DEFINE closed == [grant[k] EXCEPT !.status = s, !.token = Nothing]
  <1>1. grant[k] \in Grants
    BY DEF PrivacyInv, PrivacyTypes
  <1>2. closed \in Grants /\ closed.status = s
    BY <1>1 DEF Grants
  <1>3. grant' = [grant EXCEPT ![k] = closed]
    BY DEF P!Finished
  <1> HIDE DEF closed
  <1> QED
    BY <1>2, <1>3 DEF PrivacyInv, PrivacyTypes, Usable

LEMMA CommitKeeps ==
    ASSUME AccountsAssumption, PrivacyInv, P!CommitExecution
    PROVE  PrivacyInv'
  <1>1. /\ UNCHANGED <<token, export, used, tick>> /\ execution' = Nothing
        /\ account' \in {"ACTIVE", "ARCHIVED"}
        /\ asked' = [i \in DOMAIN asked' |-> asked'[i]]
    BY DEF P!CommitExecution, PrivacyInv, PrivacyTypes
  <1>2. /\ grant' \in [DOMAIN grant -> Grants \cup {Nothing}]
        /\ DOMAIN grant' = DOMAIN grant
        /\ \/ account' = account /\ grant' = grant
           \/ \A k \in DOMAIN grant : ~Usable(k)'
    <2>1. CASE grant' = P!RevokedGrants
      <3>1. ASSUME NEW k \in DOMAIN grant
            PROVE  grant'[k] \in Grants \cup {Nothing} /\ ~Usable(k)'
        <4>1. grant[k] \in Grants \cup {Nothing} /\ grant'[k] = P!RevokedGrants[k]
          BY <2>1 DEF PrivacyInv, PrivacyTypes
        <4>2. CASE grant[k] # Nothing /\ grant[k].status = "AVAILABLE"
          <5> DEFINE closed == [grant[k] EXCEPT !.status = "REVOKED", !.token = Nothing]
          <5>1. closed \in Grants /\ closed.status = "REVOKED"
            BY <4>1, <4>2 DEF Grants
          <5>2. grant'[k] = closed
            BY <4>1, <4>2 DEF P!RevokedGrants
          <5> QED
            BY <5>1, <5>2 DEF Usable
        <4>3. CASE ~(grant[k] # Nothing /\ grant[k].status = "AVAILABLE")
          BY <4>1, <4>3 DEF P!RevokedGrants, Usable
        <4> QED
          BY <4>2, <4>3
      <3>2. grant' = [k \in DOMAIN grant |-> grant'[k]]
        BY <2>1 DEF P!RevokedGrants
      <3> QED
        BY <3>1, <3>2
    <2>2. CASE grant' = grant /\ account' = account
      BY <2>2 DEF PrivacyInv, PrivacyTypes
    <2> QED
      BY <2>1, <2>2 DEF P!CommitExecution
  <1>3. PrivacyTypes' /\ ExecutesStanding'
    BY <1>1, <1>2 DEF PrivacyInv, PrivacyTypes, ExecutesStanding, Authorized
  <1> QED
    BY <1>1, <1>2, <1>3, QuietPrivacyStep DEF Usable

LEMMA PrepareKeeps ==
    ASSUME AccountsAssumption, PrivacyInv, NEW c \in DOMAIN export, P!PrepareExport(c)
    PROVE  PrivacyInv'
  <1>k. PICK k : k = export[c].key
    OBVIOUS
  <1> DEFINE fresh == [status |-> "AVAILABLE", token |-> token + 1, until |-> tick + Ttl]
  <1>1. k \in DOMAIN grant /\ fresh \in Grants
    BY <1>k DEF P!PrepareExport, PrivacyInv, PrivacyTypes, Authorized, Grants, AccountsAssumption, P!PrivacyAssumption
  <1>2. /\ grant' = [grant EXCEPT ![k] = fresh] /\ token' = token + 1
        /\ export' = [export EXCEPT ![c] = Nothing]
        /\ UNCHANGED <<account, erased, roster, asked, hold, execution, used, tick>>
    BY <1>k DEF P!PrepareExport
  <1>3. /\ grant'[k].token = token + 1
        /\ \A j \in DOMAIN grant : j # k => grant'[j] = grant[j]
    BY <1>1, <1>2 DEF Usable, PrivacyInv, PrivacyTypes
  <1>4. PrivacyTypes' /\ ExecutesStanding'
    BY <1>1, <1>2 DEF PrivacyInv, PrivacyTypes, ExecutesStanding, Authorized
  <1> HIDE DEF fresh
  <1>5. TokensSound'
    <2>1. \A m \in DOMAIN used : used[m].token \in 1 .. token
      BY DEF PrivacyInv, TokensSound
    <2> QED
      BY <1>1, <1>2, <1>3, <2>1 DEF PrivacyInv, PrivacyTypes, TokensSound, Usable
  <1>6. DownloadsSound'
    BY <1>1, <1>2, <1>3 DEF PrivacyInv, PrivacyTypes, DownloadsSound, Usable
  <1>7. P!TokenGoodForOne'
    BY <1>2 DEF PrivacyInv, P!TokenGoodForOne
  <1> QED
    BY <1>4, <1>5, <1>6, <1>7 DEF PrivacyInv

LEMMA AuthorizeKeeps ==
    ASSUME AccountsAssumption, PrivacyInv, NEW c \in DOMAIN export, NEW k \in DOMAIN grant,
           NEW t \in {Nothing} \cup 1 .. token, NEW act \in {"prepare", "download", "cancel"},
           P!AuthorizeExport(c, act, k, t)
    PROVE  PrivacyInv'
  <1>1. /\ UNCHANGED <<account, grant, token, used, execution, asked, tick>> /\ account = "ACTIVE"
        /\ export' = [export EXCEPT ![c] = [act |-> act, key |-> k, token |-> t]]
        /\ act = "download" => t \in 1 .. token
    BY DEF P!AuthorizeExport
  <1>2. [act |-> act, key |-> k, token |-> t] \in Authorized
    BY DEF Authorized, PrivacyInv, PrivacyTypes
  <1>3. PrivacyTypes' /\ ExecutesStanding'
    BY <1>1, <1>2 DEF PrivacyInv, PrivacyTypes, ExecutesStanding, Authorized
  <1> QED
    BY <1>1, <1>3, QuietPrivacyStep DEF Usable, PrivacyInv, PrivacyTypes

LEMMA DownloadKeeps ==
    ASSUME AccountsAssumption, PrivacyInv, NEW c \in DOMAIN export, P!DownloadExport(c)
    PROVE  PrivacyInv'
  <1>k. PICK k, t : k = export[c].key /\ t = export[c].token
    OBVIOUS
  <1>1. /\ export[c] # Nothing /\ export[c].act = "download" /\ export[c] \in Authorized
        /\ k \in DOMAIN grant
    BY <1>k DEF P!DownloadExport, PrivacyInv, PrivacyTypes, Authorized
  <1>2. /\ t \in 1 .. token
        /\ account = "ARCHIVED" => \A j \in DOMAIN grant : Usable(j) => grant[j].token # t
    BY <1>k, <1>1 DEF PrivacyInv, DownloadsSound
  <1>3. /\ UNCHANGED <<account, token, execution, asked, tick>>
        /\ export' = [export EXCEPT ![c] = Nothing]
    BY DEF P!DownloadExport
  <1>4. CASE P!Available(k, t) /\ grant[k].until > tick
    <2>1. /\ grant' = P!Finished(k, "DOWNLOADED") /\ grant[k] # Nothing
          /\ used' = Append(used, [token |-> t, account |-> account])
      BY <1>k, <1>4 DEF P!DownloadExport, P!Available
    <2>2. Usable(k) /\ grant[k].token = t
      BY <1>4 DEF P!Available, Usable
    <2>3. account = "ACTIVE"
      BY <1>1, <1>2, <2>2 DEF PrivacyInv, PrivacyTypes
    <2>4. /\ grant' \in [DOMAIN grant -> Grants \cup {Nothing}] /\ DOMAIN grant' = DOMAIN grant
          /\ \A j \in DOMAIN grant : j # k => grant'[j] = grant[j]
          /\ ~Usable(k)'
      BY <1>1, <2>1, FinishedGrant
    <2>5. \A j \in DOMAIN grant : Usable(j)' => j # k /\ Usable(j) /\ grant'[j].token = grant[j].token
      BY <2>4 DEF Usable
    <2>6. [token |-> t, account |-> account] \in [token : Nat, account : {"ACTIVE", "ARCHIVED"}]
      BY <1>2, <2>3 DEF PrivacyInv, PrivacyTypes
    <2>7. /\ used' \in Seq([token : Nat, account : {"ACTIVE", "ARCHIVED"}])
          /\ \A m \in DOMAIN used' : \/ m \in DOMAIN used /\ used'[m] = used[m]
                                     \/ m = Len(used) + 1 /\ used'[m].token = t /\ used'[m].account = "ACTIVE"
      BY <2>1, <2>3, <2>6 DEF PrivacyInv, PrivacyTypes
    <2>8. PrivacyTypes' /\ ExecutesStanding'
      BY <1>3, <2>4, <2>7 DEF PrivacyInv, PrivacyTypes, ExecutesStanding, Authorized
    <2>9. \A m \in DOMAIN used : used[m].token # t /\ used[m].token \in 1 .. token
      BY <1>1, <2>2 DEF PrivacyInv, TokensSound
    <2>10. \A j \in DOMAIN grant : Usable(j)' => grant'[j].token # t
      BY <1>1, <2>2, <2>5 DEF PrivacyInv, TokensSound
    <2>11. TokensSound'
      <3>1. ASSUME NEW j \in DOMAIN grant', Usable(j)'
            PROVE  /\ grant'[j].token \in 1 .. token'
                   /\ \A i \in DOMAIN grant' : Usable(i)' /\ grant'[i].token = grant'[j].token => i = j
                   /\ \A m \in DOMAIN used' : used'[m].token # grant'[j].token
        BY <3>1, <1>3, <2>4, <2>5, <2>7, <2>9, <2>10 DEF PrivacyInv, TokensSound
      <3>2. \A m \in DOMAIN used' : used'[m].token \in 1 .. token'
        BY <1>2, <1>3, <2>7, <2>9
      <3> QED
        BY <3>1, <3>2 DEF TokensSound
    <2>12. DownloadsSound'
      BY <1>3, <2>4, <2>5 DEF PrivacyInv, PrivacyTypes, DownloadsSound
    <2>13. P!TokenGoodForOne'
      BY <2>7, <2>9 DEF PrivacyInv, P!TokenGoodForOne
    <2> QED
      BY <2>8, <2>11, <2>12, <2>13 DEF PrivacyInv
  <1>5. CASE ~(P!Available(k, t) /\ grant[k].until > tick)
    <2>1. /\ grant' = grant \/ (grant[k] # Nothing /\ grant' = P!Finished(k, "EXPIRED"))
          /\ used' = used
      BY <1>k, <1>5 DEF P!DownloadExport
    <2>2. /\ grant' \in [DOMAIN grant -> Grants \cup {Nothing}] /\ DOMAIN grant' = DOMAIN grant
          /\ \A j \in DOMAIN grant : Usable(j)' => Usable(j) /\ grant'[j].token = grant[j].token
      BY <1>1, <2>1, FinishedGrant DEF PrivacyInv, PrivacyTypes, Usable
    <2>3. PrivacyTypes' /\ ExecutesStanding'
      BY <1>3, <2>1, <2>2 DEF PrivacyInv, PrivacyTypes, ExecutesStanding, Authorized
    <2> QED
      BY <1>3, <2>1, <2>2, <2>3, QuietPrivacyStep DEF PrivacyInv, PrivacyTypes
  <1> QED
    BY <1>4, <1>5

LEMMA CancelExportKeeps ==
    ASSUME AccountsAssumption, PrivacyInv, NEW c \in DOMAIN export, P!CancelExport(c)
    PROVE  PrivacyInv'
  <1> DEFINE k == export[c].key
  <1>1. /\ UNCHANGED <<account, token, used, execution, asked, tick>>
        /\ export' = [export EXCEPT ![c] = Nothing] /\ k \in DOMAIN grant
        /\ grant' = grant \/ (grant[k] # Nothing /\ grant' = P!Finished(k, "CANCELLED"))
    BY DEF P!CancelExport, P!Available, PrivacyInv, PrivacyTypes, Authorized
  <1>2. /\ grant' \in [DOMAIN grant -> Grants \cup {Nothing}] /\ DOMAIN grant' = DOMAIN grant
        /\ \A j \in DOMAIN grant : Usable(j)' => Usable(j) /\ grant'[j].token = grant[j].token
    BY <1>1, FinishedGrant DEF PrivacyInv, PrivacyTypes, Usable
  <1>3. PrivacyTypes' /\ ExecutesStanding'
    BY <1>1, <1>2 DEF PrivacyInv, PrivacyTypes, ExecutesStanding, Authorized
  <1> QED
    BY <1>1, <1>2, <1>3, QuietPrivacyStep DEF PrivacyInv, PrivacyTypes

LEMMA PrivacyStepKeeps ==
    ASSUME AccountsAssumption, PrivacyInv, P!PrivacyNext
    PROVE  PrivacyInv'
  BY RequestKeeps, CommitKeeps, PrepareKeeps, AuthorizeKeeps, DownloadKeeps, CancelExportKeeps
  DEF P!PrivacyNext

\* What has been executed or cancelled is not standing, and only what stands is changed.
LEMMA EndedRequestStays ==
    ASSUME PrivacyInv, P!PrivacyNext, NEW i \in DOMAIN asked, asked[i] # Nothing,
           asked[i].status \notin P!Standing
    PROVE  asked'[i] = asked[i]
  BY DEF P!PrivacyNext, P!CancelRequest, P!BlockRequest, P!BeginExecution, P!CreateRequest, P!ReleaseHold,
     P!PlaceHold, P!CommitExecution, P!ExecutionFails, P!PrepareExport, P!DownloadExport, P!CancelExport,
     P!AuthorizeExport, P!TickPasses, P!StandsAsRead, P!MayExecute, PrivacyInv, PrivacyTypes, ExecutesStanding

-----------------------------------------------------------------------------
(* The administration of Discord *)

SettingsRows == [revision : Nat, enabled : BOOLEAN, scopes : BOOLEAN, routes : SUBSET Channels]
GrantRows == [revision : Nat, status : {"NONE", "ACTIVE", "REVOKED"}]
ChannelRows == [known : BOOLEAN, enabled : BOOLEAN, usable : BOOLEAN]

\* Settings that are enabled have a scope and a route, in whatever order they are written.
WellFormed(r, x) ==
    /\ r = "settings" => x \in SettingsRows /\ (x.enabled => x.scopes /\ x.routes # {})
    /\ r = "grant" => x \in GrantRows
    /\ r = "role" => x \in BOOLEAN
    /\ r \in Channels => x \in ChannelRows

\* What a request carries from one step to the next.
RouteSound(t) == t.step = "route" => t.routes \in SUBSET Channels /\ t.expected \in Nat
NextSound(t) == t.step \in {"none", "route"} /\ RouteSound(t)
StepSound(t) ==
    /\ RouteSound(t)
    /\ t.step = "write" => /\ t.routes \in SUBSET Channels /\ t.expected \in Nat
                           /\ t.enabled \in BOOLEAN /\ t.scopes \in BOOLEAN
                           /\ t.enabled => t.scopes /\ t.routes # {}
    /\ t.step \in {"list", "sync"} => NextSound(t.then)

\* A transaction that waits for its commit: it advances what it writes by one revision, and
\* if no other has committed since its check, the check still holds.
AllRoutable(d) == \A c \in d["settings"].routes : D!Routable(d, c)
Sound(written, clean) ==
    LET d == D!With(written, db)
    IN  /\ D!Passes(DOMAIN written, d)
        /\ clean \/ "routes" \notin doubt => AllRoutable(d)
RowsSound(written) ==
    /\ \A r \in DOMAIN written : WellFormed(r, written[r])
    /\ "settings" \in DOMAIN written => written["settings"].revision = db["settings"].revision + 1
    /\ "grant" \in DOMAIN written => written["grant"].revision = db["grant"].revision + 1
CommitSound(t) ==
    /\ t = [step |-> "commit", rows |-> t.rows, clean |-> t.clean, then |-> t.then,
            raced |-> t.raced]
    /\ t.clean \in BOOLEAN /\ t.raced \in BOOLEAN /\ NextSound(t.then)
    /\ RowsSound(t.rows)
    /\ ~t.raced => Sound(t.rows, t.clean)

AdministrationTypes ==
    /\ db = [r \in D!Rows |-> db[r]] /\ \A r \in D!Rows : WellFormed(r, db[r])
    /\ task = [a \in People |-> task[a]]
    /\ tripped \in BOOLEAN
TasksSound ==
    \A a \in People :
        /\ StepSound(task[a])
        /\ D!InCommit(a) =>
              /\ CommitSound(task[a])
              /\ \A b \in People \ {a} :
                    D!InCommit(b) => DOMAIN task[a].rows \cap DOMAIN task[b].rows = {}

AdministrationInv == AdministrationTypes /\ TasksSound /\ D!AdministrationHolds

LEMMA AdministrationBegins == AccountsAssumption /\ D!AdministrationInit => AdministrationInv
  <1> SUFFICES ASSUME AccountsAssumption, D!AdministrationInit PROVE AdministrationInv
    OBVIOUS
  <1> USE DEF AccountsAssumption, D!AdministrationAssumption
  <1>1. PICK running \in BOOLEAN :
           db = [r \in D!Rows |->
               CASE r = "installation" -> "ACTIVE"
                 [] r = "settings" -> [revision |-> 1, enabled |-> running, scopes |-> TRUE,
                                       routes |-> IF running THEN Channels ELSE {}]
                 [] r = "grant" -> [revision |-> 0, status |-> "NONE"]
                 [] r = "role" -> TRUE
                 [] OTHER -> [known |-> running, enabled |-> running, usable |-> running]]
    BY DEF D!AdministrationInit
  <1>2. /\ db["installation"] = "ACTIVE" /\ db["role"] = TRUE
        /\ db["settings"] = [revision |-> 1, enabled |-> running, scopes |-> TRUE,
                             routes |-> IF running THEN Channels ELSE {}]
        /\ db["grant"] = [revision |-> 0, status |-> "NONE"]
        /\ \A c \in Channels : db[c] = [known |-> running, enabled |-> running, usable |-> running]
        /\ db = [r \in D!Rows |-> db[r]]
    BY <1>1 DEF D!Rows, D!Singles
  <1>3. AdministrationTypes
    <2>1. ASSUME NEW r \in D!Rows PROVE WellFormed(r, db[r])
      <3>1. /\ db["settings"] \in SettingsRows /\ db["grant"] \in GrantRows
            /\ \A c \in Channels : db[c] \in ChannelRows
        BY <1>2 DEF SettingsRows, GrantRows, ChannelRows
      <3>2. db["settings"].enabled => db["settings"].scopes /\ db["settings"].routes # {}
        BY <1>2
      <3> QED
        BY <1>2, <3>1, <3>2 DEF WellFormed
    <2>2. task = [a \in People |-> task[a]] /\ tripped \in BOOLEAN
      BY DEF D!AdministrationInit
    <2> QED
      BY <1>2, <2>1, <2>2 DEF AdministrationTypes
  <1>4. TasksSound
    BY DEF TasksSound, StepSound, RouteSound, D!AdministrationInit, D!NoRequest, D!InCommit
  <1>5. D!AdministrationHolds
    <2>1. doubt = {} /\ tripped = FALSE
      BY DEF D!AdministrationInit
    <2>2. \A c \in db["settings"].routes : c \in Channels /\ D!Routable(db, c)
      BY <1>2 DEF D!Routable
    <2>3. D!EnabledIsDeliverable(db) /\ D!ActiveGrantIsUsable(db)
      BY <1>2, <2>2 DEF D!EnabledIsDeliverable, D!ActiveGrantIsUsable
    <2> QED
      BY <2>1, <2>2, <2>3 DEF D!AdministrationHolds
  <1> QED
    BY <1>3, <1>4, <1>5 DEF AdministrationInv

\* A step of a request that writes no row.
LEMMA RequestStep ==
    ASSUME AdministrationInv, NEW a \in People, NEW next,
           task' = [task EXCEPT ![a] = next], StepSound(next), next.step # "commit",
           UNCHANGED <<db, doubt, tripped>>
    PROVE  AdministrationInv'
  <1>1. task' = [b \in People |-> task'[b]] /\ \A b \in People : task'[b] = IF b = a THEN next ELSE task[b]
    BY DEF AdministrationInv, AdministrationTypes
  <1>2. AdministrationTypes'
    BY <1>1 DEF AdministrationInv, AdministrationTypes
  <1>3. TasksSound'
    <2>1. \A t : CommitSound(t)' <=> CommitSound(t)
      BY DEF CommitSound, RowsSound, Sound
    <2>2. \A b \in People : D!InCommit(b)' => b # a /\ D!InCommit(b) /\ task'[b] = task[b]
      BY <1>1 DEF D!InCommit
    <2> QED
      BY <1>1, <2>1, <2>2 DEF AdministrationInv, TasksSound
  <1>4. D!AdministrationHolds'
    BY DEF AdministrationInv, D!AdministrationHolds
  <1> QED
    BY <1>2, <1>3, <1>4 DEF AdministrationInv

\* A transaction that writes well-formed rows, one revision further, and is sound when no
\* race has been lost before.
LEMMA WriteStep ==
    ASSUME AdministrationInv, NEW a \in People, ~D!InCommit(a),
           NEW written, NEW clean \in BOOLEAN, NEW then,
           D!Write(a, written, clean, then), RowsSound(written), NextSound(then),
           doubt = {} => D!Passes(DOMAIN written, D!With(written, db)),
           clean \/ "routes" \notin doubt => AllRoutable(D!With(written, db))
    PROVE  AdministrationInv'
  <1> DEFINE d == D!With(written, db)
             waiting == [step |-> "commit", rows |-> written, clean |-> clean, then |-> then,
                         raced |-> FALSE]
  <1>1. UNCHANGED <<db, doubt>>
    BY DEF D!Write
  <1>2. \A b \in People : D!InCommit(b) => DOMAIN task[b].rows \cap DOMAIN written = {}
    BY DEF D!Write
  <1>3. CASE D!Passes(DOMAIN written, d)
    <2>1. task' = [task EXCEPT ![a] = waiting] /\ UNCHANGED tripped
      BY <1>3 DEF D!Write, D!Goes
    <2>2. /\ task' = [b \in People |-> task'[b]] /\ task'[a] = waiting
          /\ \A b \in People \ {a} : task'[b] = task[b]
      BY <2>1 DEF AdministrationInv, AdministrationTypes
    <2>3. AdministrationTypes'
      BY <1>1, <2>1, <2>2 DEF AdministrationInv, AdministrationTypes
    <2>4. \A t : CommitSound(t)' <=> CommitSound(t)
      BY <1>1 DEF CommitSound, RowsSound, Sound
    <2>5. CommitSound(waiting) /\ StepSound(waiting) /\ waiting.step = "commit" /\ waiting.rows = written
      BY <1>3 DEF CommitSound, StepSound, RouteSound, Sound
    <2> HIDE DEF waiting
    <2>6. /\ D!InCommit(a)'
          /\ \A b \in People \ {a} : D!InCommit(b)' => D!InCommit(b) /\ task'[b] = task[b]
      BY <2>2, <2>5 DEF D!InCommit
    <2>7. ASSUME NEW b \in People
          PROVE  StepSound(task'[b]) /\ (D!InCommit(b)' => CommitSound(task'[b]))
      BY <2>2, <2>5, <2>6 DEF AdministrationInv, TasksSound
    <2>8. ASSUME NEW b \in People, NEW c \in People \ {b}, D!InCommit(b)', D!InCommit(c)'
          PROVE  DOMAIN task'[b].rows \cap DOMAIN task'[c].rows = {}
      <3>1. CASE b = a
        BY <1>2, <2>2, <2>5, <2>6, <2>8, <3>1
      <3>2. CASE c = a
        BY <1>2, <2>2, <2>5, <2>6, <2>8, <3>2
      <3>3. CASE b # a /\ c # a
        BY <2>2, <2>6, <2>8, <3>3 DEF AdministrationInv, TasksSound
      <3> QED
        BY <3>1, <3>2, <3>3
    <2>9. TasksSound'
      BY <2>4, <2>7, <2>8 DEF TasksSound
    <2>10. D!AdministrationHolds'
      BY <1>1, <2>1 DEF AdministrationInv, D!AdministrationHolds
    <2> QED
      BY <2>3, <2>9, <2>10 DEF AdministrationInv
  <1>4. CASE ~D!Passes(DOMAIN written, d)
    <2>1. task' = [task EXCEPT ![a] = D!NoRequest] /\ tripped' = (tripped \/ doubt = {})
      BY <1>4 DEF D!Write, D!Ends, D!Goes
    <2>2. doubt # {}
      BY <1>4
    <2>3. UNCHANGED tripped
      BY <2>1, <2>2 DEF AdministrationInv, AdministrationTypes
    <2>4. StepSound(D!NoRequest) /\ D!NoRequest.step # "commit"
      BY DEF StepSound, RouteSound, D!NoRequest
    <2> QED
      BY <1>1, <2>1, <2>3, <2>4, RequestStep
  <1> QED
    BY <1>3, <1>4

\* What a check looks at, and does not if it is not fired.
LEMMA GuardsLook ==
    ASSUME AdministrationInv, NEW written
    PROVE  LET d == D!With(written, db)
           IN  /\ DOMAIN written \cap D!SettingsGuard = {} =>
                     (D!EnabledIsDeliverable(d) <=> D!EnabledIsDeliverable(db))
               /\ DOMAIN written \cap D!GrantGuard = {} =>
                     (D!ActiveGrantIsUsable(d) <=> D!ActiveGrantIsUsable(db))
  <1> DEFINE d == D!With(written, db)
  <1>1. \A r \in D!Rows : d[r] = IF r \in DOMAIN written THEN written[r] ELSE db[r]
    BY DEF D!With
  <1>2. db["settings"].routes \in SUBSET Channels
    BY DEF AdministrationInv, AdministrationTypes, WellFormed, D!Rows, D!Singles, SettingsRows
  <1>3. ASSUME DOMAIN written \cap D!SettingsGuard = {}
        PROVE  D!EnabledIsDeliverable(d) <=> D!EnabledIsDeliverable(db)
    <2>1. /\ d["settings"] = db["settings"] /\ d["installation"] = db["installation"]
          /\ \A c \in Channels : d[c] = db[c]
      BY <1>1, <1>3 DEF D!SettingsGuard, D!Rows, D!Singles
    <2> QED
      BY <1>2, <2>1 DEF D!EnabledIsDeliverable, D!Routable
  <1>4. ASSUME DOMAIN written \cap D!GrantGuard = {}
        PROVE  D!ActiveGrantIsUsable(d) <=> D!ActiveGrantIsUsable(db)
    <2>1. d["grant"] = db["grant"] /\ d["installation"] = db["installation"] /\ d["role"] = db["role"]
      BY <1>1, <1>4 DEF D!GrantGuard, D!Rows, D!Singles
    <2> QED
      BY <2>1 DEF D!ActiveGrantIsUsable
  <1> QED
    BY <1>3, <1>4

LEMMA CommitStep ==
    ASSUME AdministrationInv, NEW a \in People, D!Commit(a)
    PROVE  AdministrationInv'
  <1>t. PICK t : t = task[a]
    OBVIOUS
  <1>1. /\ t.step = "commit" /\ CommitSound(t) /\ D!InCommit(a)
        /\ db' = D!With(t.rows, db) /\ UNCHANGED tripped
    BY <1>t DEF D!Commit, AdministrationInv, TasksSound, D!InCommit
  <1>2. /\ \A r \in D!Rows : db'[r] = IF r \in DOMAIN t.rows THEN t.rows[r] ELSE db[r]
        /\ db' = [r \in D!Rows |-> db'[r]]
    BY <1>1 DEF D!With
  <1>3. AdministrationTypes'
    <2>1. \A r \in D!Rows : WellFormed(r, db'[r])
      BY <1>1, <1>2 DEF CommitSound, RowsSound, AdministrationInv, AdministrationTypes
    <2>2. task' = [b \in People |-> task'[b]]
      BY DEF D!Commit
    <2>3. \A r, x : WellFormed(r, x)' <=> WellFormed(r, x)
      BY DEF WellFormed
    <2> QED
      BY <1>1, <1>2, <2>1, <2>2, <2>3 DEF AdministrationInv, AdministrationTypes
  <1>4. ASSUME NEW b \in People
        PROVE  \/ b = a /\ task'[b] = t.then
               \/ b # a /\ D!InCommit(b) /\ task'[b] = [task[b] EXCEPT !.raced = TRUE]
               \/ b # a /\ ~D!InCommit(b) /\ task'[b] = task[b]
    BY <1>t DEF D!Commit
  <1>5. ASSUME NEW b \in People, b # a, D!InCommit(b)
        PROVE  /\ task'[b].step = "commit" /\ task'[b].rows = task[b].rows
               /\ \A v : v = task'[b] => CommitSound(v)'
    <2>1. /\ CommitSound(task[b]) /\ task'[b] = [task[b] EXCEPT !.raced = TRUE]
          /\ DOMAIN task[b].rows \cap DOMAIN t.rows = {}
      BY <1>t, <1>1, <1>4, <1>5 DEF AdministrationInv, TasksSound
    <2>2. PICK u : u = task[b]
      OBVIOUS
    <2>3. u = [step |-> "commit", rows |-> u.rows, clean |-> u.clean, then |-> u.then, raced |-> u.raced]
      BY <2>1, <2>2 DEF CommitSound
    <2>4. task'[b] = [step |-> "commit", rows |-> u.rows, clean |-> u.clean, then |-> u.then, raced |-> TRUE]
      <3>1. ASSUME NEW w, NEW c, NEW n, NEW r
            PROVE  [[step |-> "commit", rows |-> w, clean |-> c, then |-> n, raced |-> r] EXCEPT !.raced = TRUE]
                   = [step |-> "commit", rows |-> w, clean |-> c, then |-> n, raced |-> TRUE]
        <4> DEFINE waiting == [step : {"commit"}, rows : {w}, clean : {c}, then : {n}, raced : {r, TRUE}]
                   x == [step |-> "commit", rows |-> w, clean |-> c, then |-> n, raced |-> r]
        <4>1. x \in waiting
          OBVIOUS
        <4>2. [x EXCEPT !.raced = TRUE] \in waiting /\ [x EXCEPT !.raced = TRUE].raced = TRUE
          BY <4>1
        <4>3. \A y \in waiting : y.raced = TRUE =>
                 y = [step |-> "commit", rows |-> w, clean |-> c, then |-> n, raced |-> TRUE]
          OBVIOUS
        <4> QED
          BY <4>2, <4>3
      <3>2. task'[b] = [u EXCEPT !.raced = TRUE]
        BY <2>1, <2>2
      <3> QED
        BY <2>3, <3>1, <3>2
    <2>5. /\ "settings" \in DOMAIN u.rows => db'["settings"] = db["settings"]
          /\ "grant" \in DOMAIN u.rows => db'["grant"] = db["grant"]
      BY <1>2, <2>1, <2>2 DEF D!Rows, D!Singles
    <2>6. RowsSound(u.rows)'
      BY <2>1, <2>2, <2>5 DEF CommitSound, RowsSound
    <2>7. u.clean \in BOOLEAN /\ NextSound(u.then)
      BY <2>1, <2>2 DEF CommitSound
    <2>8. ASSUME NEW v, v = task'[b] PROVE CommitSound(v)'
      <3>1. v = [step |-> "commit", rows |-> u.rows, clean |-> u.clean, then |-> u.then, raced |-> TRUE]
        BY <2>4, <2>8
      <3> QED
        BY <2>6, <2>7, <3>1 DEF CommitSound
    <2> QED
      BY <2>2, <2>4, <2>8
  <1>6. TasksSound'
    <2>1. NextSound(t.then) /\ StepSound(t.then) /\ t.then.step # "commit"
      BY <1>1 DEF CommitSound, NextSound, StepSound
    <2>2. \A x : StepSound(x)' <=> StepSound(x)
      BY DEF StepSound, RouteSound, NextSound
    <2>3. ASSUME NEW b \in People
          PROVE  StepSound(task'[b]) /\ (D!InCommit(b)' => b # a /\ D!InCommit(b))
      BY <1>4, <1>5, <2>1 DEF D!InCommit, AdministrationInv, TasksSound, StepSound, RouteSound
    <2> QED
      BY <1>5, <2>2, <2>3 DEF AdministrationInv, TasksSound
  <1>7. D!AdministrationHolds'
    <2> DEFINE fired == (IF DOMAIN t.rows \cap D!SettingsGuard # {} THEN {"settings"} ELSE {})
                        \cup (IF DOMAIN t.rows \cap D!GrantGuard # {} THEN {"grants"} ELSE {})
    <2>1. doubt' = IF t.raced THEN doubt \cup fired \cup {"routes"}
                   ELSE (doubt \ fired) \ (IF t.clean THEN {"routes"} ELSE {})
      BY <1>t DEF D!Commit
    <2>2. t.raced \in BOOLEAN /\ t.clean \in BOOLEAN /\ (~t.raced => Sound(t.rows, t.clean))
      BY <1>1 DEF CommitSound
    <2>3. "settings" \notin doubt' => D!EnabledIsDeliverable(db')
      <3>1. CASE DOMAIN t.rows \cap D!SettingsGuard = {}
        BY <1>1, <2>1, <3>1, GuardsLook DEF AdministrationInv, D!AdministrationHolds
      <3>2. CASE DOMAIN t.rows \cap D!SettingsGuard # {}
        BY <1>1, <2>1, <2>2, <3>2 DEF Sound, D!Passes
      <3> QED
        BY <3>1, <3>2
    <2>4. "grants" \notin doubt' => D!ActiveGrantIsUsable(db')
      <3>1. CASE DOMAIN t.rows \cap D!GrantGuard = {}
        BY <1>1, <2>1, <3>1, GuardsLook DEF AdministrationInv, D!AdministrationHolds
      <3>2. CASE DOMAIN t.rows \cap D!GrantGuard # {}
        BY <1>1, <2>1, <2>2, <3>2 DEF Sound, D!Passes
      <3> QED
        BY <3>1, <3>2
    <2>5. "routes" \notin doubt' => AllRoutable(db')
      BY <1>1, <2>1, <2>2 DEF Sound
    <2> QED
      BY <1>1, <2>3, <2>4, <2>5 DEF AdministrationInv, D!AdministrationHolds, AllRoutable,
         D!EnabledIsDeliverable, D!ActiveGrantIsUsable, D!Routable
  <1> QED
    BY <1>3, <1>6, <1>7 DEF AdministrationInv

\* The rows as they would be after a write, one by one.
LEMMA WrittenRows ==
    ASSUME AdministrationInv, NEW written
    PROVE  LET d == D!With(written, db)
           IN  /\ \A r \in D!Singles \cup Channels :
                     d[r] = IF r \in DOMAIN written THEN written[r] ELSE db[r]
               /\ db["settings"] \in SettingsRows /\ db["grant"] \in GrantRows /\ db["role"] \in BOOLEAN
               /\ db["settings"].enabled => db["settings"].scopes /\ db["settings"].routes # {}
               /\ \A c \in Channels : db[c] \in ChannelRows
               /\ "settings" \in D!Singles /\ "grant" \in D!Singles /\ "role" \in D!Singles
               /\ "installation" \in D!Singles
  BY DEF D!With, D!Rows, D!Singles, AdministrationInv, AdministrationTypes, WellFormed

\* Nothing in doubt: what is stored passes every check.
LEMMA NothingInDoubt ==
    ASSUME AdministrationInv, doubt = {}
    PROVE  D!EnabledIsDeliverable(db) /\ D!ActiveGrantIsUsable(db) /\ AllRoutable(db)
  BY DEF AdministrationInv, D!AdministrationHolds, AllRoutable

LEMMA RoutesLook ==
    ASSUME AdministrationInv, AccountsAssumption, NEW written, "settings" \notin DOMAIN written,
           DOMAIN written \cap Channels = {}, "routes" \notin doubt
    PROVE  AllRoutable(D!With(written, db))
  <1> DEFINE d == D!With(written, db)
  <1>1. d["settings"] = db["settings"] /\ \A c \in Channels : d[c] = db[c]
    BY WrittenRows
  <1>2. db["settings"].routes \in SUBSET Channels
    BY WrittenRows DEF SettingsRows
  <1> QED
    BY <1>1, <1>2 DEF AllRoutable, D!Routable, AdministrationInv, D!AdministrationHolds

LEMMA EndStep ==
    ASSUME AdministrationInv, NEW a \in People, D!Ends(a), UNCHANGED <<db, doubt, tripped>>
    PROVE  AdministrationInv'
  <1>1. StepSound(D!NoRequest) /\ D!NoRequest.step # "commit"
    BY DEF StepSound, RouteSound, D!NoRequest
  <1> QED
    BY <1>1, RequestStep DEF D!Ends, D!Goes

LEMMA ConnectKeeps ==
    ASSUME AdministrationInv, AccountsAssumption, NEW a \in People, D!Connect(a)
    PROVE  AdministrationInv'
  <1> DEFINE written == [r \in {"installation"} |-> "ACTIVE"]
             d == D!With(written, db)
  <1>1. CASE db["installation"] = "REVOKED"
    BY <1>1, EndStep DEF D!Connect, D!NothingStored
  <1>2. CASE db["installation"] # "REVOKED"
    <2>1. D!Write(a, written, FALSE, D!NoRequest) /\ ~D!InCommit(a)
      BY <1>2 DEF D!Connect, D!InCommit
    <2>2. RowsSound(written) /\ NextSound(D!NoRequest)
      BY DEF RowsSound, WellFormed, NextSound, RouteSound, D!NoRequest, AccountsAssumption,
         D!AdministrationAssumption, D!Singles
    <2>3. ASSUME doubt = {} PROVE D!Passes(DOMAIN written, d)
      <3>1. /\ d["installation"] = "ACTIVE" /\ d["settings"] = db["settings"] /\ d["grant"] = db["grant"]
            /\ d["role"] = db["role"] /\ \A c \in Channels : d[c] = db[c]
        BY WrittenRows DEF AccountsAssumption, D!AdministrationAssumption, D!Singles
      <3>2. db["settings"].routes \in SUBSET Channels
        BY WrittenRows DEF SettingsRows
      <3> HIDE DEF d
      <3>3. D!EnabledIsDeliverable(d)
        BY <2>3, <3>1, <3>2, NothingInDoubt DEF D!EnabledIsDeliverable, D!Routable
      <3>4. D!ActiveGrantIsUsable(d)
        BY <2>3, <3>1, NothingInDoubt DEF D!ActiveGrantIsUsable
      <3> QED
        BY <3>3, <3>4 DEF D!Passes
    <2>4. "routes" \notin doubt => AllRoutable(d)
      BY RoutesLook DEF AccountsAssumption, D!AdministrationAssumption, D!Singles
    <2> QED
      BY <2>1, <2>2, <2>3, <2>4, WriteStep
  <1> QED
    BY <1>1, <1>2

LEMMA DisconnectKeeps ==
    ASSUME AdministrationInv, AccountsAssumption, NEW a \in People, D!Disconnect(a)
    PROVE  AdministrationInv'
  <1> DEFINE settings == db["settings"]
             off == [D!Revised(settings) EXCEPT !.enabled = FALSE]
             touched == {"installation"} \cup (IF settings.enabled THEN {"settings"} ELSE {})
                        \cup (IF db["grant"].status = "ACTIVE" THEN {"grant"} ELSE {})
                        \cup (IF db["role"] THEN {"role"} ELSE {})
             written == [r \in touched |->
                 CASE r = "installation" -> "DISCONNECTED"
                   [] r = "settings" -> off
                   [] r = "grant" -> [revision |-> db["grant"].revision + 1, status |-> "REVOKED"]
                   [] r = "role" -> FALSE]
             d == D!With(written, db)
  <1>1. CASE db["installation"] = "REVOKED"
    BY <1>1, EndStep DEF D!Disconnect, D!NothingStored
  <1>2. CASE db["installation"] # "REVOKED"
    <2>1. D!Write(a, written, FALSE, D!NoRequest) /\ ~D!InCommit(a)
      BY <1>2 DEF D!Disconnect, D!InCommit
    <2>2. DOMAIN written = touched /\ touched \subseteq D!Singles /\ DOMAIN written \cap Channels = {}
      BY DEF D!Singles, AccountsAssumption, D!AdministrationAssumption
    <2>3. /\ off \in SettingsRows /\ off.enabled = FALSE
          /\ off.revision = settings.revision + 1 /\ off.routes = settings.routes
      <3>1. settings \in SettingsRows
        BY WrittenRows
      <3>2. D!Revised(settings) \in SettingsRows /\ D!Revised(settings).revision = settings.revision + 1
            /\ D!Revised(settings).routes = settings.routes
        BY <3>1 DEF D!Revised, SettingsRows
      <3> QED
        BY <3>2 DEF SettingsRows
    <2>4. [revision |-> db["grant"].revision + 1, status |-> "REVOKED"] \in GrantRows
      BY WrittenRows DEF GrantRows
    <2>5. /\ written["installation"] = "DISCONNECTED"
          /\ "settings" \in touched => written["settings"] = off
          /\ "grant" \in touched =>
                written["grant"] = [revision |-> db["grant"].revision + 1, status |-> "REVOKED"]
          /\ "role" \in touched => written["role"] = FALSE
      OBVIOUS
    <2>6. /\ "settings" \notin touched => ~settings.enabled
          /\ "grant" \notin touched => db["grant"].status # "ACTIVE"
      OBVIOUS
    <2> HIDE DEF written, touched, off
    <2>7. RowsSound(written) /\ NextSound(D!NoRequest)
      <3>1. \A r \in DOMAIN written : WellFormed(r, written[r])
        BY <2>2, <2>3, <2>4, <2>5 DEF WellFormed, D!Singles, AccountsAssumption, D!AdministrationAssumption
      <3> QED
        BY <2>2, <2>3, <2>5, <3>1 DEF RowsSound, NextSound, RouteSound, D!NoRequest
    <2>8. D!Passes(DOMAIN written, d)
      <3>1. ~d["settings"].enabled
        BY <2>2, <2>3, <2>5, <2>6, WrittenRows
      <3>2. d["grant"].status # "ACTIVE"
        BY <2>2, <2>5, <2>6, WrittenRows
      <3> QED
        BY <3>1, <3>2 DEF D!Passes, D!EnabledIsDeliverable, D!ActiveGrantIsUsable
    <2>9. "routes" \notin doubt => AllRoutable(d)
      <3>1. d["settings"].routes = settings.routes /\ \A c \in Channels : d[c] = db[c]
        BY <2>2, <2>3, <2>5, WrittenRows
      <3>2. settings.routes \in SUBSET Channels
        BY WrittenRows DEF SettingsRows
      <3> HIDE DEF d
      <3> QED
        BY <3>1, <3>2 DEF AllRoutable, D!Routable, AdministrationInv, D!AdministrationHolds
    <2> QED
      BY <2>1, <2>7, <2>8, <2>9, WriteStep
  <1> QED
    BY <1>1, <1>2

LEMMA WithRoutesSound ==
    ASSUME NEW s \in SettingsRows, s.enabled => s.scopes /\ s.routes # {}, NEW routes \in SUBSET Channels
    PROVE  LET x == D!WithRoutes(s, routes)
           IN  /\ x \in SettingsRows /\ x.revision = s.revision + 1 /\ x.routes = routes
               /\ x.scopes = s.scopes /\ (x.enabled <=> s.enabled /\ routes # {})
  <1> DEFINE r == D!Revised(s)
             x == [revision |-> s.revision + 1, enabled |-> s.enabled /\ routes # {}, scopes |-> s.scopes,
                   routes |-> routes]
  <1>1. r \in SettingsRows /\ r.revision = s.revision + 1 /\ r.enabled = s.enabled /\ r.scopes = s.scopes
    BY DEF D!Revised, SettingsRows
  <1>2. D!WithRoutes(s, routes) = [r EXCEPT !.routes = routes, !.enabled = r.enabled /\ routes # {}]
    BY DEF D!WithRoutes
  <1> HIDE DEF r
  <1>3. s.enabled \in BOOLEAN /\ s.scopes \in BOOLEAN /\ s.revision \in Nat
    BY DEF SettingsRows
  <1>4. [r EXCEPT !.routes = routes, !.enabled = r.enabled /\ routes # {}] \in SettingsRows
    BY <1>1 DEF SettingsRows
  <1>5. LET y == [r EXCEPT !.routes = routes, !.enabled = r.enabled /\ routes # {}]
        IN  y.routes = routes /\ y.revision = r.revision /\ y.scopes = r.scopes
            /\ (y.enabled <=> r.enabled /\ routes # {})
    BY <1>1 DEF SettingsRows
  <1> QED
    BY <1>1, <1>2, <1>4, <1>5

LEMMA SyncKeeps ==
    ASSUME AdministrationInv, AccountsAssumption, NEW a \in People, D!SyncChannels(a)
    PROVE  AdministrationInv'
  <1>t. PICK listed, then : listed = task[a].listed /\ then = task[a].then
    OBVIOUS
  <1> DEFINE Synced(c) == [known |-> TRUE, enabled |-> db[c].known => db[c].enabled,
                           usable |-> listed[c] = "usable"]
             seen == {c \in Channels : db[c].known \/ listed[c] # "absent"}
             channels == [c \in seen |-> Synced(c)]
             settings == db["settings"]
             kept == {c \in settings.routes : D!Routable(D!With(channels, db), c)}
             touched == seen \cup (IF kept = settings.routes THEN {} ELSE {"settings"})
             rerouted == D!WithRoutes(settings, kept)
             written == [r \in touched |-> IF r = "settings" THEN rerouted ELSE Synced(r)]
             d == D!With(written, db)
  <1>1. task[a].step = "sync" /\ NextSound(then) /\ ~D!InCommit(a)
    BY <1>t DEF D!SyncChannels, AdministrationInv, TasksSound, StepSound, D!InCommit
  <1>2. CASE db["installation"] # "ACTIVE"
    BY <1>2, EndStep DEF D!SyncChannels, D!NothingStored
  <1>3. CASE db["installation"] = "ACTIVE"
    <2>1. D!Write(a, written, TRUE, then)
      BY <1>t, <1>3 DEF D!SyncChannels
    <2>2. settings \in SettingsRows /\ (settings.enabled => settings.scopes /\ settings.routes # {})
          /\ settings.routes \in SUBSET Channels /\ kept \in SUBSET Channels
      BY WrittenRows DEF SettingsRows
    <2>3. /\ rerouted \in SettingsRows /\ rerouted.revision = settings.revision + 1
          /\ rerouted.routes = kept /\ rerouted.scopes = settings.scopes
          /\ rerouted.enabled <=> settings.enabled /\ kept # {}
      <3> HIDE DEF kept
      <3> QED
        BY <2>2, WithRoutesSound
    <2>4. \A c \in Channels : Synced(c) \in ChannelRows
      BY DEF ChannelRows
    <2>5. "settings" \notin Channels /\ "installation" \notin Channels
          /\ "grant" \notin Channels /\ "role" \notin Channels
      BY DEF AccountsAssumption, D!AdministrationAssumption, D!Singles
    <2>6. /\ \A c \in Channels : c \in DOMAIN written <=> c \in seen
          /\ \A c \in seen : written[c] = Synced(c)
          /\ \A r \in D!Singles : r \in DOMAIN written <=> r = "settings" /\ kept # settings.routes
          /\ "settings" \in DOMAIN written => written["settings"] = rerouted
          /\ seen \in SUBSET Channels /\ DOMAIN written \subseteq Channels \cup {"settings"}
      BY <2>5 DEF D!Singles
    <2>7. /\ \A c \in Channels : d[c] = IF c \in seen THEN Synced(c) ELSE db[c]
          /\ d["settings"] = IF kept # settings.routes THEN rerouted ELSE settings
          /\ d["installation"] = "ACTIVE" /\ d["grant"] = db["grant"] /\ d["role"] = db["role"]
      <3> HIDE DEF written, rerouted, kept, seen, Synced
      <3>1. \A r \in D!Singles \cup Channels : d[r] = IF r \in DOMAIN written THEN written[r] ELSE db[r]
        BY WrittenRows
      <3> HIDE DEF d
      <3>2. \A c \in Channels : d[c] = IF c \in seen THEN Synced(c) ELSE db[c]
        BY <2>6, <3>1
      <3>3. /\ d["settings"] = IF kept # settings.routes THEN rerouted ELSE settings
            /\ d["installation"] = "ACTIVE" /\ d["grant"] = db["grant"] /\ d["role"] = db["role"]
        BY <1>3, <2>6, <3>1 DEF D!Singles
      <3> QED
        BY <3>2, <3>3
    <2>8. \A c \in Channels : D!With(channels, db)[c] = d[c]
      <3>1. \A c \in Channels : D!With(channels, db)[c] = IF c \in seen THEN Synced(c) ELSE db[c]
        BY DEF D!With, D!Rows
      <3> QED
        BY <2>7, <3>1
    <2>9. \A c \in kept : D!Routable(d, c)
      BY <2>2, <2>8 DEF D!Routable
    <2>10. /\ d["settings"].routes = kept /\ d["settings"].scopes = settings.scopes
           /\ d["settings"].enabled => settings.enabled /\ kept # {}
      BY <2>2, <2>3, <2>7
    <2>11. RowsSound(written)
      <3>1. \A r \in DOMAIN written : WellFormed(r, written[r])
        <4>1. ASSUME NEW c \in seen PROVE WellFormed(c, written[c])
          BY <2>4, <2>5, <2>6 DEF WellFormed
        <4>2. "settings" \in DOMAIN written => WellFormed("settings", written["settings"])
          BY <2>2, <2>3, <2>5, <2>6 DEF WellFormed
        <4>3. \A r \in DOMAIN written : r = "settings" \/ r \in seen
          BY <2>6
        <4> HIDE DEF written, seen
        <4> QED
          BY <4>1, <4>2, <4>3
      <3> HIDE DEF written, rerouted
      <3> QED
        BY <2>3, <2>6, <3>1 DEF RowsSound, D!Singles
    <2> HIDE DEF written, d, rerouted, kept, channels
    <2>12. AllRoutable(d)
      BY <2>9, <2>10 DEF AllRoutable
    <2>13. doubt = {} => D!Passes(DOMAIN written, d)
      <3>1. D!EnabledIsDeliverable(d)
        BY <2>2, <2>7, <2>9, <2>10 DEF D!EnabledIsDeliverable
      <3>2. doubt = {} => D!ActiveGrantIsUsable(d)
        BY <1>3, <2>7, NothingInDoubt DEF D!ActiveGrantIsUsable
      <3> QED
        BY <3>1, <3>2 DEF D!Passes
    <2> QED
      BY <1>1, <2>1, <2>11, <2>12, <2>13, WriteStep DEF d
  <1> QED
    BY <1>2, <1>3

LEMMA ToggleKeeps ==
    ASSUME AdministrationInv, AccountsAssumption, NEW a \in People, NEW c \in Channels, NEW on \in BOOLEAN,
           D!ToggleChannel(a, c, on)
    PROVE  AdministrationInv'
  <1> DEFINE settings == db["settings"]
             rest == settings.routes \ {c}
             unrouted == ~on /\ c \in settings.routes
             touched == {c} \cup (IF unrouted THEN {"settings"} ELSE {})
             toggled == [db[c] EXCEPT !.enabled = on]
             rerouted == D!WithRoutes(settings, rest)
             written == [r \in touched |-> IF r = c THEN toggled ELSE rerouted]
             d == D!With(written, db)
  <1>0. task[a] = D!NoRequest /\ db[c].known /\ (on => db[c].usable)
    BY DEF D!ToggleChannel, D!Free
  <1>w. D!Write(a, written, FALSE, D!NoRequest)
    BY DEF D!ToggleChannel
  <1>1. /\ D!Write(a, written, FALSE, D!NoRequest) /\ ~D!InCommit(a)
        /\ db[c].known /\ (on => db[c].usable)
    <2>1. ~D!InCommit(a)
      BY <1>0 DEF D!InCommit, D!NoRequest
    <2> QED
      BY <1>0, <1>w, <2>1
  <1>2. /\ settings \in SettingsRows /\ (settings.enabled => settings.scopes /\ settings.routes # {})
        /\ settings.routes \in SUBSET Channels /\ rest \in SUBSET Channels /\ db[c] \in ChannelRows
    BY WrittenRows DEF SettingsRows
  <1>3. /\ rerouted \in SettingsRows /\ rerouted.revision = settings.revision + 1
        /\ rerouted.routes = rest /\ rerouted.scopes = settings.scopes
        /\ rerouted.enabled <=> settings.enabled /\ rest # {}
    BY <1>2, WithRoutesSound
  <1>4. /\ toggled \in ChannelRows /\ toggled.enabled = on /\ toggled.usable = db[c].usable
        /\ toggled.known = db[c].known
    BY <1>2 DEF ChannelRows
  <1>5. "settings" \notin Channels /\ "installation" \notin Channels
        /\ "grant" \notin Channels /\ "role" \notin Channels
    BY DEF AccountsAssumption, D!AdministrationAssumption, D!Singles
  <1>6. /\ c \in DOMAIN written /\ written[c] = toggled
        /\ \A x \in Channels : x \in DOMAIN written <=> x = c
        /\ \A r \in D!Singles : r \in DOMAIN written <=> r = "settings" /\ unrouted
        /\ "settings" \in DOMAIN written => written["settings"] = rerouted
        /\ \A r \in DOMAIN written : r = c \/ r = "settings"
    BY <1>5 DEF D!Singles
  <1> HIDE DEF written, toggled, rerouted
  <1>7. /\ \A x \in Channels : d[x] = IF x = c THEN toggled ELSE db[x]
        /\ d["settings"] = IF unrouted THEN rerouted ELSE settings
        /\ d["installation"] = db["installation"] /\ d["grant"] = db["grant"] /\ d["role"] = db["role"]
    BY <1>6, WrittenRows DEF D!Singles
  <1> HIDE DEF d
  <1>8. RowsSound(written) /\ NextSound(D!NoRequest)
    <2>1. WellFormed(c, written[c])
      BY <1>4, <1>5, <1>6 DEF WellFormed
    <2>2. "settings" \in DOMAIN written => WellFormed("settings", written["settings"])
      BY <1>2, <1>3, <1>5, <1>6 DEF WellFormed
    <2> QED
      BY <1>3, <1>5, <1>6, <2>1, <2>2 DEF RowsSound, D!Singles, NextSound, RouteSound, D!NoRequest
  <1>9. ASSUME NEW x \in Channels, D!Routable(db, x), on \/ x # c
        PROVE  D!Routable(d, x)
    BY <1>1, <1>4, <1>7, <1>9 DEF D!Routable
  <1>10. \A x \in d["settings"].routes : x \in Channels /\ x \in settings.routes /\ (on \/ x # c)
    BY <1>2, <1>3, <1>7
  <1>11. "routes" \notin doubt => AllRoutable(d)
    BY <1>9, <1>10 DEF AllRoutable, AdministrationInv, D!AdministrationHolds
  <1>12. ASSUME doubt = {} PROVE D!Passes(DOMAIN written, d)
    <2>1. D!EnabledIsDeliverable(db) /\ D!ActiveGrantIsUsable(db) /\ AllRoutable(d)
      BY <1>11, <1>12, NothingInDoubt
    <2>2. ASSUME d["settings"].enabled
          PROVE  settings.enabled /\ d["settings"].scopes /\ d["settings"].routes # {}
      BY <1>2, <1>3, <1>7, <2>2
    <2>3. D!EnabledIsDeliverable(d)
      BY <1>7, <2>1, <2>2 DEF D!EnabledIsDeliverable, AllRoutable
    <2>4. D!ActiveGrantIsUsable(d)
      BY <1>7, <2>1 DEF D!ActiveGrantIsUsable
    <2> QED
      BY <2>3, <2>4 DEF D!Passes
  <1> QED
    BY <1>1, <1>8, <1>11, <1>12, WriteStep DEF d

LEMMA WriteConfigurationKeeps ==
    ASSUME AdministrationInv, AccountsAssumption, NEW a \in People, D!WriteConfiguration(a)
    PROVE  AdministrationInv'
  <1>t. PICK t : t = task[a]
    OBVIOUS
  <1> DEFINE settings == db["settings"]
             row == [revision |-> t.expected + 1, enabled |-> t.enabled, scopes |-> t.scopes,
                     routes |-> t.routes]
             written == [r \in {"settings"} |-> row]
             d == D!With(written, db)
             fits == /\ t.enabled => db["installation"] = "ACTIVE"
                     /\ \A c \in t.routes : D!Routable(db, c)
                     /\ D!SameRevision(t, settings)
  <1>1. /\ t.step = "write" /\ ~D!InCommit(a)
        /\ t.routes \in SUBSET Channels /\ t.expected \in Nat /\ t.enabled \in BOOLEAN /\ t.scopes \in BOOLEAN
        /\ t.enabled => t.scopes /\ t.routes # {}
    BY <1>t DEF D!WriteConfiguration, AdministrationInv, TasksSound, StepSound, D!InCommit
  <1>2. CASE ~fits
    <2>1. D!Ends(a) /\ D!NothingStored
      BY <1>t, <1>2 DEF D!WriteConfiguration
    <2> QED
      BY <2>1, EndStep DEF D!NothingStored
  <1>3. CASE fits
    <2>1. D!Write(a, written, TRUE, D!NoRequest)
      BY <1>t, <1>3 DEF D!WriteConfiguration
    <2>2. /\ row \in SettingsRows /\ row.enabled = t.enabled /\ row.routes = t.routes /\ row.scopes = t.scopes
          /\ row.revision = settings.revision + 1
      BY <1>1, <1>3 DEF SettingsRows, D!SameRevision
    <2>3. DOMAIN written = {"settings"} /\ written["settings"] = row
      OBVIOUS
    <2>4. "settings" \notin Channels
      BY DEF AccountsAssumption, D!AdministrationAssumption, D!Singles
    <2> HIDE DEF written, row
    <2>5. RowsSound(written) /\ NextSound(D!NoRequest)
      BY <1>1, <2>2, <2>3, <2>4 DEF RowsSound, WellFormed, NextSound, RouteSound, D!NoRequest
    <2>6. /\ d["settings"] = row /\ \A c \in Channels : d[c] = db[c]
          /\ d["installation"] = db["installation"] /\ d["grant"] = db["grant"] /\ d["role"] = db["role"]
      <3>1. \A r \in D!Singles \cup Channels : d[r] = IF r \in DOMAIN written THEN written[r] ELSE db[r]
        BY WrittenRows
      <3> HIDE DEF d
      <3> QED
        BY <2>3, <2>4, <3>1 DEF D!Singles
    <2> HIDE DEF d
    <2>7. \A c \in t.routes : D!Routable(d, c)
      BY <1>1, <1>3, <2>6 DEF D!Routable
    <2>8. AllRoutable(d)
      BY <2>2, <2>6, <2>7 DEF AllRoutable
    <2>9. D!EnabledIsDeliverable(d)
      BY <1>1, <1>3, <2>2, <2>6, <2>7 DEF D!EnabledIsDeliverable
    <2>10. doubt = {} => D!ActiveGrantIsUsable(d)
      BY <2>6, NothingInDoubt DEF D!ActiveGrantIsUsable
    <2> QED
      BY <1>1, <2>1, <2>5, <2>8, <2>9, <2>10, WriteStep DEF D!Passes, d
  <1> QED
    BY <1>2, <1>3

LEMMA WriteGrantKeeps ==
    ASSUME AdministrationInv, AccountsAssumption, NEW a \in People, NEW status \in {"ACTIVE", "REVOKED"},
           D!WriteGrant(a, status)
    PROVE  AdministrationInv'
  <1>r. PICK r \in 0 .. db["grant"].revision :
            /\ task[a] = D!NoRequest /\ db["installation"] = "ACTIVE" /\ db["role"]
            /\ r = db["grant"].revision
            /\ D!Write(a, [x \in {"grant"} |-> [revision |-> r + 1, status |-> status]], FALSE, D!NoRequest)
    BY DEF D!WriteGrant, D!Free
  <1> DEFINE row == [revision |-> r + 1, status |-> status]
             written == [x \in {"grant"} |-> row]
             d == D!With(written, db)
  <1>1. D!Write(a, written, FALSE, D!NoRequest) /\ ~D!InCommit(a)
    <2>1. ~D!InCommit(a)
      BY <1>r DEF D!InCommit, D!NoRequest
    <2> QED
      BY <1>r, <2>1
  <1>2. row \in GrantRows /\ row.revision = db["grant"].revision + 1
    BY <1>r, WrittenRows DEF GrantRows
  <1>3. DOMAIN written = {"grant"} /\ written["grant"] = row
    OBVIOUS
  <1>4. "grant" \notin Channels
    BY DEF AccountsAssumption, D!AdministrationAssumption, D!Singles
  <1> HIDE DEF written, row
  <1>5. RowsSound(written) /\ NextSound(D!NoRequest)
    BY <1>2, <1>3, <1>4 DEF RowsSound, WellFormed, NextSound, RouteSound, D!NoRequest
  <1>6. d["settings"] = db["settings"] /\ (\A c \in Channels : d[c] = db[c])
        /\ d["installation"] = db["installation"] /\ d["role"] = db["role"]
    <2>1. \A x \in D!Singles \cup Channels : d[x] = IF x \in DOMAIN written THEN written[x] ELSE db[x]
      BY WrittenRows
    <2> HIDE DEF d
    <2> QED
      BY <1>3, <1>4, <2>1 DEF D!Singles
  <1>7. "routes" \notin doubt => AllRoutable(d)
    BY <1>3, <1>4, RoutesLook
  <1> HIDE DEF d
  <1>8. D!ActiveGrantIsUsable(d)
    BY <1>r, <1>6 DEF D!ActiveGrantIsUsable
  <1>9. ASSUME doubt = {} PROVE D!EnabledIsDeliverable(d)
    <2>1. db["settings"].routes \in SUBSET Channels
      BY WrittenRows DEF SettingsRows
    <2> QED
      BY <1>6, <1>9, <2>1, NothingInDoubt DEF D!EnabledIsDeliverable, D!Routable
  <1> QED
    BY <1>1, <1>5, <1>7, <1>8, <1>9, WriteStep DEF D!Passes, d

LEMMA RequestsKeep ==
    ASSUME AdministrationInv, AccountsAssumption, NEW a \in People,
           \/ D!VerifyAuthorization(a) \/ D!BeginDisconnect(a) \/ D!LeaveGuild(a)
           \/ D!Refresh(a) \/ D!UpdateRouting(a) \/ D!ListTextChannels(a) \/ D!RouteChannels(a)
           \/ D!SaveSettings(a) \/ D!UpdateCadence(a) \/ D!Die(a)
           \/ \E on \in BOOLEAN : D!ChangeState(a, on)
    PROVE  AdministrationInv'
  <1> USE DEF D!NothingStored
  <1>0. /\ db["settings"] \in SettingsRows
        /\ db["settings"].enabled => db["settings"].scopes /\ db["settings"].routes # {}
    BY WrittenRows
  <1>s. /\ db["settings"].enabled \in BOOLEAN /\ db["settings"].scopes \in BOOLEAN
        /\ db["settings"].routes \in SUBSET Channels /\ db["settings"].revision \in Nat
    BY <1>0 DEF SettingsRows
  <1>f. Forms \subseteq SUBSET Channels
    BY DEF AccountsAssumption, D!AdministrationAssumption
  <1>n. NextSound(D!NoRequest)
    BY DEF NextSound, RouteSound, D!NoRequest
  <1>1. CASE D!VerifyAuthorization(a)
    <2>1. StepSound([step |-> "connect"])
      BY DEF StepSound, RouteSound
    <2> QED
      BY <1>1, <2>1, RequestStep DEF D!VerifyAuthorization, D!Goes
  <1>2. CASE D!BeginDisconnect(a)
    <2>1. PICK step \in {"leave", "disconnect"} : D!Goes(a, [step |-> step])
      BY <1>2 DEF D!BeginDisconnect
    <2>2. StepSound([step |-> step])
      BY DEF StepSound, RouteSound
    <2> QED
      BY <1>2, <2>1, <2>2, RequestStep DEF D!BeginDisconnect, D!Goes
  <1>3. CASE D!LeaveGuild(a)
    <2>1. StepSound([step |-> "disconnect"])
      BY DEF StepSound, RouteSound
    <2> QED
      BY <1>3, <2>1, RequestStep DEF D!LeaveGuild, D!Goes
  <1>4. ASSUME NEW then, NextSound(then), D!BeginSync(a, then) PROVE AdministrationInv'
    <2>1. StepSound([step |-> "list", then |-> then])
      BY <1>4 DEF StepSound, RouteSound
    <2> QED
      BY <1>4, <2>1, RequestStep DEF D!BeginSync, D!Goes
  <1>5. CASE D!Refresh(a)
    BY <1>n, <1>4, <1>5 DEF D!Refresh
  <1>6. CASE D!UpdateRouting(a)
    <2>1. PICK routes \in Forms, r \in 0 .. db["settings"].revision :
             D!BeginSync(a, [step |-> "route", routes |-> routes, expected |-> r])
      BY <1>6 DEF D!UpdateRouting
    <2>2. NextSound([step |-> "route", routes |-> routes, expected |-> r])
      BY <1>f DEF NextSound, RouteSound
    <2> QED
      BY <1>4, <2>1, <2>2
  <1>7. CASE D!ListTextChannels(a)
    <2>1. PICK then : then = task[a].then
      OBVIOUS
    <2>2. NextSound(then) /\ UNCHANGED <<db, doubt, tripped>>
      BY <1>7, <2>1 DEF D!ListTextChannels, AdministrationInv, TasksSound, StepSound
    <2>3. CASE guild.bot
      <3>1. D!Goes(a, [step |-> "sync", then |-> then, listed |-> guild.access])
        BY <1>7, <2>1, <2>3 DEF D!ListTextChannels
      <3>2. StepSound([step |-> "sync", then |-> then, listed |-> guild.access])
        BY <2>2 DEF StepSound, RouteSound
      <3> QED
        BY <2>2, <3>1, <3>2, RequestStep DEF D!Goes
    <2>4. CASE ~guild.bot
      BY <1>7, <2>2, <2>4, EndStep DEF D!ListTextChannels
    <2> QED
      BY <2>3, <2>4
  <1>8. CASE D!RouteChannels(a)
    <2>1. PICK t : t = task[a]
      OBVIOUS
    <2>2. t.routes \in SUBSET Channels /\ t.expected \in Nat /\ UNCHANGED <<db, doubt, tripped>>
      BY <1>8, <2>1 DEF D!RouteChannels, AdministrationInv, TasksSound, StepSound, RouteSound
    <2> DEFINE next == [step |-> "write", expected |-> t.expected, routes |-> t.routes,
                        scopes |-> db["settings"].scopes,
                        enabled |-> db["settings"].enabled /\ t.routes # {}]
    <2>3. D!Goes(a, next) \/ D!Ends(a)
      BY <1>8, <2>1 DEF D!RouteChannels
    <2>4. StepSound(next)
      BY <1>0, <1>s, <2>2 DEF StepSound, RouteSound
    <2>5. PICK x : x = next
      OBVIOUS
    <2>6. D!Goes(a, x) => AdministrationInv'
      BY <2>2, <2>4, <2>5, RequestStep DEF D!Goes
    <2> QED
      BY <2>2, <2>3, <2>5, <2>6, EndStep
  <1>9. ASSUME NEW e \in BOOLEAN, NEW s \in BOOLEAN, NEW routes \in SUBSET Channels, NEW r \in Nat,
               e => s /\ routes # {}, UNCHANGED <<db, doubt, tripped>>,
               D!Goes(a, [step |-> "write", expected |-> r, routes |-> routes, scopes |-> s, enabled |-> e])
        PROVE  AdministrationInv'
    <2>1. StepSound([step |-> "write", expected |-> r, routes |-> routes, scopes |-> s, enabled |-> e])
      BY <1>9 DEF StepSound, RouteSound
    <2> QED
      BY <1>9, <2>1, RequestStep DEF D!Goes
  <1>10. CASE D!SaveSettings(a)
    <2>1. PICK e \in BOOLEAN, s \in BOOLEAN, routes \in Forms, r \in 0 .. db["settings"].revision :
             /\ e => s /\ routes # {}
             /\ D!Goes(a, [step |-> "write", expected |-> r, routes |-> routes, scopes |-> s, enabled |-> e])
             /\ UNCHANGED <<db, doubt, tripped>>
      BY <1>10 DEF D!SaveSettings
    <2> QED
      BY <1>f, <1>9, <2>1
  <1>11. CASE D!UpdateCadence(a)
    <2>1. PICK r \in Nat :
             /\ D!Goes(a, [step |-> "write", expected |-> r, routes |-> db["settings"].routes,
                           scopes |-> db["settings"].scopes, enabled |-> db["settings"].enabled])
             /\ UNCHANGED <<db, doubt, tripped>>
      BY <1>11, <1>s DEF D!UpdateCadence
    <2> QED
      BY <1>0, <1>s, <1>9, <2>1
  <1>12. CASE \E on \in BOOLEAN : D!ChangeState(a, on)
    <2>1. PICK e \in BOOLEAN :
             /\ e => db["settings"].scopes /\ db["settings"].routes # {}
             /\ D!Goes(a, [step |-> "write", expected |-> db["settings"].revision,
                           routes |-> db["settings"].routes, scopes |-> db["settings"].scopes, enabled |-> e])
             /\ UNCHANGED <<db, doubt, tripped>>
      BY <1>12 DEF D!ChangeState
    <2> QED
      BY <1>s, <1>9, <2>1
  <1>13. CASE D!Die(a)
    BY <1>13, EndStep DEF D!Die
  <1> QED
    BY <1>1, <1>2, <1>3, <1>5, <1>6, <1>7, <1>8, <1>10, <1>11, <1>12, <1>13

LEMMA AdministrationStepKeeps ==
    ASSUME AccountsAssumption, AdministrationInv, D!AdministrationNext
    PROVE  AdministrationInv'
  <1>1. D!AdministrationStep
    BY DEF D!AdministrationNext
  <1>2. ASSUME NEW c \in Channels, D!AccessChanges(c) PROVE AdministrationInv'
    <2>1. UNCHANGED <<db, task, doubt, tripped>>
      BY <1>2 DEF D!AccessChanges
    <2> QED
      BY <2>1 DEF AdministrationInv, AdministrationTypes, TasksSound, D!AdministrationHolds, CommitSound,
         RowsSound, Sound, D!InCommit
  <1> QED
    BY <1>1, <1>2, ConnectKeeps, DisconnectKeeps, SyncKeeps, ToggleKeeps, WriteConfigurationKeeps,
       WriteGrantKeeps, CommitStep, RequestsKeep DEF D!AdministrationStep

\* Only a commit changes rows, and it advances the revisions of what it writes.
LEMMA RowsAreRevised ==
    ASSUME AdministrationInv, D!AdministrationNext
    PROVE  /\ db'["settings"] # db["settings"] =>
                 db'["settings"].revision = db["settings"].revision + 1
           /\ db'["grant"] # db["grant"] => db'["grant"].revision = db["grant"].revision + 1
  <1>1. (\E a \in People : D!Commit(a)) \/ db' = db
    <2> USE DEF D!NothingStored
    <2>1. ASSUME NEW a \in People,
                 \/ D!VerifyAuthorization(a) \/ D!BeginDisconnect(a) \/ D!LeaveGuild(a) \/ D!Refresh(a)
                 \/ D!UpdateRouting(a) \/ D!ListTextChannels(a) \/ D!RouteChannels(a) \/ D!SaveSettings(a)
                 \/ D!UpdateCadence(a) \/ D!Die(a) \/ \E on \in BOOLEAN : D!ChangeState(a, on)
          PROVE  db' = db
      BY <2>1 DEF D!VerifyAuthorization, D!BeginDisconnect, D!LeaveGuild, D!Refresh, D!UpdateRouting,
         D!BeginSync, D!ListTextChannels, D!RouteChannels, D!SaveSettings, D!UpdateCadence, D!Die, D!ChangeState
    <2>2. ASSUME NEW a \in People, NEW written, NEW clean, NEW then, D!Write(a, written, clean, then)
          PROVE  db' = db
      BY <2>2 DEF D!Write
    <2>3. ASSUME NEW a \in People,
                 \/ D!Connect(a) \/ D!Disconnect(a) \/ D!SyncChannels(a) \/ D!WriteConfiguration(a)
                 \/ \E c \in Channels, on \in BOOLEAN : D!ToggleChannel(a, c, on)
                 \/ \E status \in {"ACTIVE", "REVOKED"} : D!WriteGrant(a, status)
          PROVE  db' = db
      <3>1. (\E written, clean, then : D!Write(a, written, clean, then)) \/ db' = db
        <4>1. D!Connect(a) => (\E written, clean, then : D!Write(a, written, clean, then)) \/ db' = db
          BY DEF D!Connect
        <4>2. D!Disconnect(a) => (\E written, clean, then : D!Write(a, written, clean, then)) \/ db' = db
          BY DEF D!Disconnect
        <4>3. D!SyncChannels(a) => (\E written, clean, then : D!Write(a, written, clean, then)) \/ db' = db
          BY DEF D!SyncChannels
        <4>4. D!WriteConfiguration(a) => (\E written, clean, then : D!Write(a, written, clean, then)) \/ db' = db
          BY DEF D!WriteConfiguration
        <4>5. \A c \in Channels, on \in BOOLEAN : D!ToggleChannel(a, c, on) =>
                 \E written, clean, then : D!Write(a, written, clean, then)
          BY DEF D!ToggleChannel
        <4>6. \A status \in {"ACTIVE", "REVOKED"} : D!WriteGrant(a, status) =>
                 \E written, clean, then : D!Write(a, written, clean, then)
          BY DEF D!WriteGrant
        <4> QED
          BY <2>3, <4>1, <4>2, <4>3, <4>4, <4>5, <4>6
      <3> QED
        BY <2>2, <3>1
    <2>4. ASSUME NEW c \in Channels, D!AccessChanges(c) PROVE db' = db
      BY <2>4 DEF D!AccessChanges
    <2> QED
      BY <2>1, <2>3, <2>4 DEF D!AdministrationNext, D!AdministrationStep
  <1>2. ASSUME NEW a \in People, D!Commit(a)
        PROVE  /\ db'["settings"] # db["settings"] =>
                     db'["settings"].revision = db["settings"].revision + 1
               /\ db'["grant"] # db["grant"] => db'["grant"].revision = db["grant"].revision + 1
    <2>1. CommitSound(task[a]) /\ db' = D!With(task[a].rows, db)
      BY <1>2 DEF D!Commit, AdministrationInv, TasksSound
    <2>2. PICK written : written = task[a].rows
      OBVIOUS
    <2>3. RowsSound(written) /\ db' = D!With(written, db)
      BY <2>1, <2>2 DEF CommitSound
    <2> QED
      BY <2>3, WrittenRows DEF RowsSound
  <1> QED
    BY <1>1, <1>2

-----------------------------------------------------------------------------
(* The rows of a lineup *)

LineupRows == [selected : BOOLEAN, eligible : BOOLEAN, order : Nat \cup {Nothing},
               position : S!Positions \cup {Nothing}, pitcher : BOOLEAN]

LineupInv ==
    /\ rows \in Seq(LineupRows)
    /\ S!PitchersPitch

LEMMA LineupBegins == AccountsAssumption /\ S!RowsInit => LineupInv
  <1> SUFFICES ASSUME AccountsAssumption, S!RowsInit PROVE LineupInv
    OBVIOUS
  <1> USE DEF AccountsAssumption, S!SetupAssumption
  <1> DEFINE Good == {row \in LineupRows : row.pitcher => row.position = "PITCHER"}
  <1>1. S!BlankRow \in Good
    BY DEF S!BlankRow, LineupRows
  <1>2. ASSUME NEW eligible \in BOOLEAN, NEW primary \in S!Positions \cup {Nothing},
               NEW slot, slot = Nothing \/ slot = S!Slot(1, "PITCHER", TRUE) \/ slot = S!Slot(2, "CATCHER", FALSE)
        PROVE  S!ManagedRow(eligible, primary, slot) \in Good
    <2> DEFINE row == S!ManagedRow(eligible, primary, slot)
    <2>1. CASE slot = Nothing
      BY <2>1 DEF S!ManagedRow, LineupRows
    <2>2. ASSUME slot # Nothing, NEW o \in Nat, NEW p \in S!Positions, NEW x \in BOOLEAN,
                 slot = S!Slot(o, p, x), x => p = "PITCHER"
          PROVE  row \in Good
      BY <2>2 DEF S!ManagedRow, S!Slot, LineupRows
    <2> QED
      BY <1>2, <2>1, <2>2 DEF S!Positions
  <1> HIDE DEF Good
  <1>3. rows \in Seq(Good)
    <2>1. CASE kind = "EXTERNAL" /\ rows = <<S!BlankRow>>
      BY <1>1, <2>1
    <2>2. ASSUME NEW first \in {Nothing, S!Slot(1, "PITCHER", TRUE), S!Slot(2, "CATCHER", FALSE)},
                 NEW second \in {Nothing, S!Slot(1, "PITCHER", TRUE), S!Slot(2, "CATCHER", FALSE)},
                 NEW eligible \in BOOLEAN,
                 rows = <<S!ManagedRow(TRUE, "CATCHER", Nothing), S!ManagedRow(TRUE, Nothing, first),
                          S!ManagedRow(eligible, "PITCHER", second)>>
          PROVE  rows \in Seq(Good)
      <3>1. /\ S!ManagedRow(TRUE, "CATCHER", Nothing) \in Good /\ S!ManagedRow(TRUE, Nothing, first) \in Good
            /\ S!ManagedRow(eligible, "PITCHER", second) \in Good
        BY <1>2, <2>2 DEF S!Positions
      <3>2. ASSUME NEW a \in Good, NEW b \in Good, NEW c \in Good PROVE <<a, b, c>> \in Seq(Good)
        OBVIOUS
      <3> QED
        BY <2>2, <3>1, <3>2
    <2> QED
      BY <2>1, <2>2 DEF S!RowsInit
  <1> QED
    BY <1>3 DEF Good, LineupInv, S!PitchersPitch

\* Each edit changes one row, moves two, adds one, or takes one away.
LEMMA RowEdited ==
    ASSUME LineupInv, NEW n \in DOMAIN rows,
           NEW row \in LineupRows, row.pitcher => row.position = "PITCHER",
           rows' = [rows EXCEPT ![n] = row]
    PROVE  LineupInv'
  <1>1. \A m \in 1 .. Len(rows) : rows[m] \in LineupRows /\ (rows[m].pitcher => rows[m].position = "PITCHER")
    BY DEF LineupInv, S!PitchersPitch
  <1>2. rows' \in [1 .. Len(rows) -> LineupRows] /\ Len(rows) \in Nat
        /\ \A m \in 1 .. Len(rows) : rows'[m] = IF m = n THEN row ELSE rows[m]
    BY DEF LineupInv
  <1>3. rows' \in Seq(LineupRows) /\ DOMAIN rows' = 1 .. Len(rows)
    <2>1. DOMAIN rows' = 1 .. Len(rows)
      BY <1>2
    <2>2. \A X, s, k : k \in Nat /\ s \in [1 .. k -> X] => s \in Seq(X)
      BY SeqDef
    <2> QED
      BY <1>2, <2>1, <2>2
  <1> QED
    BY <1>1, <1>2, <1>3 DEF LineupInv, S!PitchersPitch

LEMMA LineupKeeps ==
    ASSUME AccountsAssumption, LineupInv, S!EditRows
    PROVE  LineupInv'
  <1> USE DEF AccountsAssumption, S!SetupAssumption
  <1>1. \A m \in DOMAIN rows : rows[m] \in LineupRows /\ (rows[m].pitcher => rows[m].position = "PITCHER")
    BY DEF LineupInv, S!PitchersPitch
  <1>2. CASE S!AddPlayer
    <2>1. S!BlankRow \in LineupRows /\ ~S!BlankRow.pitcher /\ rows' = Append(rows, S!BlankRow)
      BY <1>2 DEF S!AddPlayer, S!BlankRow, LineupRows
    <2> HIDE DEF S!BlankRow
    <2> QED
      BY <1>1, <2>1 DEF LineupInv, S!PitchersPitch
  <1>3. ASSUME NEW n \in DOMAIN rows, S!RemovePlayer(n) PROVE LineupInv'
    <2>1. rows' = SubSeq(rows, 1, n - 1) \o SubSeq(rows, n + 1, Len(rows))
      BY <1>3 DEF S!RemovePlayer
    <2>2. rows \in Seq(LineupRows) /\ n \in 1 .. Len(rows)
      BY DEF LineupInv
    <2>3. rows' \in Seq(LineupRows) /\ \A m \in DOMAIN rows' : \E k \in DOMAIN rows : rows'[m] = rows[k]
      <3> DEFINE s == SubSeq(rows, 1, n - 1)
                 u == SubSeq(rows, n + 1, Len(rows))
      <3>1. /\ s \in Seq(LineupRows) /\ Len(s) = n - 1 /\ \A m \in 1 .. n - 1 : s[m] = rows[m]
            /\ u \in Seq(LineupRows) /\ Len(u) = Len(rows) - n
            /\ \A m \in 1 .. Len(rows) - n : u[m] = rows[n + m]
        BY <2>2
      <3> HIDE DEF s, u
      <3>2. rows' = s \o u
        BY <2>1 DEF s, u
      <3>3. /\ s \o u \in Seq(LineupRows) /\ Len(s \o u) = Len(s) + Len(u)
            /\ \A i \in 1 .. Len(s) + Len(u) :
                  (s \o u)[i] = IF i <= Len(s) THEN s[i] ELSE u[i - Len(s)]
        BY <3>1, ConcatProperties
      <3>4. ASSUME NEW m \in DOMAIN rows' PROVE \E k \in DOMAIN rows : rows'[m] = rows[k]
        <4>1. m \in 1 .. Len(rows) - 1 /\ n \in 1 .. Len(rows) /\ DOMAIN rows = 1 .. Len(rows)
          BY <2>2, <3>1, <3>2, <3>3
        <4>2. CASE m <= n - 1
          BY <3>1, <3>2, <3>3, <4>1, <4>2
        <4>3. CASE m > n - 1
          <5>1. rows'[m] = u[m - (n - 1)] /\ m - (n - 1) \in 1 .. Len(rows) - n
            <6>1. /\ n \in Nat /\ Len(rows) \in Nat /\ m \in Nat /\ n <= Len(rows) /\ m <= Len(rows) - 1
                  /\ m > n - 1
              BY <2>2, <4>1, <4>3
            <6>2. m - (n - 1) \in 1 .. Len(rows) - n /\ m \in 1 .. (n - 1) + (Len(rows) - n) /\ ~(m <= n - 1)
              BY <6>1
            <6>3. (s \o u)[m] = u[m - (n - 1)]
              BY <3>1, <3>3, <6>2
            <6> QED
              BY <3>2, <6>2, <6>3
          <5>2. rows'[m] = rows[n + (m - (n - 1))] /\ n + (m - (n - 1)) \in 1 .. Len(rows)
            <6>1. n \in Nat /\ Len(rows) \in Nat /\ m \in Nat
              BY <2>2, <4>1
            <6>2. n + (m - (n - 1)) \in 1 .. Len(rows)
              BY <4>1, <5>1, <6>1
            <6> QED
              BY <3>1, <5>1, <6>2
          <5> QED
            BY <4>1, <5>2
        <4> QED
          BY <4>1, <4>2, <4>3
      <3> QED
        BY <3>2, <3>3, <3>4
    <2> QED
      BY <1>1, <2>3 DEF LineupInv, S!PitchersPitch
  <1>4. ASSUME NEW n \in DOMAIN rows,
               \/ S!Choose(n) \/ \E order \in S!Orders \cup {Nothing} : S!SetOrder(n, order)
               \/ \E position \in S!Positions \cup {Nothing} : S!SetPosition(n, position)
               \/ \E pitcher \in BOOLEAN : S!SetPitcher(n, pitcher)
        PROVE  LineupInv'
    <2>1. rows[n] \in LineupRows /\ (rows[n].pitcher => rows[n].position = "PITCHER")
      BY <1>1, <1>4
    <2>2. CASE S!Choose(n)
      <3>1. rows' = [rows EXCEPT ![n] = [rows[n] EXCEPT !.selected = ~rows[n].selected]]
        BY <2>2 DEF S!Choose, LineupInv
      <3>2. [rows[n] EXCEPT !.selected = ~rows[n].selected] \in LineupRows
        BY <2>1 DEF LineupRows
      <3> QED
        BY <2>1, <3>1, <3>2, RowEdited DEF LineupRows
    <2>3. ASSUME NEW order \in S!Orders \cup {Nothing}, S!SetOrder(n, order) PROVE LineupInv'
      <3>1. rows' = [rows EXCEPT ![n] = [rows[n] EXCEPT !.order = order]]
        BY <2>3 DEF S!SetOrder, LineupInv
      <3>2. [rows[n] EXCEPT !.order = order] \in LineupRows
        BY <2>1, <2>3 DEF LineupRows, S!Orders
      <3> QED
        BY <2>1, <3>1, <3>2, RowEdited DEF LineupRows
    <2>4. ASSUME NEW position \in S!Positions \cup {Nothing}, S!SetPosition(n, position) PROVE LineupInv'
      <3>1. rows' = [rows EXCEPT ![n] = [rows[n] EXCEPT !.position = position,
                                                         !.pitcher = rows[n].pitcher /\ position = "PITCHER"]]
        BY <2>4 DEF S!SetPosition, LineupInv
      <3>2. [rows[n] EXCEPT !.position = position, !.pitcher = rows[n].pitcher /\ position = "PITCHER"]
               \in LineupRows
        BY <2>1, <2>4 DEF LineupRows
      <3> QED
        BY <2>1, <3>1, <3>2, RowEdited DEF LineupRows
    <2>5. ASSUME NEW pitcher \in BOOLEAN, S!SetPitcher(n, pitcher) PROVE LineupInv'
      <3>1. rows' = [rows EXCEPT ![n] = [rows[n] EXCEPT !.pitcher = pitcher,
                                            !.position = IF pitcher THEN "PITCHER" ELSE rows[n].position]]
        BY <2>5 DEF S!SetPitcher, LineupInv
      <3>2. [rows[n] EXCEPT !.pitcher = pitcher, !.position = IF pitcher THEN "PITCHER" ELSE rows[n].position]
               \in LineupRows
        BY <2>1, <2>5 DEF LineupRows, S!Positions
      <3> QED
        BY <2>1, <3>1, <3>2, RowEdited DEF LineupRows
    <2> QED
      BY <1>4, <2>2, <2>3, <2>4, <2>5
  <1>5. ASSUME NEW n \in DOMAIN rows, NEW to \in S!Orders, S!Move(n, to) PROVE LineupInv'
    <2> DEFINE others == {m \in DOMAIN rows : rows[m].order = to}
               other == CHOOSE m \in others : \A k \in others : m <= k
    <2>1. PICK m : m = other
      OBVIOUS
    <2>2. rows' = [rows EXCEPT ![n].order = to, ![m].order = rows[n].order]
      BY <1>5, <2>1 DEF S!Move, S!Swapped
    <2>3. /\ DOMAIN rows' = DOMAIN rows
          /\ \A k \in DOMAIN rows : /\ rows'[k] \in LineupRows /\ rows'[k].pitcher = rows[k].pitcher
                                     /\ rows'[k].position = rows[k].position
      <3> DEFINE moved == [rows EXCEPT ![n] = [rows[n] EXCEPT !.order = to]]
      <3>0. to \in Nat /\ \A k \in DOMAIN rows : rows[k] \in LineupRows
        BY <1>1 DEF S!Orders
      <3>1. ASSUME NEW row \in LineupRows, NEW o \in Nat \cup {Nothing}
            PROVE  /\ [row EXCEPT !.order = o] \in LineupRows
                   /\ [row EXCEPT !.order = o].pitcher = row.pitcher
                   /\ [row EXCEPT !.order = o].position = row.position
        BY DEF LineupRows
      <3>2. rows[n].order \in Nat \cup {Nothing}
        BY <1>5, <3>0 DEF LineupRows
      <3>3. /\ DOMAIN moved = DOMAIN rows
            /\ \A k \in DOMAIN rows : /\ moved[k] \in LineupRows /\ moved[k].pitcher = rows[k].pitcher
                                       /\ moved[k].position = rows[k].position
        BY <3>0, <3>1
      <3>4. rows' = [moved EXCEPT ![m] = [moved[m] EXCEPT !.order = rows[n].order]]
        BY <2>2
      <3> HIDE DEF moved
      <3> QED
        BY <3>1, <3>2, <3>3, <3>4
    <2>4. rows' \in Seq(LineupRows)
      <3>1. DOMAIN rows = 1 .. Len(rows) /\ Len(rows) \in Nat
        BY DEF LineupInv
      <3>2. rows' = [k \in 1 .. Len(rows) |-> rows'[k]]
        BY <2>2, <3>1
      <3> QED
        BY <2>3, <3>1, <3>2, SeqDef
    <2> QED
      BY <1>1, <2>3, <2>4 DEF LineupInv, S!PitchersPitch
  <1> QED
    BY <1>2, <1>3, <1>4, <1>5 DEF S!EditRows

\* A lineup the form finds ready is one the schema takes and the engine plays.
LEMMA ReadyIsPlayable ==
    ASSUME AccountsAssumption, LineupInv
    PROVE  S!ReadyForAll
  <1> SUFFICES ASSUME S!FormAccepts PROVE S!SchemaAccepts /\ (S!SharedHitters \/ S!EngineAccepts)
    BY DEF S!ReadyForAll
  <1>1. S!SchemaAccepts
    BY DEF S!FormAccepts, S!SchemaAccepts
  <1>2. ASSUME ~S!SharedHitters PROVE S!EngineAccepts
    <2>1. IsFiniteSet(S!Pitching)
      <3>1. Len(rows) \in Int /\ DOMAIN rows = 1 .. Len(rows)
        BY DEF LineupInv
      <3>2. IsFiniteSet(1 .. Len(rows)) /\ S!Pitching \in SUBSET (1 .. Len(rows))
        BY <3>1, FS_Interval DEF S!Pitching, S!Chosen
      <3> QED
        BY <3>2, FS_Subset
    <2>2. Cardinality(S!Pitching) = 1
      <3>1. S!Cardinality(S!Pitching) = Cardinality(S!Pitching)
        BY DEF S!Cardinality, Cardinality, S!IsFiniteSet, IsFiniteSet
      <3> QED
        BY <3>1 DEF S!FormAccepts
    <2>3. PICK n : S!Pitching = {n}
      BY <2>1, <2>2, FS_Singleton
    <2>4. "PITCHER" # Nothing
      BY DEF AccountsAssumption, S!SetupAssumption, S!Positions
    <2>5. n \in S!Chosen /\ rows[n].position = "PITCHER"
      BY <2>3 DEF S!FormAccepts, S!Pitching
    <2>6. ASSUME NEW k \in S!Chosen, NEW m \in S!Chosen, rows[k].position # Nothing,
                 rows[m].position = rows[k].position
          PROVE  m = k
      <3>1. CASE S!Unshared(rows[m].position)
        BY <2>6, <3>1 DEF S!FormAccepts, S!UniquePositions
      <3>2. CASE ~S!Unshared(rows[m].position)
        BY <1>2, <2>6, <3>2 DEF S!SharedHitters, S!Unshared
      <3> QED
        BY <3>1, <3>2
    <2> QED
      BY <2>3, <2>4, <2>5, <2>6 DEF S!EngineAccepts, S!FormAccepts
  <1> QED
    BY <1>1, <1>2

\* A move exchanges the places of two players who bat, and of nobody else.
LEMMA MoveKeepsOrder ==
    ASSUME AccountsAssumption, LineupInv, NEW n \in DOMAIN rows, NEW to \in S!Orders, S!Move(n, to),
           S!UniqueOrders, S!Contiguous, \A m \in DOMAIN rows \ S!Chosen : rows[m].order = Nothing
    PROVE  S!UniqueOrders' /\ S!Contiguous'
  <1> USE DEF AccountsAssumption, S!SetupAssumption
  <1> DEFINE others == {m \in DOMAIN rows : rows[m].order = to}
             least == CHOOSE m \in others : \A k \in others : m <= k
  <1>1. to \in Nat /\ to # Nothing /\ rows[n].order # Nothing /\ to # rows[n].order
        /\ \A k \in DOMAIN rows : rows[k] \in LineupRows
    <2>1. to \in Nat /\ to # Nothing
      BY DEF S!Orders
    <2>2. rows[n].order # Nothing /\ to \in {rows[n].order - 1, rows[n].order + 1}
      BY DEF S!Move, S!MayMove
    <2>3. \A k \in DOMAIN rows : rows[k] \in LineupRows
      BY DEF LineupInv
    <2>4. rows[n].order \in Nat
      BY <2>2, <2>3 DEF LineupRows
    <2> QED
      BY <2>1, <2>2, <2>3, <2>4
  <1>2. PICK other \in DOMAIN rows : rows[other].order = to
    BY DEF S!Move, S!MayMove, S!Listed
  <1>3. n \in S!Batting /\ other \in S!Batting /\ n # other
    BY <1>1, <1>2 DEF S!Batting
  <1>4. others = {other}
    <2>1. \A k \in others : k \in S!Batting
      BY <1>1 DEF S!Batting
    <2> QED
      BY <1>2, <1>3, <2>1 DEF S!UniqueOrders
  <1>5. least = other
    <2>1. other <= other
      BY DEF LineupInv
    <2>2. \E m \in others : \A k \in others : m <= k
      BY <1>4, <2>1
    <2>3. least \in others
      BY <2>2
    <2> QED
      BY <1>4, <2>3
  <1> HIDE DEF least
  <1>6. rows' = [rows EXCEPT ![n].order = to, ![other].order = rows[n].order]
    BY <1>5 DEF S!Move, S!Swapped, least
  <1>7. /\ DOMAIN rows' = DOMAIN rows
        /\ \A k \in DOMAIN rows :
              /\ rows'[k].selected = rows[k].selected
              /\ rows'[k].order = IF k = n THEN to ELSE IF k = other THEN rows[n].order ELSE rows[k].order
    <2>1. ASSUME NEW row \in LineupRows, NEW o \in Nat
          PROVE  [row EXCEPT !.order = o].selected = row.selected /\ [row EXCEPT !.order = o].order = o
      BY DEF LineupRows
    <2>2. rows[n].order \in Nat
      BY <1>1 DEF LineupRows
    <2>3. DOMAIN rows' = DOMAIN rows
          /\ \A k \in DOMAIN rows :
                rows'[k] = IF k = n THEN [rows[k] EXCEPT !.order = to]
                           ELSE IF k = other THEN [rows[k] EXCEPT !.order = rows[n].order] ELSE rows[k]
      BY <1>3, <1>6
    <2>4. ASSUME NEW k \in DOMAIN rows
          PROVE  /\ rows'[k].selected = rows[k].selected
                 /\ rows'[k].order = IF k = n THEN to ELSE IF k = other THEN rows[n].order ELSE rows[k].order
      <3>1. rows[k] \in LineupRows
        BY <1>1
      <3>0. PICK row \in LineupRows : row = rows[k]
        BY <3>1
      <3>2. CASE k = n
        <4>1. rows'[k] = [row EXCEPT !.order = to]
          BY <2>3, <3>0, <3>2
        <4>2. rows'[k].selected = row.selected /\ rows'[k].order = to
          BY <1>1, <2>1, <4>1
        <4> QED
          BY <3>0, <3>2, <4>2
      <3>3. CASE k # n /\ k = other
        <4>o. PICK o \in Nat : o = rows[n].order
          BY <2>2
        <4>1. rows'[k] = [row EXCEPT !.order = o]
          BY <2>3, <3>0, <3>3, <4>o
        <4>2. rows'[k].selected = row.selected /\ rows'[k].order = o
          BY <2>1, <4>1
        <4> QED
          BY <3>0, <3>3, <4>o, <4>2
      <3>4. CASE k # n /\ k # other
        BY <2>3, <3>4
      <3> QED
        BY <3>2, <3>3, <3>4
    <2> QED
      BY <2>3, <2>4
  <1>8. S!Chosen' = S!Chosen /\ S!Batting' = S!Batting
    <2>1. S!Chosen' = S!Chosen
      BY <1>7 DEF S!Chosen
    <2> QED
      BY <1>1, <1>3, <1>7, <2>1 DEF S!Batting, S!Chosen
  <1>9. S!UniqueOrders'
    <2>1. \A k \in S!Batting : k \in DOMAIN rows
      BY DEF S!Batting, S!Chosen
    <2> QED
      BY <1>2, <1>3, <1>7, <1>8, <2>1 DEF S!UniqueOrders
  <1>10. {rows'[k].order : k \in S!Batting} = {rows[k].order : k \in S!Batting}
    <2>1. \A k \in S!Batting : k \in DOMAIN rows
      BY DEF S!Batting, S!Chosen
    <2> QED
      BY <1>2, <1>3, <1>7, <2>1
  <1> QED
    BY <1>8, <1>9, <1>10 DEF S!Contiguous

-----------------------------------------------------------------------------
(* The exchange between forms and the set-up of a game *)

Contents == Drafts \cup {Nothing}
SetupStatuses == {"DRAFT", "READY", "IN_PROGRESS"}
StoredRevisions == [id : Nat, content : Contents, expected : Nat, told : Contents]
SetupStates == [status : SetupStatuses, ready : Nat, revisions : Seq(StoredRevisions)]
Answers == [kind : {"IDLE", "ERROR", "SUCCESS"}, accepted : Nat, next : Nat, revision : Nat,
            status : SetupStatuses]
SetupForms == [draft : Contents, expected : Nat, id : Nat, edited : BOOLEAN, status : SetupStatuses,
               result : Answers, pending : Nat, told : Contents, late : BOOLEAN]
Submissions == [number : Nat, tab : People, intent : {"SAVE", "READY", "START"}, content : Contents,
                expected : Nat, id : Nat, reuse : BOOLEAN, told : Contents, late : BOOLEAN,
                step : {"arrived", "saved", "loaded", "answered"}, revision : Nat, answer : Answers]

Newest == Len(setup.revisions)
Content(n) == IF n = 0 THEN Nothing ELSE setup.revisions[n].content

SetupTypes ==
    /\ setup \in SetupStates /\ form \in [People -> SetupForms] /\ submission \subseteq Submissions
    /\ issued \in Nat /\ tries \in [edits : Nat, requests : Nat, reloads : Nat]

\* Every revision was made of the one before it, and what is ready is the newest.
RevisionsSound ==
    /\ \A n \in 1 .. Newest :
          /\ setup.revisions[n].expected = n - 1 /\ setup.revisions[n].told = Content(n - 1)
    /\ setup.status # "DRAFT" =>
          setup.ready = Newest /\ Newest > 0 /\ setup.revisions[Newest].content \in Accepted

\* What a form has been told of is stored and is not older than what it expects; when it
\* has been answered, its draft is what it was answered about.
FormSound(f) ==
    /\ f.id <= issued /\ f.expected <= Newest
    /\ f.result.kind = "SUCCESS" => f.result.accepted # f.result.next /\ f.result.next <= issued
    /\ \E j \in S!CurrentDraft(f).expected .. Newest : f.told = Content(j)
    /\ S!ActionIsCurrent(f) =>
          /\ f.expected <= f.result.revision /\ f.result.revision \in 1 .. Newest
          /\ ~f.late => f.draft = Content(f.result.revision)
    /\ ~f.edited /\ f.expected > 0 => f.draft = Content(f.expected)

\* A request that has passed its check knows a revision with what it carries.
Checked(r) == r.step \in {"saved", "loaded"} \/ (r.step = "answered" /\ r.answer.kind = "SUCCESS")
SubmissionSound(r) ==
    /\ r.number \in 1 .. tries.requests /\ r.id <= issued /\ r.expected <= Newest
    /\ \E j \in r.expected .. Newest : r.told = Content(j)
    /\ (r.reuse \/ r.intent = "START") /\ ~r.late /\ r.expected > 0 => r.content = Content(r.expected)
    /\ Checked(r) => /\ r.revision \in 1 .. Newest /\ r.expected <= r.revision
                     /\ ~r.late => r.content = Content(r.revision)
    /\ r.step = "answered" /\ r.answer.kind = "SUCCESS" =>
          /\ r.answer.accepted = r.id /\ r.answer.revision = r.revision
          /\ r.answer.next # r.id /\ r.answer.next <= issued

\* A form that waits still expects what it submitted, edited or not.
Awaits(f, r) ==
    LET current == S!CurrentDraft(f)
    IN  f.pending = r.number =>
           /\ r.expected = current.expected /\ r.id = current.id
           /\ ~f.late => ~r.late /\ r.content = f.draft

SetupInv ==
    /\ SetupTypes /\ RevisionsSound
    /\ \A t \in People : FormSound(form[t])
    /\ \A r \in submission : SubmissionSound(r) /\ Awaits(form[r.tab], r)

LEMMA SetupSound == ASSUME SetupInv PROVE S!SetupHolds
  <1>1. S!NothingOverwritten
    <2>1. ASSUME NEW n \in DOMAIN setup.revisions
          PROVE  setup.revisions[n].told = IF n = 1 THEN Nothing ELSE setup.revisions[n - 1].content
      <3>1. n \in 1 .. Newest /\ Newest \in Nat
        BY DEF SetupInv, SetupTypes, SetupStates, Newest
      <3> QED
        BY <3>1 DEF SetupInv, RevisionsSound, Content
    <2> QED
      BY <2>1 DEF S!NothingOverwritten
  <1>2. S!CleanFormIsStored
    <2> SUFFICES ASSUME NEW t \in People, ~S!Dirty(form[t]), ~form[t].late,
                        S!CurrentDraft(form[t]).expected > 0
                 PROVE  setup.revisions[S!CurrentDraft(form[t]).expected].content
                           = S!CurrentDraft(form[t]).draft
      BY DEF S!CleanFormIsStored
    <2>1. PICK f : f = form[t]
      OBVIOUS
    <2>2. FormSound(f) /\ f \in SetupForms
      BY <2>1 DEF SetupInv, SetupTypes
    <2>3. CASE S!ActionIsCurrent(f)
      BY <2>1, <2>2, <2>3 DEF FormSound, S!CurrentDraft, Content, Newest
    <2>4. CASE ~S!ActionIsCurrent(f)
      BY <2>1, <2>2, <2>4 DEF FormSound, S!CurrentDraft, S!Dirty, Content, SetupForms
    <2> QED
      BY <2>3, <2>4
  <1>3. S!BeginsAsShown
    <2>1. ASSUME NEW r \in submission, r.step = "loaded", ~r.late, setup.status = "READY",
                 setup.ready = r.revision
          PROVE  setup.revisions[r.revision].content = r.content
      BY <2>1 DEF SetupInv, SubmissionSound, Checked, Content
    <2>2. setup.status # "DRAFT" => setup.revisions[setup.ready].content \in Accepted
      BY DEF SetupInv, RevisionsSound
    <2> QED
      BY <2>1, <2>2 DEF S!BeginsAsShown
  <1> QED
    BY <1>1, <1>2, <1>3 DEF S!SetupHolds

LEMMA ExchangeBegins == AccountsAssumption /\ S!ExchangeInit => SetupInv
  <1> SUFFICES ASSUME AccountsAssumption, S!ExchangeInit PROVE SetupInv
    OBVIOUS
  <1>1. S!Cardinality(People) \in Nat
    <2>1. S!Cardinality(People) = Cardinality(People)
      BY DEF S!Cardinality, Cardinality, S!IsFiniteSet, IsFiniteSet
    <2>2. IsFiniteSet(People)
      BY DEF AccountsAssumption, S!SetupAssumption, S!IsFiniteSet, IsFiniteSet
    <2> QED
      BY <2>1, <2>2, FS_CardinalityType
  <1>2. /\ setup = [status |-> "DRAFT", ready |-> 0, revisions |-> <<>>]
        /\ issued = S!Cardinality(People) /\ submission = {}
        /\ tries = [edits |-> 0, requests |-> 0, reloads |-> 0]
    BY DEF S!ExchangeInit
  <1>3. PICK ids \in [People -> 1 .. S!Cardinality(People)] :
           form = [t \in People |->
                [draft |-> Nothing, expected |-> 0, id |-> ids[t], edited |-> FALSE,
                 status |-> "DRAFT", result |-> S!NoResult, pending |-> 0,
                 told |-> Nothing, late |-> FALSE]]
    BY DEF S!ExchangeInit
  <1>4. S!NoResult \in Answers /\ S!NoResult.kind = "IDLE"
    BY DEF S!NoResult, Answers, SetupStatuses
  <1>5. Newest = 0 /\ setup.revisions = <<>> /\ setup.status = "DRAFT"
    BY <1>2 DEF Newest
  <1>6. SetupTypes
    BY <1>1, <1>2, <1>3, <1>4 DEF SetupTypes, SetupStates, SetupForms, SetupStatuses, Contents
  <1>7. ASSUME NEW t \in People PROVE FormSound(form[t])
    <2>1. PICK f \in SetupForms : f = form[t]
      BY <1>6 DEF SetupTypes
    <2>2. /\ f.expected = 0 /\ f.id = ids[t] /\ f.result = S!NoResult /\ f.told = Nothing /\ f.edited = FALSE
      BY <1>3, <2>1
    <2>3. ~S!ActionIsCurrent(f) /\ S!CurrentDraft(f).expected = 0
      BY <1>4, <2>2 DEF S!ActionIsCurrent, S!CurrentDraft
    <2>4. Content(0) = Nothing
      BY DEF Content
    <2> QED
      BY <1>1, <1>2, <1>4, <1>5, <2>1, <2>2, <2>3, <2>4 DEF FormSound
  <1>8. RevisionsSound
    BY <1>5 DEF RevisionsSound
  <1> QED
    BY <1>2, <1>6, <1>7, <1>8 DEF SetupInv

\* Revisions are only added, and ids and numbers only handed out.
Extends ==
    /\ Newest <= Newest' /\ \A n \in 1 .. Newest : Content(n)' = Content(n)
    /\ issued <= issued' /\ tries.requests <= tries'.requests

LEMMA StaysSound ==
    ASSUME SetupTypes, SetupTypes', Extends
    PROVE  /\ \A f \in SetupForms : FormSound(f) => FormSound(f)'
           /\ \A r \in Submissions : SubmissionSound(r) => SubmissionSound(r)'
  <1>1. /\ Newest \in Nat /\ Newest' \in Nat /\ issued \in Nat /\ issued' \in Nat
        /\ tries.requests \in Nat /\ tries'.requests \in Nat
    BY DEF SetupTypes, Newest, SetupStates
  <1>2. \A n \in 0 .. Newest : Content(n)' = Content(n)
    <2>1. Content(0)' = Content(0)
      BY DEF Content
    <2> QED
      BY <1>1, <2>1 DEF Extends
  <1>3. ASSUME NEW f \in SetupForms, FormSound(f) PROVE FormSound(f)'
    <2>1. /\ f.id \in Nat /\ f.expected \in Nat /\ f.result.next \in Nat /\ f.result.revision \in Nat
      BY DEF SetupForms, Answers
    <2>2. S!CurrentDraft(f).expected \in Nat
      BY <2>1 DEF S!CurrentDraft
    <2> QED
      BY <1>1, <1>2, <1>3, <2>1, <2>2 DEF FormSound, Extends
  <1>4. ASSUME NEW r \in Submissions, SubmissionSound(r) PROVE SubmissionSound(r)'
    <2>1. /\ r.id \in Nat /\ r.expected \in Nat /\ r.answer.next \in Nat /\ r.revision \in Nat /\ r.number \in Nat
      BY DEF Submissions, Answers
    <2> QED
      BY <1>1, <1>2, <1>4, <2>1 DEF SubmissionSound, Extends
  <1> QED
    BY <1>3, <1>4

\* A step of the server: one request goes on, for the same form and the same content.
LEMMA RequestProceeds ==
    ASSUME SetupInv, NEW r \in submission, NEW next \in Submissions,
           submission' = (submission \ {r}) \cup {next},
           next.number = r.number, next.tab = r.tab, next.content = r.content, next.id = r.id,
           next.expected = r.expected, next.late = r.late,
           UNCHANGED form, SetupTypes', RevisionsSound', Extends, SubmissionSound(next)'
    PROVE  SetupInv'
  <1>1. \A t \in People : FormSound(form[t])'
    <2>1. \A t \in People : form[t] \in SetupForms /\ FormSound(form[t])
      BY DEF SetupInv, SetupTypes
    <2>2. \A f \in SetupForms : FormSound(f) => FormSound(f)'
      BY StaysSound DEF SetupInv
    <2>3. ASSUME NEW t \in People PROVE FormSound(form[t])'
      <3>1. PICK f \in SetupForms : f = form[t]
        BY <2>1
      <3>2. FormSound(f)' /\ form'[t] = f
        BY <2>1, <2>2, <3>1
      <3> QED
        BY <3>2 DEF FormSound
    <2> QED
      BY <2>3
  <1>2. ASSUME NEW q \in submission' PROVE SubmissionSound(q)' /\ Awaits(form[q.tab], q)'
    <2>1. CASE q = next
      <3>1. Awaits(form[r.tab], r)
        BY DEF SetupInv
      <3> QED
        BY <2>1, <3>1 DEF Awaits
    <2>2. CASE q \in submission
      <3>1. SubmissionSound(q) /\ q \in Submissions /\ Awaits(form[q.tab], q)
        BY <2>2 DEF SetupInv, SetupTypes
      <3>2. SubmissionSound(q)'
        BY <3>1, StaysSound DEF SetupInv
      <3> QED
        BY <3>1, <3>2 DEF Awaits
    <2> QED
      BY <1>2, <2>1, <2>2
  <1> QED
    BY <1>1, <1>2 DEF SetupInv

LEMMA AnsweredRequest ==
    ASSUME NEW r \in Submissions, NEW answer \in Answers
    PROVE  LET next == S!Answered(r, answer)
           IN  /\ next \in Submissions /\ next.step = "answered" /\ next.answer = answer
               /\ next.number = r.number /\ next.tab = r.tab /\ next.content = r.content /\ next.id = r.id
               /\ next.expected = r.expected /\ next.late = r.late /\ next.told = r.told
               /\ next.reuse = r.reuse /\ next.intent = r.intent /\ next.revision = r.revision
  BY DEF S!Answered, Submissions

\* A request that succeeds with a revision it carries.
LEMMA RequestSucceeds ==
    ASSUME SetupInv, NEW r \in submission, NEW q \in Submissions, NEW n \in Nat, NEW status \in SetupStatuses,
           q.revision = n, q.number = r.number, q.tab = r.tab, q.content = r.content, q.id = r.id,
           q.expected = r.expected, q.late = r.late, q.told = r.told, q.reuse = r.reuse, q.intent = r.intent,
           submission' = (submission \ {r}) \cup {S!Answered(q, S!Success(r, n, status))},
           issued' = issued + 1,
           UNCHANGED <<form, tries>>, SetupTypes', RevisionsSound', Extends,
           n \in 1 .. Newest', r.expected <= n, ~r.late => r.content = Content(n)'
    PROVE  SetupInv'
  <1>a. PICK answer : answer = S!Success(r, n, status)
    OBVIOUS
  <1>n. PICK next : next = S!Answered(q, answer)
    OBVIOUS
  <1>1. r \in Submissions /\ SubmissionSound(r) /\ issued \in Nat
    BY DEF SetupInv, SetupTypes
  <1>2. /\ answer \in Answers /\ answer.kind = "SUCCESS" /\ answer.accepted = r.id
        /\ answer.next = issued + 1 /\ answer.revision = n
    BY <1>a, <1>1 DEF S!Success, Answers, Submissions
  <1>3. /\ next \in Submissions /\ next.step = "answered" /\ next.answer = answer
        /\ next.number = r.number /\ next.tab = r.tab /\ next.content = r.content /\ next.id = r.id
        /\ next.expected = r.expected /\ next.late = r.late /\ next.told = r.told
        /\ next.reuse = r.reuse /\ next.intent = r.intent /\ next.revision = n
    BY <1>n, <1>2, AnsweredRequest
  <1>4. SubmissionSound(r)'
    BY <1>1, StaysSound DEF SetupInv
  <1>5. r.id \in Nat /\ r.id <= issued
    BY <1>1 DEF SubmissionSound, Submissions
  <1>6. SubmissionSound(next)'
    <2>1. /\ next.number \in 1 .. tries'.requests /\ next.id <= issued' /\ next.expected <= Newest'
          /\ \E j \in next.expected .. Newest' : next.told = Content(j)'
      BY <1>3, <1>4 DEF SubmissionSound
    <2>2. (next.reuse \/ next.intent = "START") /\ ~next.late /\ next.expected > 0 =>
             next.content = Content(next.expected)'
      BY <1>3, <1>4 DEF SubmissionSound
    <2>3. /\ next.revision \in 1 .. Newest' /\ next.expected <= next.revision
          /\ ~next.late => next.content = Content(next.revision)'
      BY <1>3
    <2>4. /\ next.answer.accepted = next.id /\ next.answer.revision = next.revision
          /\ next.answer.next # next.id /\ next.answer.next <= issued'
      BY <1>1, <1>2, <1>3, <1>5
    <2> QED
      BY <2>1, <2>2, <2>3, <2>4 DEF SubmissionSound
  <1>7. submission' = (submission \ {r}) \cup {next}
    BY <1>a, <1>n
  <1> QED
    BY <1>3, <1>6, <1>7, RequestProceeds

\* A request that passes a check with a revision it carries.
LEMMA RequestAdvances ==
    ASSUME SetupInv, NEW r \in submission, NEW step \in {"saved", "loaded"}, NEW n \in Nat,
           submission' = (submission \ {r}) \cup {[r EXCEPT !.step = step, !.revision = n]},
           UNCHANGED <<form, tries, issued>>, SetupTypes', RevisionsSound', Extends,
           n \in 1 .. Newest', r.expected <= n, ~r.late => r.content = Content(n)'
    PROVE  SetupInv'
  <1>n. PICK next : next = [r EXCEPT !.step = step, !.revision = n]
    OBVIOUS
  <1>1. r \in Submissions /\ SubmissionSound(r)
    BY DEF SetupInv, SetupTypes
  <1>2. /\ next \in Submissions /\ next.step = step /\ next.revision = n
        /\ next.number = r.number /\ next.tab = r.tab /\ next.content = r.content /\ next.id = r.id
        /\ next.expected = r.expected /\ next.late = r.late /\ next.told = r.told
        /\ next.reuse = r.reuse /\ next.intent = r.intent
    BY <1>n, <1>1 DEF Submissions
  <1>3. submission' = (submission \ {r}) \cup {next}
    BY <1>n
  <1>4. SubmissionSound(r)'
    BY <1>1, StaysSound DEF SetupInv
  <1>5. SubmissionSound(next)'
    BY <1>2, <1>4 DEF SubmissionSound, Checked
  <1> QED
    BY <1>2, <1>3, <1>5, RequestProceeds

\* What all of a request's facts are, in one place.
LEMMA RequestFacts ==
    ASSUME SetupInv, NEW r \in submission
    PROVE  /\ r \in Submissions /\ SubmissionSound(r) /\ r.revision \in Nat /\ r.expected \in Nat /\ r.id \in Nat
           /\ setup \in SetupStates /\ Newest \in Nat /\ setup.revisions \in Seq(StoredRevisions)
           /\ issued \in Nat /\ tries.requests \in Nat
           /\ setup.ready \in Nat /\ setup.status \in SetupStatuses
  BY DEF SetupInv, SetupTypes, Submissions, SetupStates, Newest

\* The set-up stays, and so does everything that is known of it.
LEMMA SetupStays ==
    ASSUME SetupInv, NEW r \in submission, NEW next \in Submissions,
           submission' = (submission \ {r}) \cup {next},
           UNCHANGED <<setup, form, tries>>, issued' = issued \/ issued' = issued + 1
    PROVE  SetupTypes' /\ RevisionsSound' /\ Extends
  <1>1. Newest' = Newest /\ \A n : Content(n)' = Content(n)
    BY DEF Newest, Content
  <1>2. Newest \in Nat /\ issued \in Nat /\ tries.requests \in Nat
    BY RequestFacts
  <1>3. SetupTypes'
    BY <1>2 DEF SetupInv, SetupTypes
  <1>4. RevisionsSound'
    BY <1>1 DEF SetupInv, RevisionsSound
  <1>5. Extends
    BY <1>1, <1>2 DEF Extends
  <1> QED
    BY <1>3, <1>4, <1>5

LEMMA FailKeeps ==
    ASSUME SetupInv, NEW r \in submission, S!Fails(r)
    PROVE  SetupInv'
  <1>n. PICK next : next = S!Answered(r, S!Error)
    OBVIOUS
  <1>1. S!Error \in Answers /\ S!Error.kind = "ERROR"
    BY DEF S!Error, S!NoResult, Answers, SetupStatuses
  <1>2. r \in Submissions /\ SubmissionSound(r)
    BY RequestFacts
  <1>3. /\ next \in Submissions /\ next.step = "answered" /\ next.answer = S!Error
        /\ next.number = r.number /\ next.tab = r.tab /\ next.content = r.content /\ next.id = r.id
        /\ next.expected = r.expected /\ next.late = r.late /\ next.told = r.told
        /\ next.reuse = r.reuse /\ next.intent = r.intent /\ next.revision = r.revision
    BY <1>n, <1>1, <1>2, AnsweredRequest
  <1>4. submission' = (submission \ {r}) \cup {next} /\ UNCHANGED <<setup, form, tries, issued>>
    BY <1>n DEF S!Fails, S!Proceeds
  <1>5. SetupTypes' /\ RevisionsSound' /\ Extends
    BY <1>3, <1>4, SetupStays
  <1>6. SubmissionSound(r)'
    BY <1>2, <1>5, StaysSound DEF SetupInv
  <1>7. SubmissionSound(next)'
    BY <1>1, <1>3, <1>6 DEF SubmissionSound, Checked
  <1> QED
    BY <1>3, <1>4, <1>5, <1>7, RequestProceeds

\* What the server has checked of a request that it will answer.
LEMMA LoadKeeps ==
    ASSUME SetupInv, NEW r \in submission, S!LoadStored(r) \/ S!LoadReady(r)
    PROVE  SetupInv'
  <1>0. r \in Submissions /\ SubmissionSound(r) /\ Newest \in Nat /\ r.expected \in Nat
    BY RequestFacts
  <1>1. CASE S!LoadStored(r)
    <2>1. /\ submission' = (submission \ {r}) \cup {[r EXCEPT !.step = "saved", !.revision = Newest]}
          /\ UNCHANGED <<setup, form, issued, tries>>
          /\ r.reuse /\ r.expected > 0 /\ r.expected = Newest
      BY <1>1, <1>0 DEF S!LoadStored, S!Proceeds, S!Saves, S!Expects, Newest, Submissions
    <2>n. PICK n : n = Newest
      OBVIOUS
    <2>2. [r EXCEPT !.step = "saved", !.revision = n] \in Submissions
      BY <1>0, <2>n DEF Submissions
    <2>3. SetupTypes' /\ RevisionsSound' /\ Extends
      BY <2>1, <2>2, <2>n, SetupStays
    <2>4. n \in 1 .. Newest' /\ r.expected <= n /\ (~r.late => r.content = Content(n)')
      BY <1>0, <2>1, <2>n DEF SubmissionSound, Newest, Content
    <2>5. submission' = (submission \ {r}) \cup {[r EXCEPT !.step = "saved", !.revision = n]}
      BY <2>1, <2>n
    <2> QED
      BY <1>0, <2>1, <2>n, <2>3, <2>4, <2>5, RequestAdvances
  <1>2. CASE S!LoadReady(r)
    <2>1. /\ submission' = (submission \ {r}) \cup {[r EXCEPT !.step = "loaded", !.revision = setup.ready]}
          /\ UNCHANGED <<setup, form, issued, tries>>
          /\ r.intent = "START" /\ r.expected = Newest /\ setup.ready = Newest /\ Newest > 0
      BY <1>2 DEF S!LoadReady, S!Proceeds, S!Expects, Newest, SetupInv, RevisionsSound
    <2>n. PICK n : n = Newest
      OBVIOUS
    <2>2. [r EXCEPT !.step = "loaded", !.revision = n] \in Submissions
      BY <1>0, <2>n DEF Submissions
    <2>3. SetupTypes' /\ RevisionsSound' /\ Extends
      BY <2>1, <2>2, <2>n, SetupStays
    <2>4. n \in 1 .. Newest' /\ r.expected <= n /\ (~r.late => r.content = Content(n)')
      BY <1>0, <2>1, <2>n DEF SubmissionSound, Newest, Content
    <2>5. submission' = (submission \ {r}) \cup {[r EXCEPT !.step = "loaded", !.revision = n]}
      BY <2>1, <2>n
    <2> QED
      BY <1>0, <2>1, <2>n, <2>3, <2>4, <2>5, RequestAdvances
  <1> QED
    BY <1>1, <1>2

\* The status of the game moves, and the revisions stay.
LEMMA StatusKeeps ==
    ASSUME SetupInv, NEW r \in submission, S!MarkReady(r) \/ S!StartGame(r)
    PROVE  SetupInv'
  <1>0. /\ r \in Submissions /\ SubmissionSound(r) /\ Newest \in Nat /\ r.expected \in Nat /\ r.revision \in Nat
        /\ setup \in SetupStates /\ issued \in Nat /\ tries.requests \in Nat
    BY RequestFacts
  <1>1. Checked(r)
    BY DEF S!MarkReady, S!StartGame, Checked
  <1>2. /\ r.revision \in 1 .. Newest /\ r.expected <= r.revision
        /\ ~r.late => r.content = Content(r.revision)
    BY <1>0, <1>1 DEF SubmissionSound
  <1>3. PICK status \in SetupStatuses :
           /\ submission' = (submission \ {r}) \cup {S!Answered(r, S!Success(r, r.revision, status))}
           /\ issued' = issued + 1 /\ UNCHANGED <<form, tries>>
    BY DEF S!MarkReady, S!StartGame, S!Proceeds, SetupStatuses
  <1>4. /\ setup' \in SetupStates /\ setup'.revisions = setup.revisions
        /\ setup'.status # "DRAFT" =>
              setup'.ready = Newest /\ Newest > 0 /\ setup.revisions[Newest].content \in Accepted
    <2>1. CASE UNCHANGED setup
      BY <1>0, <2>1 DEF SetupInv, RevisionsSound
    <2>2. CASE /\ r.revision = Len(setup.revisions) /\ setup.revisions[r.revision].content \in Accepted
               /\ setup' = [setup EXCEPT !.status = "READY", !.ready = r.revision]
      <3>1. setup' \in SetupStates /\ setup'.revisions = setup.revisions /\ setup'.ready = r.revision
        BY <1>0, <2>2 DEF SetupStates, SetupStatuses
      <3> QED
        BY <1>2, <2>2, <3>1 DEF Newest
    <2>3. CASE setup.status = "READY" /\ setup' = [setup EXCEPT !.status = "IN_PROGRESS"]
      <3>1. /\ setup' \in SetupStates /\ setup'.revisions = setup.revisions
            /\ setup'.ready = setup.ready /\ setup.status # "DRAFT"
        BY <1>0, <2>3 DEF SetupStates, SetupStatuses
      <3> QED
        BY <3>1 DEF SetupInv, RevisionsSound
    <2> QED
      BY <2>1, <2>2, <2>3 DEF S!MarkReady, S!StartGame
  <1>5. Newest' = Newest /\ \A n : Content(n)' = Content(n)
    BY <1>4 DEF Newest, Content
  <1>6. S!Answered(r, S!Success(r, r.revision, status)) \in Submissions
    <2>1. S!Success(r, r.revision, status) \in Answers
      BY <1>0 DEF S!Success, Answers, Submissions
    <2> QED
      BY <1>0, <2>1, AnsweredRequest
  <1>7. SetupTypes'
    BY <1>0, <1>3, <1>4, <1>6 DEF SetupInv, SetupTypes
  <1>8. RevisionsSound'
    BY <1>4, <1>5 DEF SetupInv, RevisionsSound
  <1>9. Extends
    BY <1>0, <1>3, <1>5 DEF Extends
  <1> QED
    BY <1>0, <1>2, <1>3, <1>5, <1>7, <1>8, <1>9, RequestSucceeds

LEMMA SaveKeeps ==
    ASSUME SetupInv, NEW r \in submission, S!SaveRevision(r)
    PROVE  SetupInv'
  <1>0. /\ r \in Submissions /\ SubmissionSound(r) /\ Newest \in Nat /\ r.expected \in Nat /\ r.id \in Nat
        /\ setup \in SetupStates /\ issued \in Nat /\ tries.requests \in Nat
        /\ setup.revisions \in Seq(StoredRevisions)
    BY RequestFacts
  <1>1. PICK n :
           /\ S!AfterSave(r, n)
           /\ \/ n \in S!Earlier(r) /\ S!Replays(r, n) /\ UNCHANGED setup
              \/ /\ r.expected = Newest /\ n = Newest + 1
                 /\ setup' = [status |-> "DRAFT", ready |-> 0,
                              revisions |-> Append(setup.revisions, S!Stored(r))]
    BY DEF S!SaveRevision, S!Expects, Newest
  <1>2. UNCHANGED <<form, tries>>
    BY DEF S!SaveRevision
  <1>3. /\ setup' \in SetupStates /\ RevisionsSound' /\ Newest' \in Nat /\ Newest <= Newest'
        /\ \A m \in 1 .. Newest : Content(m)' = Content(m)
        /\ n \in 1 .. Newest' /\ r.expected <= n /\ r.content = Content(n)'
    <2>1. CASE n \in S!Earlier(r) /\ S!Replays(r, n) /\ UNCHANGED setup
      <3>1. Newest' = Newest /\ \A m : Content(m)' = Content(m)
        BY <2>1 DEF Newest, Content
      <3>2. n \in 1 .. Newest
        BY <1>0, <2>1 DEF S!Earlier, Newest
      <3>3. r.content = Content(n) /\ r.expected <= n
        BY <1>0, <2>1, <3>2 DEF S!Replays, Content, SetupInv, RevisionsSound
      <3>4. RevisionsSound'
        BY <2>1, <3>1 DEF SetupInv, RevisionsSound
      <3> QED
        BY <1>0, <2>1, <3>1, <3>2, <3>3, <3>4
    <2>2. CASE /\ r.expected = Newest /\ n = Newest + 1
               /\ setup' = [status |-> "DRAFT", ready |-> 0,
                            revisions |-> Append(setup.revisions, S!Stored(r))]
      <3>s. PICK s : s = S!Stored(r)
        OBVIOUS
      <3>1. /\ s \in StoredRevisions /\ s.content = r.content /\ s.expected = r.expected /\ s.told = r.told
        BY <1>0, <3>s DEF S!Stored, StoredRevisions, Submissions
      <3>2. /\ setup'.status = "DRAFT" /\ setup'.ready = 0
            /\ setup'.revisions = Append(setup.revisions, s)
        BY <2>2, <3>s
      <3>3. /\ setup'.revisions \in Seq(StoredRevisions) /\ Newest' = Newest + 1
            /\ setup'.revisions[Newest + 1] = s
            /\ \A m \in 1 .. Newest : setup'.revisions[m] = setup.revisions[m]
        BY <1>0, <3>1, <3>2 DEF Newest
      <3>4. setup' \in SetupStates
        BY <2>2, <3>s, <3>2, <3>3 DEF SetupStates, SetupStatuses
      <3>5. \A m \in 0 .. Newest : Content(m)' = Content(m)
        BY <3>3 DEF Content
      <3>6. Content(n)' = r.content
        <4>0. n = Newest + 1 /\ Newest \in Nat
          BY <1>0, <2>2
        <4>2. n # 0
          BY <4>0
        <4>1. n # 0 /\ setup'.revisions[n].content = r.content
          BY <3>1, <3>3, <4>0, <4>2
        <4> QED
          BY <4>1 DEF Content
      <3>7. r.told = Content(Newest)
        BY <1>0, <2>2 DEF SubmissionSound
      <3>8. ASSUME NEW m \in 1 .. Newest'
            PROVE  setup'.revisions[m].expected = m - 1 /\ setup'.revisions[m].told = Content(m - 1)'
        <4>1. CASE m \in 1 .. Newest
          <5>1. setup.revisions[m].expected = m - 1 /\ setup.revisions[m].told = Content(m - 1)
            BY <4>1 DEF SetupInv, RevisionsSound
          <5>2. m - 1 \in 0 .. Newest
            BY <1>0, <4>1
          <5> QED
            BY <3>3, <3>5, <4>1, <5>1, <5>2
        <4>2. CASE m = Newest + 1
          <5>1. m - 1 = Newest /\ Newest \in 0 .. Newest
            BY <1>0, <4>2
          <5> QED
            BY <2>2, <3>1, <3>3, <3>5, <3>7, <4>2, <5>1
        <4> QED
          BY <1>0, <3>3, <3>8, <4>1, <4>2
      <3>9. RevisionsSound'
        BY <3>2, <3>8 DEF RevisionsSound
      <3> QED
        BY <1>0, <2>2, <3>3, <3>4, <3>5, <3>6, <3>9
    <2> QED
      BY <1>1, <2>1, <2>2
  <1>4. CASE r.intent = "SAVE"
    <2>q. PICK q : q = [r EXCEPT !.revision = n]
      OBVIOUS
    <2>1. /\ q \in Submissions /\ q.revision = n /\ q.number = r.number /\ q.tab = r.tab
          /\ q.content = r.content /\ q.id = r.id /\ q.expected = r.expected /\ q.late = r.late
          /\ q.told = r.told /\ q.reuse = r.reuse /\ q.intent = r.intent
      BY <1>0, <1>3, <2>q DEF Submissions
    <2>2. /\ submission' = (submission \ {r}) \cup {S!Answered(q, S!Success(r, n, "DRAFT"))}
          /\ issued' = issued + 1
      BY <1>1, <1>4, <2>q DEF S!AfterSave, S!Proceeds
    <2>3. S!Answered(q, S!Success(r, n, "DRAFT")) \in Submissions
      <3>1. S!Success(r, n, "DRAFT") \in Answers
        BY <1>0, <1>3 DEF S!Success, Answers, SetupStatuses
      <3> QED
        BY <2>1, <3>1, AnsweredRequest
    <2>4. SetupTypes'
      BY <1>0, <1>2, <1>3, <2>2, <2>3 DEF SetupInv, SetupTypes
    <2>5. Extends
      BY <1>0, <1>2, <1>3, <2>2 DEF Extends
    <2>6. n \in Nat /\ "DRAFT" \in SetupStatuses
      BY <1>3 DEF SetupStatuses
    <2> QED
      BY <1>2, <1>3, <2>1, <2>2, <2>4, <2>5, <2>6, RequestSucceeds
  <1>5. CASE r.intent # "SAVE"
    <2>1. /\ submission' = (submission \ {r}) \cup {[r EXCEPT !.step = "saved", !.revision = n]}
          /\ UNCHANGED issued
      BY <1>1, <1>5 DEF S!AfterSave, S!Proceeds
    <2>n. n \in Nat
      BY <1>3
    <2>2. [r EXCEPT !.step = "saved", !.revision = n] \in Submissions
      BY <1>0, <2>n DEF Submissions
    <2>3. SetupTypes'
      BY <1>0, <1>2, <1>3, <2>1, <2>2 DEF SetupInv, SetupTypes
    <2>4. Extends
      BY <1>0, <1>2, <1>3, <2>1 DEF Extends
    <2> QED
      BY <1>2, <1>3, <2>n, <2>1, <2>3, <2>4, RequestAdvances
  <1> QED
    BY <1>4, <1>5

\* A step of one form, after which it awaits nothing it did not await.
LEMMA FormStep ==
    ASSUME SetupInv, NEW t \in People, NEW f \in SetupForms,
           form' = [form EXCEPT ![t] = f], FormSound(f)', UNCHANGED setup, issued \in Nat, issued' \in Nat,
           issued <= issued', tries' \in [edits : Nat, requests : Nat, reloads : Nat],
           tries.requests <= tries'.requests, submission' \subseteq Submissions,
           \A r \in submission' : /\ r \in submission \/ SubmissionSound(r)'
                                  /\ r.tab = t => Awaits(f, r)
                                  /\ r.tab # t => r \in submission
    PROVE  SetupInv'
  <1>1. SetupTypes'
    BY DEF SetupInv, SetupTypes
  <1>2. Newest' = Newest /\ \A n : Content(n)' = Content(n)
    BY DEF Newest, Content
  <1>3. Newest \in Nat
    BY DEF SetupInv, SetupTypes, SetupStates, Newest
  <1>4. RevisionsSound'
    BY <1>2 DEF SetupInv, RevisionsSound
  <1>5. Extends
    BY <1>2, <1>3 DEF Extends
  <1>6. ASSUME NEW u \in People PROVE FormSound(form[u])'
    <2>1. PICK g \in SetupForms : g = form'[u] /\ (u = t => g = f) /\ (u # t => g = form[u])
      BY DEF SetupInv, SetupTypes
    <2>2. FormSound(g)'
      BY <1>1, <1>5, <2>1, StaysSound DEF SetupInv
    <2> QED
      BY <2>1, <2>2 DEF FormSound
  <1>7. ASSUME NEW r \in submission' PROVE SubmissionSound(r)' /\ Awaits(form[r.tab], r)'
    <2>1. r \in Submissions /\ r.tab \in People
      BY DEF Submissions
    <2>2. SubmissionSound(r)'
      BY <1>1, <1>5, <2>1, StaysSound DEF SetupInv
    <2>3. form'[r.tab] = IF r.tab = t THEN f ELSE form[r.tab]
      BY <2>1 DEF SetupInv, SetupTypes
    <2> QED
      BY <2>2, <2>3 DEF Awaits, SetupInv
  <1> QED
    BY <1>1, <1>4, <1>6, <1>7 DEF SetupInv

LEMMA EditKeeps ==
    ASSUME SetupInv, NEW t \in People, NEW draft \in Drafts, S!Edit(t, draft)
    PROVE  SetupInv'
  <1>f. PICK f \in SetupForms : f = form[t]
    BY DEF SetupInv, SetupTypes
  <1>c. PICK expected, id : expected = S!CurrentDraft(f).expected /\ id = S!CurrentDraft(f).id
    OBVIOUS
  <1>g. PICK g : g = [f EXCEPT !.draft = draft, !.expected = expected, !.id = id, !.edited = TRUE,
                               !.late = f.pending # 0]
    OBVIOUS
  <1>1. /\ UNCHANGED <<setup, submission, issued>> /\ tries' = [tries EXCEPT !.edits = tries.edits + 1]
        /\ form' = [form EXCEPT ![t] = g]
    <2>1. UNCHANGED <<setup, submission, issued>> /\ tries' = [tries EXCEPT !.edits = tries.edits + 1]
      BY DEF S!Edit, S!Uses
    <2>2. form' = [form EXCEPT ![t].draft = draft, ![t].expected = expected, ![t].id = id,
                               ![t].edited = TRUE, ![t].late = f.pending # 0]
      BY <1>f, <1>c DEF S!Edit
    <2>3. form' = [form EXCEPT ![t] = g]
      BY <1>f, <1>g, <2>2 DEF SetupInv, SetupTypes
    <2> QED
      BY <2>1, <2>3
  <1>2. /\ FormSound(f) /\ f.result \in Answers /\ issued \in Nat /\ Newest \in Nat
        /\ tries \in [edits : Nat, requests : Nat, reloads : Nat]
        /\ f.id \in Nat /\ f.expected \in Nat /\ f.pending \in Nat
    BY <1>f DEF SetupInv, SetupTypes, SetupForms, SetupStates, Newest
  <1>3. /\ f.result.next \in Nat /\ f.result.revision \in Nat /\ f.result.accepted \in Nat
    BY <1>2 DEF Answers
  <1>4. /\ expected \in Nat /\ expected <= Newest /\ id \in Nat /\ id <= issued
        /\ f.result.kind = "SUCCESS" => id # f.result.accepted
    <2>1. CASE S!ActionIsCurrent(f)
      BY <1>c, <1>2, <1>3, <2>1 DEF FormSound, S!CurrentDraft, S!ActionIsCurrent
    <2>2. CASE ~S!ActionIsCurrent(f)
      BY <1>c, <1>2, <2>2 DEF FormSound, S!CurrentDraft, S!ActionIsCurrent
    <2> QED
      BY <2>1, <2>2
  <1>5. /\ g \in SetupForms /\ g.draft = draft /\ g.expected = expected /\ g.id = id /\ g.edited = TRUE
        /\ g.late = (f.pending # 0) /\ g.result = f.result /\ g.pending = f.pending /\ g.told = f.told
    <2>1. g \in SetupForms
      BY <1>g, <1>2, <1>4 DEF SetupForms, Contents
    <2> QED
      BY <1>g, <2>1 DEF SetupForms
  <1>6. ~S!ActionIsCurrent(g) /\ S!CurrentDraft(g).expected = expected /\ S!CurrentDraft(g).id = id
    BY <1>4, <1>5 DEF S!ActionIsCurrent, S!CurrentDraft
  <1>7. Newest' = Newest /\ \A n : Content(n)' = Content(n)
    BY <1>1 DEF Newest, Content
  <1>8. FormSound(g)'
    BY <1>c, <1>1, <1>2, <1>4, <1>5, <1>6, <1>7 DEF FormSound
  <1>9. ASSUME NEW r \in submission, r.tab = t PROVE Awaits(g, r)
    <2>1. Awaits(f, r) /\ SubmissionSound(r) /\ tries.requests \in Nat
      BY <1>f, <1>2, <1>9 DEF SetupInv
    <2>2. r.number # 0
      BY <2>1 DEF SubmissionSound
    <2> QED
      BY <1>c, <1>5, <1>6, <2>1, <2>2 DEF Awaits
  <1>10. tries' \in [edits : Nat, requests : Nat, reloads : Nat] /\ tries'.requests = tries.requests
    BY <1>1, <1>2
  <1>11. submission' \subseteq Submissions
    BY <1>1 DEF SetupInv, SetupTypes
  <1>12. tries.requests <= tries'.requests /\ issued <= issued' /\ issued' \in Nat
    BY <1>1, <1>2, <1>10
  <1> QED
    BY <1>1, <1>2, <1>5, <1>8, <1>9, <1>10, <1>11, <1>12, FormStep

LEMMA SubmitKeeps ==
    ASSUME SetupInv, NEW t \in People, NEW intent \in {"SAVE", "READY", "START"}, S!Submit(t, intent)
    PROVE  SetupInv'
  <1>f. PICK f \in SetupForms : f = form[t]
    BY DEF SetupInv, SetupTypes
  <1>c. PICK expected, id, draft : /\ expected = S!CurrentDraft(f).expected /\ id = S!CurrentDraft(f).id
                                   /\ draft = S!CurrentDraft(f).draft
    OBVIOUS
  <1>m. PICK number : number = tries.requests + 1
    OBVIOUS
  <1>q. PICK q : q = [number |-> number, tab |-> t, intent |-> intent, content |-> draft,
                      expected |-> expected, id |-> id, reuse |-> S!Reuses(f), told |-> f.told,
                      late |-> f.late, step |-> "arrived", revision |-> 0, answer |-> S!NoResult]
    OBVIOUS
  <1>g. PICK g : g = [f EXCEPT !.pending = number]
    OBVIOUS
  <1>1. /\ UNCHANGED <<setup, issued>> /\ tries' = [tries EXCEPT !.requests = number]
        /\ submission' = submission \cup {q} /\ f.pending = 0 /\ S!Offered(f, intent)
    BY <1>f, <1>c, <1>m, <1>q DEF S!Submit, S!Uses
  <1>h. form' = [form EXCEPT ![t] = g]
    BY <1>f, <1>m, <1>g DEF S!Submit, SetupInv, SetupTypes
  <1>2. /\ FormSound(f) /\ f.result \in Answers /\ issued \in Nat /\ Newest \in Nat
        /\ tries \in [edits : Nat, requests : Nat, reloads : Nat] /\ tries.requests \in Nat
        /\ f.id \in Nat /\ f.expected \in Nat /\ f.draft \in Contents /\ f.told \in Contents
        /\ f.late \in BOOLEAN /\ f.edited \in BOOLEAN
    BY <1>f DEF SetupInv, SetupTypes, SetupForms, SetupStates, Newest
  <1>3. f.result.next \in Nat /\ f.result.revision \in Nat
    BY <1>2 DEF Answers
  <1>4. /\ expected \in Nat /\ expected <= Newest /\ id \in Nat /\ id <= issued /\ draft = f.draft
        /\ \E j \in expected .. Newest : f.told = Content(j)
        /\ ~S!Dirty(f) /\ ~f.late /\ expected > 0 => f.draft = Content(expected)
    <2>1. CASE S!ActionIsCurrent(f)
      BY <1>c, <1>2, <1>3, <2>1 DEF FormSound, S!CurrentDraft, S!ActionIsCurrent, S!Dirty
    <2>2. CASE ~S!ActionIsCurrent(f)
      BY <1>c, <1>2, <2>2 DEF FormSound, S!CurrentDraft, S!ActionIsCurrent, S!Dirty
    <2> QED
      BY <2>1, <2>2
  <1>5. g \in SetupForms /\ g.pending = number /\ g.late = f.late /\ g.draft = f.draft
        /\ S!CurrentDraft(g) = S!CurrentDraft(f) /\ (S!ActionIsCurrent(g) <=> S!ActionIsCurrent(f))
        /\ g.id = f.id /\ g.expected = f.expected /\ g.result = f.result /\ g.told = f.told
        /\ g.edited = f.edited
    <2>1. g \in SetupForms
      BY <1>m, <1>g, <1>2 DEF SetupForms
    <2>2. /\ g.pending = number /\ g.late = f.late /\ g.draft = f.draft
          /\ g.id = f.id /\ g.expected = f.expected /\ g.result = f.result /\ g.told = f.told
          /\ g.edited = f.edited
      BY <1>g, <2>1 DEF SetupForms
    <2> QED
      BY <2>1, <2>2 DEF S!CurrentDraft, S!ActionIsCurrent
  <1>6. /\ q \in Submissions /\ q.step = "arrived" /\ q.number = number /\ q.tab = t /\ q.id = id
        /\ q.expected = expected /\ q.told = f.told /\ q.content = f.draft /\ q.late = f.late
        /\ q.reuse = S!Reuses(f) /\ q.intent = intent
    <2>1. S!NoResult \in Answers
      BY DEF S!NoResult, Answers, SetupStatuses
    <2>2. S!Reuses(f) \in BOOLEAN
      BY <1>2 DEF S!Reuses, S!Dirty, S!ActionIsCurrent
    <2> HIDE DEF S!NoResult, S!Reuses
    <2>3. q \in Submissions
      BY <1>m, <1>q, <1>2, <1>4, <2>1, <2>2 DEF Submissions
    <2> QED
      BY <1>q, <1>4, <2>3
  <1>7. Newest' = Newest /\ \A n : Content(n)' = Content(n)
    BY <1>1 DEF Newest, Content
  <1>8. FormSound(g)'
    BY <1>1, <1>2, <1>5, <1>7 DEF FormSound
  <1>9. tries' \in [edits : Nat, requests : Nat, reloads : Nat] /\ tries'.requests = number
    BY <1>m, <1>1, <1>2
  <1>10. (q.reuse \/ q.intent = "START") /\ ~q.late /\ q.expected > 0 => q.content = Content(q.expected)
    BY <1>1, <1>4, <1>6 DEF S!Reuses, S!Offered, S!MayStart
  <1>11. SubmissionSound(q)'
    BY <1>m, <1>1, <1>2, <1>4, <1>6, <1>7, <1>9, <1>10 DEF SubmissionSound, Checked
  <1>12. ASSUME NEW r \in submission', r.tab = t PROVE Awaits(g, r)
    <2>1. CASE r = q
      BY <1>c, <1>5, <1>6, <2>1 DEF Awaits
    <2>2. CASE r \in submission
      <3>1. r.number \in 1 .. tries.requests
        BY <2>2 DEF SetupInv, SubmissionSound
      <3> QED
        BY <1>m, <1>2, <1>5, <3>1 DEF Awaits
    <2> QED
      BY <1>1, <1>12, <2>1, <2>2
  <1>13. submission' \subseteq Submissions
    BY <1>1, <1>6 DEF SetupInv, SetupTypes
  <1>14. tries.requests <= tries'.requests /\ issued <= issued' /\ issued' \in Nat
    BY <1>m, <1>1, <1>2, <1>9
  <1>15. \A r \in submission' : (r \in submission \/ SubmissionSound(r)') /\ (r.tab # t => r \in submission)
    BY <1>1, <1>6, <1>11
  <1> QED
    BY <1>1, <1>h, <1>2, <1>5, <1>8, <1>9, <1>12, <1>13, <1>14, <1>15, FormStep

LEMMA ReloadKeeps ==
    ASSUME AccountsAssumption, SetupInv, NEW t \in People, S!Reload(t)
    PROVE  SetupInv'
  <1>g. PICK g : g = S!Page(issued + 1)
    OBVIOUS
  <1>1. /\ UNCHANGED <<setup, submission>> /\ tries' = [tries EXCEPT !.reloads = tries.reloads + 1]
        /\ issued' = issued + 1 /\ form' = [form EXCEPT ![t] = g]
    BY <1>g DEF S!Reload, S!Uses
  <1>2. /\ issued \in Nat /\ Newest \in Nat /\ tries \in [edits : Nat, requests : Nat, reloads : Nat]
        /\ setup.revisions \in Seq(StoredRevisions) /\ setup.status \in SetupStatuses
    BY DEF SetupInv, SetupTypes, SetupStates, Newest
  <1>3. Content(Newest) \in Contents
    <2>1. CASE Newest = 0
      BY <2>1 DEF Content, Contents
    <2>2. CASE Newest # 0
      <3>1. setup.revisions[Newest] \in StoredRevisions
        BY <1>2, <2>2 DEF Newest
      <3> QED
        BY <2>2, <3>1 DEF Content, StoredRevisions
    <2> QED
      BY <2>1, <2>2
  <1>4. S!NoResult \in Answers /\ S!NoResult.kind = "IDLE"
    BY DEF S!NoResult, Answers, SetupStatuses
  <1>5. g = [draft |-> Content(Newest), expected |-> Newest, id |-> issued + 1, edited |-> FALSE,
             status |-> setup.status, result |-> S!NoResult, pending |-> 0,
             told |-> Content(Newest), late |-> FALSE]
    BY <1>g DEF S!Page, Content, Newest
  <1>6. /\ g \in SetupForms /\ g.pending = 0 /\ g.id = issued + 1 /\ g.expected = Newest
        /\ g.draft = Content(Newest) /\ g.told = Content(Newest) /\ g.result.kind = "IDLE"
    <2> HIDE DEF S!NoResult
    <2>1. g \in SetupForms
      BY <1>2, <1>3, <1>4, <1>5 DEF SetupForms
    <2> QED
      BY <1>4, <1>5, <2>1
  <1>7. ~S!ActionIsCurrent(g) /\ S!CurrentDraft(g).expected = Newest
    BY <1>6 DEF S!ActionIsCurrent, S!CurrentDraft
  <1>8. Newest' = Newest /\ \A n : Content(n)' = Content(n)
    BY <1>1 DEF Newest, Content
  <1>9. FormSound(g)'
    BY <1>1, <1>2, <1>6, <1>7, <1>8 DEF FormSound
  <1>10. tries' \in [edits : Nat, requests : Nat, reloads : Nat] /\ tries'.requests = tries.requests
    BY <1>1, <1>2
  <1>11. ASSUME NEW r \in submission PROVE Awaits(g, r)
    <2>1. r.number # 0
      BY <1>2 DEF SetupInv, SubmissionSound
    <2> QED
      BY <1>6, <2>1 DEF Awaits
  <1>12. /\ submission' \subseteq Submissions /\ tries.requests <= tries'.requests
         /\ issued <= issued' /\ issued' \in Nat
    BY <1>1, <1>2, <1>10 DEF SetupInv, SetupTypes
  <1> QED
    BY <1>1, <1>2, <1>6, <1>9, <1>10, <1>11, <1>12, FormStep

\* An answer that a form waited for.
LEMMA ReceiveKeeps ==
    ASSUME SetupInv, NEW r \in submission, S!Receive(r)
    PROVE  SetupInv'
  <1>0. /\ r \in Submissions /\ SubmissionSound(r) /\ Newest \in Nat /\ r.expected \in Nat /\ r.id \in Nat
        /\ r.answer \in Answers /\ r.tab \in People /\ issued \in Nat /\ r.revision \in Nat
        /\ tries \in [edits : Nat, requests : Nat, reloads : Nat] /\ tries.requests \in Nat
    BY RequestFacts DEF Submissions, SetupInv, SetupTypes
  <1>t. PICK t \in People : t = r.tab
    BY <1>0
  <1>f. PICK f \in SetupForms : f = form[t]
    BY DEF SetupInv, SetupTypes
  <1>1. UNCHANGED <<setup, issued, tries>> /\ submission' = submission \ {r} /\ r.step = "answered"
    BY DEF S!Receive
  <1>2. FormSound(f) /\ Awaits(f, r)
    BY <1>t, <1>f DEF SetupInv
  <1>3. /\ f.result \in Answers /\ f.id \in Nat /\ f.expected \in Nat /\ f.told \in Contents /\ f.draft \in Contents
        /\ f.late \in BOOLEAN /\ f.edited \in BOOLEAN
    BY DEF SetupForms
  <1>4. f.result.next \in Nat /\ f.result.revision \in Nat /\ r.answer.revision \in Nat
        /\ r.answer.next \in Nat
    BY <1>0, <1>3 DEF Answers
  <1>5. \A q \in submission' : q \in submission /\ q.number # 0
    BY <1>0, <1>1 DEF SetupInv, SubmissionSound
  <1>6. submission' \subseteq Submissions
    BY <1>1 DEF SetupInv, SetupTypes
  <1>7. Newest' = Newest /\ \A n : Content(n)' = Content(n)
    BY <1>1 DEF Newest, Content
  <1>c. /\ UNCHANGED setup /\ issued' \in Nat /\ issued <= issued' /\ tries.requests <= tries'.requests
        /\ tries' \in [edits : Nat, requests : Nat, reloads : Nat]
    BY <1>0, <1>1
  <1>s. ASSUME NEW g \in SetupForms, form' = [form EXCEPT ![t] = g], FormSound(g),
               \A q \in submission' : q.tab = t => Awaits(g, q)
        PROVE  SetupInv'
    <2>1. FormSound(g)'
      BY <1>1, <1>7, <1>s DEF FormSound
    <2>2. \A q \in submission' : (q \in submission \/ SubmissionSound(q)') /\ (q.tab # t => q \in submission)
      BY <1>5
    <2> QED
      BY <1>0, <1>6, <1>c, <1>s, <2>1, <2>2, FormStep
  <1>8. CASE f.pending # r.number
    <2>1. form' = form
      BY <1>t, <1>f, <1>8 DEF S!Receive
    <2>2. form' = [form EXCEPT ![t] = f]
      BY <1>f, <2>1 DEF SetupInv, SetupTypes
    <2>4. \A q \in submission' : q.tab = t => Awaits(f, q)
      BY <1>f, <1>5 DEF SetupInv
    <2> QED
      BY <1>2, <1>s, <2>2, <2>4
  <1>9. ASSUME f.pending = r.number,
               NEW g \in SetupForms, form' = [form EXCEPT ![t] = g],
               g.pending = 0, g.result = r.answer, g.id = f.id, g.expected = f.expected,
               g.draft = f.draft, g.late = f.late, g.edited = f.edited,
               g.told = IF r.answer.kind = "SUCCESS" /\ S!ActionIsCurrent(g)
                        THEN Content(r.revision) ELSE f.told
        PROVE  SetupInv'
    <2>1. /\ r.expected = S!CurrentDraft(f).expected /\ r.id = S!CurrentDraft(f).id
          /\ ~f.late => ~r.late /\ r.content = f.draft
      BY <1>2, <1>9 DEF Awaits
    <2>2. /\ f.id <= issued /\ f.expected <= Newest
          /\ ~f.edited /\ f.expected > 0 => f.draft = Content(f.expected)
          /\ \E j \in r.expected .. Newest : f.told = Content(j)
      BY <1>2, <2>1 DEF FormSound
    <2>3. /\ f.expected <= r.expected
          /\ ~S!ActionIsCurrent(f) => f.id = r.id /\ f.expected = r.expected
          /\ S!ActionIsCurrent(f) => f.id # r.id
      <3>1. CASE S!ActionIsCurrent(f)
        BY <1>2, <1>3, <1>4, <2>1, <3>1 DEF FormSound, S!CurrentDraft, S!ActionIsCurrent
      <3>2. CASE ~S!ActionIsCurrent(f)
        BY <1>3, <2>1, <3>2 DEF S!CurrentDraft
      <3> QED
        BY <3>1, <3>2
    <2>6. \A q \in submission' : q.tab = t => Awaits(g, q)
      BY <1>5, <1>9 DEF Awaits
    <2>4. CASE S!ActionIsCurrent(g)
      <3>1. /\ r.answer.kind = "SUCCESS" /\ f.id = r.answer.accepted
        BY <1>9, <2>4 DEF S!ActionIsCurrent
      <3>2. /\ r.answer.accepted = r.id /\ r.answer.revision = r.revision
            /\ r.answer.next # r.id /\ r.answer.next <= issued
            /\ r.revision \in 1 .. Newest /\ r.expected <= r.revision
            /\ ~r.late => r.content = Content(r.revision)
        BY <1>0, <1>1, <3>1 DEF SubmissionSound, Checked
      <3>3. S!CurrentDraft(g).expected = r.revision
        BY <1>9, <2>4, <3>2 DEF S!CurrentDraft
      <3>4. f.expected = r.expected
        BY <2>3, <3>1, <3>2
      <3>5. g.told = Content(r.revision)
        BY <1>9, <2>4, <3>1
      <3>6. FormSound(g)
        <4>1. \E j \in S!CurrentDraft(g).expected .. Newest : g.told = Content(j)
          BY <1>0, <3>2, <3>3, <3>5
        <4>2. /\ g.expected <= g.result.revision /\ g.result.revision \in 1 .. Newest
              /\ ~g.late => g.draft = Content(g.result.revision)
          BY <1>9, <2>1, <3>2, <3>4
        <4> QED
          BY <1>9, <2>2, <3>2, <4>1, <4>2 DEF FormSound
      <3> QED
        BY <1>9, <1>s, <2>6, <3>6
    <2>5. CASE ~S!ActionIsCurrent(g)
      <3>1. S!CurrentDraft(g).expected = f.expected /\ g.told = f.told
        BY <1>9, <2>5 DEF S!CurrentDraft
      <3>2. r.answer.kind = "SUCCESS" => r.answer.accepted # r.answer.next /\ r.answer.next <= issued
        BY <1>0, <1>1 DEF SubmissionSound
      <3>3. \E j \in f.expected .. Newest : f.told = Content(j)
        BY <1>0, <1>3, <2>2, <2>3
      <3>4. FormSound(g)
        BY <1>9, <2>2, <2>5, <3>1, <3>2, <3>3 DEF FormSound
      <3> QED
        BY <1>9, <1>s, <2>6, <3>4
    <2> QED
      BY <2>4, <2>5
  <1>10. CASE f.pending = r.number
    <2>a. PICK answered : answered = [f EXCEPT !.pending = 0, !.result = r.answer]
      OBVIOUS
    <2>1. /\ answered \in SetupForms /\ answered.pending = 0 /\ answered.result = r.answer
          /\ answered.id = f.id /\ answered.expected = f.expected /\ answered.draft = f.draft
          /\ answered.late = f.late /\ answered.edited = f.edited /\ answered.told = f.told
      <3>1. answered \in SetupForms
        BY <1>0, <2>a DEF SetupForms
      <3> QED
        BY <2>a, <3>1 DEF SetupForms
    <2>2. CASE r.answer.kind # "SUCCESS"
      <3>1. form' = [form EXCEPT ![t] = answered]
        BY <1>t, <1>f, <1>10, <2>a, <2>2 DEF S!Receive
      <3> QED
        BY <1>9, <1>10, <2>1, <2>2, <3>1
    <2>3. CASE r.answer.kind = "SUCCESS"
      <3>w. PICK told : told = IF S!ActionIsCurrent(answered) THEN setup.revisions[r.revision].content
                               ELSE answered.told
        OBVIOUS
      <3>g. PICK g : g = [answered EXCEPT !.status = setup.status, !.told = told]
        OBVIOUS
      <3>1. form' = [form EXCEPT ![t] = g]
        BY <1>t, <1>f, <1>10, <2>a, <2>3, <3>w, <3>g DEF S!Receive
      <3>2. r.revision \in 1 .. Newest /\ setup.revisions[r.revision].content = Content(r.revision)
        BY <1>0, <1>1, <2>3 DEF SubmissionSound, Checked, Content
      <3>3. told \in Contents
        <4>1. setup.revisions[r.revision] \in StoredRevisions
          BY <3>2, RequestFacts DEF Newest
        <4> QED
          BY <1>3, <2>1, <3>w, <4>1 DEF StoredRevisions
      <3>4. setup.status \in SetupStatuses
        BY RequestFacts
      <3>5. /\ g \in SetupForms /\ g.pending = 0 /\ g.result = r.answer
            /\ g.id = f.id /\ g.expected = f.expected /\ g.draft = f.draft
            /\ g.late = f.late /\ g.edited = f.edited /\ g.told = told
        <4>1. g \in SetupForms
          BY <2>1, <3>g, <3>3, <3>4 DEF SetupForms
        <4> QED
          BY <2>1, <3>g, <4>1 DEF SetupForms
      <3>6. S!ActionIsCurrent(g) <=> S!ActionIsCurrent(answered)
        BY <2>1, <3>5 DEF S!ActionIsCurrent
      <3> QED
        BY <1>9, <1>10, <2>1, <2>3, <3>w, <3>1, <3>2, <3>5, <3>6
    <2> QED
      BY <2>2, <2>3
  <1> QED
    BY <1>8, <1>10

LEMMA ExchangeKeeps ==
    ASSUME AccountsAssumption, SetupInv, S!Exchange
    PROVE  SetupInv'
  BY EditKeeps, SubmitKeeps, ReloadKeeps, ReceiveKeeps, SaveKeeps, LoadKeeps, StatusKeeps, FailKeeps
  DEF S!Exchange

-----------------------------------------------------------------------------
(* A fantasy league: what a state is *)

LeagueRecords ==
    [operation : F!Commands, outcome : {"ACCEPTED", "DENIED"}, before : Nat, after : Nat]
Claims ==
    [id : Nat, team : Teams, player : Players, drop : Players \cup {Nothing}, slot : F!Slots,
     at : F!Time, submitted : Nat, status : {"PENDING", "APPLIED", "REJECTED", "CANCELLED"}]
Owners == [Players -> Teams \cup {Nothing}]
Priorities == [1 .. Cardinality(Teams) -> Teams]
Leagues ==
    [revision : Nat, slots : [Teams -> F!Lineups], priority : Priorities, owner : Owners,
     effective : [Teams -> Int], claims : SUBSET Claims, log : Seq(LeagueRecords)]

LEMMA LeagueCardinality ==
    ASSUME NEW done
    PROVE  F!Cardinality(done) = Cardinality(done) /\ (F!IsFiniteSet(done) <=> IsFiniteSet(done))
  BY DEF F!Cardinality, Cardinality, F!IsFiniteSet, IsFiniteSet

\* A player stands in one slot of a team at most.
OncePerTeam(slots) ==
    \A t \in Teams : \A x, y \in F!Slots :
        slots[t][x] # Nothing /\ slots[t][x] = slots[t][y] => x = y

IdsDiffer(claims) == \A c, d \in claims : c.id = d.id => c = d

LeagueSound(s) ==
    /\ s \in Leagues /\ OncePerTeam(s.slots)
    /\ IsFiniteSet(s.claims) /\ IdsDiffer(s.claims) /\ F!Covers(s.priority)

\* What an operation on owners and rosters leaves alone.
SameBooks(s, x) ==
    x.claims = s.claims /\ x.log = s.log /\ x.revision = s.revision /\ x.priority = s.priority

LEMMA SuccessorIs ==
    ASSUME AccountsAssumption, now \in Nat, NEW s, LeagueSound(s), NEW owner \in Owners, NEW fs,
           DOMAIN fs \subseteq Teams, \A t \in DOMAIN fs : fs[t] \in F!Lineups,
           NEW x \in F!Successor(s, owner, fs)
    PROVE  /\ LeagueSound(x) /\ SameBooks(s, x) /\ x.owner = owner
           /\ \A t \in DOMAIN fs : /\ F!ValidSnapshot(s, t, fs[t], owner)
                                   /\ x.slots[t] = fs[t] /\ x.effective[t] = now
           /\ \A t \in Teams \ DOMAIN fs :
                 x.slots[t] = s.slots[t] /\ x.effective[t] = s.effective[t]
  <1> DEFINE slots == [t \in Teams |-> IF t \in DOMAIN fs THEN fs[t] ELSE s.slots[t]]
             effective == [t \in Teams |-> IF t \in DOMAIN fs THEN now ELSE s.effective[t]]
  <1>1. s \in Leagues
    BY DEF LeagueSound
  <1>2. \A t \in DOMAIN fs : F!ValidSnapshot(s, t, fs[t], owner)
    BY DEF F!Successor
  <1>3. x = [s EXCEPT !.owner = owner, !.slots = slots, !.effective = effective]
    BY <1>2 DEF F!Successor
  <1>4. slots \in [Teams -> F!Lineups] /\ effective \in [Teams -> Int]
    BY <1>1 DEF Leagues
  <1> HIDE DEF slots, effective
  <1>5. /\ x \in Leagues /\ SameBooks(s, x) /\ x.owner = owner /\ x.slots = slots
        /\ x.effective = effective
    BY <1>1, <1>3, <1>4 DEF Leagues, SameBooks
  <1>6. /\ \A t \in DOMAIN fs : slots[t] = fs[t] /\ effective[t] = now
        /\ \A t \in Teams \ DOMAIN fs : slots[t] = s.slots[t] /\ effective[t] = s.effective[t]
    BY DEF slots, effective
  <1>7. OncePerTeam(slots)
    <2> SUFFICES ASSUME NEW t \in Teams, NEW a \in F!Slots, NEW b \in F!Slots,
                        slots[t][a] # Nothing, slots[t][a] = slots[t][b]
                 PROVE  a = b
      BY DEF OncePerTeam
    <2>1. CASE t \in DOMAIN fs
      BY <2>1, <1>2, <1>6 DEF F!ValidSnapshot
    <2>2. CASE t \notin DOMAIN fs
      BY <2>2, <1>6 DEF LeagueSound, OncePerTeam
    <2> QED
      BY <2>1, <2>2
  <1> QED
    BY <1>2, <1>5, <1>6, <1>7 DEF LeagueSound, SameBooks

\* No player twice and owners that agree with the rosters: each has one place in the league.
LEMMA OnePlace ==
    ASSUME AccountsAssumption, NEW s, LeagueSound(s), F!ProjectionsAgree(s.owner, s.slots),
           NEW p \in Players
    PROVE  Cardinality({x \in Teams \X F!Slots : s.slots[x[1]][x[2]] = p}) <= 1
  <1> DEFINE done == {x \in Teams \X F!Slots : s.slots[x[1]][x[2]] = p}
  <1>1. p # Nothing
    BY DEF AccountsAssumption, F!FantasyAssumption
  <1>2. ASSUME NEW x \in done, NEW y \in done PROVE x = y
    <2>1. PICK t \in Teams, a \in F!Slots : x = <<t, a>> /\ s.slots[t][a] = p
      OBVIOUS
    <2>2. PICK u \in Teams, b \in F!Slots : y = <<u, b>> /\ s.slots[u][b] = p
      OBVIOUS
    <2>3. s.owner[p] = t /\ s.owner[p] = u
      BY <2>1, <2>2 DEF F!ProjectionsAgree, F!Slotted
    <2>4. a = b
      BY <1>1, <2>1, <2>2, <2>3 DEF LeagueSound, OncePerTeam
    <2> QED
      BY <2>1, <2>2, <2>3, <2>4
  <1> HIDE DEF done
  <1>3. CASE done = {}
    BY <1>3, FS_EmptySet DEF done
  <1>4. ASSUME NEW x \in done PROVE Cardinality(done) <= 1
    <2>1. done = {x}
      BY <1>2
    <2>2. Cardinality({x}) = 1
      BY FS_Singleton
    <2> QED
      BY <2>1, <2>2
  <1> QED
    BY <1>3, <1>4 DEF done

-----------------------------------------------------------------------------
(* The operations on owners and rosters *)

LEMMA AssignIs ==
    ASSUME NEW f \in F!Lineups, NEW slot \in F!Slots, NEW p \in Players, NEW g \in F!Assign(f, slot, p)
    PROVE  g \in F!Lineups
  BY DEF F!Assign, F!Lineups

LEMMA WithoutIs ==
    ASSUME NEW f \in F!Lineups, NEW p
    PROVE  F!Without(f, p) \in F!Lineups
  BY DEF F!Without, F!Lineups

\* Additions, drops, lineups and awards are successors of one team.
LEMMA OneTeam ==
    ASSUME AccountsAssumption, now \in Nat, NEW s, LeagueSound(s), NEW owner \in Owners,
           NEW t \in Teams, NEW f \in F!Lineups, NEW x \in F!Successor(s, owner, F!One(t, f))
    PROVE  /\ LeagueSound(x) /\ SameBooks(s, x) /\ x.owner = owner
           /\ F!ValidSnapshot(s, t, f, owner) /\ x.slots[t] = f /\ x.effective[t] = now
           /\ \A u \in Teams \ {t} : x.slots[u] = s.slots[u] /\ x.effective[u] = s.effective[u]
  <1> DEFINE fs == F!One(t, f)
  <1>1. DOMAIN fs = {t} /\ fs[t] = f
    BY DEF F!One
  <1> HIDE DEF fs
  <1>2. x \in F!Successor(s, owner, fs)
    BY DEF fs
  <1>3. DOMAIN fs \subseteq Teams /\ \A u \in DOMAIN fs : fs[u] \in F!Lineups
    BY <1>1
  <1> QED
    BY <1>1, <1>2, <1>3, SuccessorIs

\* Whether a lineup of one team is a successor is decided by its snapshot.
LEMMA OneTeamExists ==
    ASSUME NEW s, NEW owner, NEW t, NEW f
    PROVE  F!Successor(s, owner, F!One(t, f)) # {} <=> F!ValidSnapshot(s, t, f, owner)
  <1>1. DOMAIN F!One(t, f) = {t} /\ F!One(t, f)[t] = f
    BY DEF F!One
  <1> QED
    BY <1>1 DEF F!Successor

LEMMA AddIs ==
    ASSUME AccountsAssumption, now \in Nat, NEW s, LeagueSound(s), NEW c \in F!Commands,
           c.action = "ADD_PLAYER", NEW x \in F!AddPlayer(s, c)
    PROVE  LeagueSound(x) /\ SameBooks(s, x)
  <1>1. c.team \in Teams /\ c.player \in Players /\ c.slot \in F!Slots
    BY DEF F!Commands
  <1>2. s \in Leagues
    BY DEF LeagueSound
  <1> DEFINE owner == [s.owner EXCEPT ![c.player] = c.team]
  <1>3. owner \in Owners /\ s.slots[c.team] \in F!Lineups
    BY <1>1, <1>2 DEF Leagues, Owners
  <1>4. PICK f \in F!Assign(s.slots[c.team], c.slot, c.player) :
               x \in F!Successor(s, owner, F!One(c.team, f))
    BY DEF F!AddPlayer
  <1>5. f \in F!Lineups
    BY <1>1, <1>3, AssignIs
  <1> HIDE DEF owner
  <1> QED
    BY <1>1, <1>3, <1>4, <1>5, OneTeam

LEMMA DropIs ==
    ASSUME AccountsAssumption, now \in Nat, NEW s, LeagueSound(s), NEW c \in F!Commands,
           c.action = "DROP_PLAYER", NEW x \in F!DropPlayer(s, c)
    PROVE  LeagueSound(x) /\ SameBooks(s, x)
  <1>1. c.team \in Teams /\ c.player \in Players
    BY DEF F!Commands
  <1>2. s \in Leagues
    BY DEF LeagueSound
  <1> DEFINE owner == [s.owner EXCEPT ![c.player] = Nothing]
             f == F!Without(s.slots[c.team], c.player)
  <1>3. owner \in Owners /\ s.slots[c.team] \in F!Lineups
    BY <1>1, <1>2 DEF Leagues, Owners
  <1>4. f \in F!Lineups
    BY <1>3, WithoutIs
  <1>5. x \in F!Successor(s, owner, F!One(c.team, f))
    BY DEF F!DropPlayer
  <1> HIDE DEF owner, f
  <1> QED
    BY <1>1, <1>3, <1>4, <1>5, OneTeam

LEMMA TradeIs ==
    ASSUME AccountsAssumption, now \in Nat, NEW s, LeagueSound(s), NEW c \in F!Commands,
           c.action = "TRADE", NEW x \in F!TradePlayers(s, c)
    PROVE  LeagueSound(x) /\ SameBooks(s, x)
  <1>1. /\ c.team \in Teams /\ c.player \in Players /\ c.slot \in F!Slots
        /\ c.partner \in Teams /\ c.other \in Players /\ c.partnerSlot \in F!Slots
    BY DEF F!Commands
  <1>2. s \in Leagues
    BY DEF LeagueSound
  <1> DEFINE owner == [s.owner EXCEPT ![c.player] = c.partner, ![c.other] = c.team]
             rest == F!Without(s.slots[c.team], c.player)
             given == F!Without(s.slots[c.partner], c.other)
             both(f, g) == [y \in {c.team, c.partner} |-> IF y = c.team THEN f ELSE g]
  <1>3. owner \in Owners /\ s.slots[c.team] \in F!Lineups /\ s.slots[c.partner] \in F!Lineups
    BY <1>1, <1>2 DEF Leagues, Owners
  <1>4. rest \in F!Lineups /\ given \in F!Lineups
    BY <1>3, WithoutIs
  <1>5. PICK fs \in F!Assign(rest, c.slot, c.other) \X F!Assign(given, c.partnerSlot, c.player) :
               x \in F!Successor(s, owner, both(fs[1], fs[2]))
    BY DEF F!TradePlayers
  <1> DEFINE f == fs[1]
             g == fs[2]
  <1> HIDE DEF owner, rest, given
  <1>6. f \in F!Lineups /\ g \in F!Lineups
    BY <1>1, <1>4, AssignIs
  <1>7. DOMAIN both(f, g) \subseteq Teams /\ \A t \in DOMAIN both(f, g) : both(f, g)[t] \in F!Lineups
    BY <1>1, <1>6
  <1> QED
    BY <1>3, <1>5, <1>7, SuccessorIs

LEMMA LineupIs ==
    ASSUME AccountsAssumption, now \in Nat, NEW s, LeagueSound(s), NEW c \in F!Commands,
           c.action = "LINEUP_CHANGE", NEW x \in F!ChangeLineup(s, c)
    PROVE  LeagueSound(x) /\ SameBooks(s, x)
  <1>1. c.team \in Teams /\ c.slots \in F!Lineups
    BY DEF F!Commands
  <1>2. s.owner \in Owners
    BY DEF LeagueSound, Leagues
  <1>3. x \in F!Successor(s, s.owner, F!One(c.team, c.slots))
    BY DEF F!ChangeLineup
  <1> QED
    BY <1>1, <1>2, <1>3, OneTeam

-----------------------------------------------------------------------------
(* Claims *)

\* A set of claims in which one is replaced by the same claim with another status.
LEMMA Restated ==
    ASSUME NEW claims, claims \subseteq Claims, IsFiniteSet(claims), IdsDiffer(claims),
           NEW c \in claims, NEW result \in {"APPLIED", "REJECTED", "CANCELLED"}
    PROVE  LET d == [c EXCEPT !.status = result]
               after == (claims \ {c}) \cup {d}
           IN  /\ after \subseteq Claims /\ IsFiniteSet(after) /\ IdsDiffer(after)
               /\ d.id = c.id /\ d.team = c.team /\ d.status = result
  <1> DEFINE d == [c EXCEPT !.status = result]
             after == (claims \ {c}) \cup {d}
  <1>1. d \in Claims /\ d.id = c.id /\ d.team = c.team /\ d.status = result
    BY DEF Claims
  <1> HIDE DEF d
  <1>2. after \subseteq Claims
    BY <1>1
  <1>3. IsFiniteSet(after)
    BY FS_RemoveElement, FS_AddElement
  <1>4. IdsDiffer(after)
    BY <1>1 DEF IdsDiffer
  <1> QED
    BY <1>1, <1>2, <1>3, <1>4 DEF d

\* A league with other claims and the same books otherwise.
LEMMA WithClaims ==
    ASSUME NEW s, LeagueSound(s), NEW claims, claims \subseteq Claims, IsFiniteSet(claims),
           IdsDiffer(claims)
    PROVE  LET x == [s EXCEPT !.claims = claims]
           IN  /\ LeagueSound(x) /\ x.claims = claims /\ x.slots = s.slots /\ x.owner = s.owner
               /\ x.log = s.log /\ x.revision = s.revision /\ x.priority = s.priority
               /\ x.effective = s.effective
  <1> DEFINE x == [s EXCEPT !.claims = claims]
  <1>1. s \in Leagues
    BY DEF LeagueSound
  <1>2. /\ x \in Leagues /\ x.claims = claims /\ x.slots = s.slots /\ x.owner = s.owner
        /\ x.log = s.log /\ x.revision = s.revision /\ x.priority = s.priority
        /\ x.effective = s.effective
    BY <1>1 DEF Leagues
  <1> HIDE DEF x
  <1>3. LeagueSound(x)
    BY <1>2 DEF LeagueSound
  <1> QED
    BY <1>2, <1>3 DEF x

LEMMA SubmitIs ==
    ASSUME AccountsAssumption, now \in Nat, NEW s, LeagueSound(s), NEW c \in F!Commands,
           c.action = "SUBMIT_WAIVER_CLAIM", NEW x \in F!SubmitWaiver(s, c)
    PROVE  /\ LeagueSound(x) /\ x.log = s.log /\ x.revision = s.revision
           /\ \A d \in x.claims \ s.claims : d.status = "PENDING"
  <1> DEFINE claim == [id |-> c.id, team |-> c.team, player |-> c.player, drop |-> c.drop,
                       slot |-> c.slot, at |-> c.at, submitted |-> now, status |-> "PENDING"]
             claims == s.claims \cup {claim}
  <1>1. claim \in Claims /\ claim.id = c.id /\ claim.status = "PENDING"
    BY DEF F!Commands, Claims
  <1>2. x = [s EXCEPT !.claims = claims] /\ \A d \in s.claims : d.id # c.id
    BY DEF F!SubmitWaiver
  <1> HIDE DEF claim
  <1>3. claims \subseteq Claims
    BY <1>1 DEF LeagueSound, Leagues
  <1>4. IsFiniteSet(claims)
    BY FS_AddElement DEF LeagueSound
  <1>5. IdsDiffer(claims)
    BY <1>1, <1>2 DEF LeagueSound, IdsDiffer
  <1> HIDE DEF claims
  <1>6. /\ LeagueSound(x) /\ x.claims = claims /\ x.log = s.log /\ x.revision = s.revision
    BY <1>2, <1>3, <1>4, <1>5, WithClaims
  <1> QED
    BY <1>1, <1>6 DEF claims

LEMMA CancelIs ==
    ASSUME NEW s, LeagueSound(s), NEW c \in F!Commands,
           c.action = "CANCEL_WAIVER_CLAIM", NEW x \in F!CancelWaiver(s, c)
    PROVE  /\ LeagueSound(x) /\ x.log = s.log /\ x.revision = s.revision
           /\ \A d \in x.claims \ s.claims : d.status = "CANCELLED"
  <1>1. PICK e \in s.claims : x = [s EXCEPT !.claims = (@ \ {e}) \cup {[e EXCEPT !.status = "CANCELLED"]}]
    BY DEF F!CancelWaiver
  <1> DEFINE f == [e EXCEPT !.status = "CANCELLED"]
             claims == (s.claims \ {e}) \cup {f}
  <1>2. /\ claims \subseteq Claims /\ IsFiniteSet(claims) /\ IdsDiffer(claims)
        /\ f.status = "CANCELLED"
    <2>1. s.claims \subseteq Claims /\ IsFiniteSet(s.claims) /\ IdsDiffer(s.claims)
      BY DEF LeagueSound, Leagues
    <2> QED
      BY <2>1, Restated
  <1>3. x = [s EXCEPT !.claims = claims]
    BY <1>1
  <1> HIDE DEF f
  <1>4. \A d \in claims \ s.claims : d.status = "CANCELLED"
    BY <1>2
  <1> HIDE DEF claims
  <1> QED
    BY <1>2, <1>3, <1>4, WithClaims

-----------------------------------------------------------------------------
(* The order of a batch *)

LEMMA RankIs ==
    ASSUME NEW s, LeagueSound(s), NEW t \in Teams
    PROVE  F!Rank(s.priority, t) \in Nat
  <1>1. F!Rank(s.priority, t) \in DOMAIN s.priority
    BY DEF F!Rank, LeagueSound, F!Covers
  <1>2. DOMAIN s.priority = 1 .. Cardinality(Teams)
    BY DEF LeagueSound, Leagues, Priorities
  <1> QED
    BY <1>1, <1>2

-----------------------------------------------------------------------------
(* Awards *)

\* An award moves players of one team only, once per instant.
Awarded(s, c, x) ==
    /\ s.owner[c.player] = Nothing /\ now > s.effective[c.team] /\ x.effective[c.team] = now
    /\ \A p \in Players : x.owner[p] = Nothing => s.owner[p] \in {Nothing, c.team}
    /\ \A u \in Teams \ {c.team} :
          /\ x.slots[u] = s.slots[u] /\ x.effective[u] = s.effective[u]
          /\ \A p \in Players : x.owner[p] = u <=> s.owner[p] = u

LEMMA AwardIs ==
    ASSUME AccountsAssumption, now \in Nat, NEW s, LeagueSound(s), NEW c \in Claims,
           NEW x \in F!Award(s, c)
    PROVE  LeagueSound(x) /\ SameBooks(s, x) /\ Awarded(s, c, x)
  <1> DEFINE owner == [p \in Players |-> CASE p = c.player -> c.team
                                           [] p = c.drop /\ p # c.player -> Nothing
                                           [] OTHER -> s.owner[p]]
             freed == IF c.drop = Nothing THEN s.slots[c.team] ELSE F!Without(s.slots[c.team], c.drop)
  <1>1. s \in Leagues /\ c.team \in Teams /\ c.player \in Players /\ c.slot \in F!Slots
    BY DEF LeagueSound, Claims
  <1>2. s.slots[c.team] \in F!Lineups /\ s.owner \in Owners
    BY <1>1 DEF Leagues
  <1>3. freed \in F!Lineups
    BY <1>2, WithoutIs
  <1>4. s.owner[c.player] = Nothing /\ (c.drop # Nothing => s.owner[c.drop] = c.team)
    BY DEF F!Award, F!Owned
  <1>5. PICK f \in F!Assign(freed, c.slot, c.player) : x \in F!Successor(s, owner, F!One(c.team, f))
    BY DEF F!Award
  <1>6. owner \in Owners
    BY <1>1, <1>2 DEF Owners
  <1>7. \A p \in Players : owner[p] = IF p = c.player THEN c.team
                                      ELSE IF p = c.drop THEN Nothing ELSE s.owner[p]
    OBVIOUS
  <1> HIDE DEF owner, freed
  <1>8. f \in F!Lineups
    BY <1>1, <1>3, AssignIs
  <1>9. /\ LeagueSound(x) /\ SameBooks(s, x) /\ x.owner = owner
        /\ F!ValidSnapshot(s, c.team, f, owner) /\ x.effective[c.team] = now
        /\ \A u \in Teams \ {c.team} : x.slots[u] = s.slots[u] /\ x.effective[u] = s.effective[u]
    BY <1>1, <1>5, <1>6, <1>8, OneTeam
  <1>10. now > s.effective[c.team]
    BY <1>9 DEF F!ValidSnapshot
  <1>11. Nothing \notin Teams \cup Players
    BY DEF AccountsAssumption, F!FantasyAssumption
  <1>12. ASSUME NEW p \in Players, x.owner[p] = Nothing PROVE s.owner[p] \in {Nothing, c.team}
    BY <1>1, <1>4, <1>7, <1>9, <1>11, <1>12
  <1>13. ASSUME NEW u \in Teams \ {c.team}, NEW p \in Players
         PROVE  x.owner[p] = u <=> s.owner[p] = u
    BY <1>4, <1>7, <1>9, <1>11
  <1> QED
    BY <1>4, <1>9, <1>10, <1>12, <1>13 DEF Awarded

\* Whether a claim can be awarded depends on the claimed player and on its own team.
LEMMA AwardDepends ==
    ASSUME AccountsAssumption, NEW s, NEW z, NEW c \in Claims, LeagueSound(s), LeagueSound(z),
           z.slots[c.team] = s.slots[c.team], z.effective[c.team] = s.effective[c.team],
           \A p \in Players : z.owner[p] = c.team <=> s.owner[p] = c.team,
           z.owner[c.player] = Nothing, F!Award(s, c) # {}
    PROVE  F!Award(z, c) # {}
  <1> DEFINE owner(y) == [p \in Players |-> CASE p = c.player -> c.team
                                              [] p = c.drop /\ p # c.player -> Nothing
                                              [] OTHER -> y.owner[p]]
             freed(y) == IF c.drop = Nothing THEN y.slots[c.team] ELSE F!Without(y.slots[c.team], c.drop)
  <1>1. /\ s.owner[c.player] = Nothing /\ (c.drop # Nothing => s.owner[c.drop] = c.team)
    BY DEF F!Award, F!Owned
  <1>2. c.team \in Teams /\ c.player \in Players /\ c.drop \in Players \cup {Nothing} /\ c.slot \in F!Slots
    BY DEF Claims
  <1>3. z.owner[c.player] = Nothing /\ (c.drop # Nothing => z.owner[c.drop] = c.team)
    BY <1>1, <1>2
  <1>4. PICK f \in F!Assign(freed(s), c.slot, c.player) :
               F!Successor(s, owner(s), F!One(c.team, f)) # {}
    BY DEF F!Award
  <1>5. freed(z) = freed(s)
    OBVIOUS
  <1>6. Nothing \notin Teams \cup Players
    BY DEF AccountsAssumption, F!FantasyAssumption
  <1>7. \A p \in Players : owner(z)[p] = c.team <=> owner(s)[p] = c.team
    BY <1>2, <1>6
  <1>8. F!ValidSnapshot(s, c.team, f, owner(s))
    BY <1>4, OneTeamExists
  <1>9. f \in F!Lineups
    <2>1. freed(s) \in F!Lineups
      BY <1>2, WithoutIs DEF LeagueSound, Leagues
    <2> QED
      BY <1>2, <1>4, <2>1, AssignIs
  <1>10. F!ValidSnapshot(z, c.team, f, owner(z))
    <2> HIDE DEF owner, freed
    <2>1. \A y \in F!Slots : f[y] # Nothing => f[y] \in Players
      BY <1>9 DEF F!Lineups
    <2> QED
      BY <1>7, <1>8, <2>1 DEF F!ValidSnapshot
  <1>11. F!Successor(z, owner(z), F!One(c.team, f)) # {}
    BY <1>10, OneTeamExists
  <1> DEFINE awards == {F!Successor(z, owner(z), F!One(c.team, g)) : g \in F!Assign(freed(z), c.slot, c.player)}
  <1>12. F!Award(z, c) = UNION awards
    BY <1>3 DEF F!Award, F!Owned
  <1>13. F!Successor(z, owner(z), F!One(c.team, f)) \in awards
    BY <1>4, <1>5
  <1> HIDE DEF awards, owner, freed
  <1> QED
    BY <1>11, <1>12, <1>13

LEMMA EndCovers ==
    ASSUME AccountsAssumption, NEW priority \in Priorities, F!Covers(priority), NEW t \in Teams
    PROVE  F!ToTheEnd(priority, t) \in Priorities /\ F!Covers(F!ToTheEnd(priority, t))
  <1> DEFINE n == Cardinality(Teams)
             k == F!Rank(priority, t)
             after == F!ToTheEnd(priority, t)
  <1>1. n \in Nat
    BY FS_CardinalityType, LeagueCardinality DEF AccountsAssumption, F!FantasyAssumption
  <1>2. Len(priority) = n /\ DOMAIN priority = 1 .. n
    BY <1>1 DEF Priorities
  <1>3. k \in 1 .. n /\ priority[k] = t
    BY <1>2 DEF F!Rank, F!Covers
  <1> HIDE DEF k, n
  <1>4. after = [i \in 1 .. n |-> IF i = n THEN t ELSE priority[IF i < k THEN i ELSE i + 1]]
    BY <1>2 DEF F!ToTheEnd, k
  <1> HIDE DEF after
  <1>5. after \in [1 .. n -> Teams]
    BY <1>1, <1>3, <1>4 DEF Priorities, n
  <1>6. ASSUME NEW u \in Teams PROVE \E i \in 1 .. n : after[i] = u
    <2>1. CASE u = t
      BY <1>1, <1>3, <1>4, <2>1
    <2>2. CASE u # t
      <3>1. PICK j \in 1 .. n : priority[j] = u
        BY <1>2 DEF F!Covers
      <3>2. j # k
        BY <1>3, <2>2, <3>1
      <3>3. CASE j < k
        BY <1>1, <1>3, <1>4, <3>1, <3>3
      <3>4. CASE j > k
        <4>1. j - 1 \in 1 .. n /\ j - 1 # n /\ ~(j - 1 < k) /\ (j - 1) + 1 = j
          BY <1>1, <1>3, <3>4
        <4> QED
          BY <1>4, <3>1, <4>1
      <3> QED
        BY <1>1, <1>3, <3>2, <3>3, <3>4
    <2> QED
      BY <2>1, <2>2
  <1> QED
    BY <1>5, <1>6 DEF Priorities, n, after, F!Covers

\* A claim that is resolved is applied or rejected.
LEMMA ResolveIs ==
    ASSUME AccountsAssumption, now \in Nat, NEW s, LeagueSound(s), NEW c \in s.claims
    PROVE  LET x == F!Resolve(s, c)
               settled(result) == (s.claims \ {c}) \cup {[c EXCEPT !.status = result]}
           IN  /\ LeagueSound(x) /\ x.log = s.log /\ x.revision = s.revision
               /\ F!Award(s, c) = {} =>
                     /\ x.claims = settled("REJECTED")
                     /\ x.slots = s.slots /\ x.owner = s.owner /\ x.effective = s.effective
               /\ F!Award(s, c) # {} => x.claims = settled("APPLIED") /\ Awarded(s, c, x)
  <1> DEFINE x == F!Resolve(s, c)
             settled(result) == (s.claims \ {c}) \cup {[c EXCEPT !.status = result]}
  <1>1. s.claims \subseteq Claims /\ IsFiniteSet(s.claims) /\ IdsDiffer(s.claims)
    BY DEF LeagueSound, Leagues
  <1>2. \A result \in {"APPLIED", "REJECTED"} :
            settled(result) \subseteq Claims /\ IsFiniteSet(settled(result)) /\ IdsDiffer(settled(result))
    BY <1>1, Restated
  <1>3. CASE F!Award(s, c) = {}
    <2> DEFINE claims == settled("REJECTED")
    <2>1. claims \subseteq Claims /\ IsFiniteSet(claims) /\ IdsDiffer(claims)
      BY <1>2
    <2>2. x = [s EXCEPT !.claims = claims]
      BY <1>3 DEF F!Resolve
    <2> HIDE DEF claims, x
    <2>3. /\ LeagueSound(x) /\ x.claims = claims /\ x.slots = s.slots /\ x.owner = s.owner
          /\ x.log = s.log /\ x.revision = s.revision /\ x.effective = s.effective
      BY <2>1, <2>2, WithClaims
    <2> QED
      BY <1>3, <2>3 DEF claims, x
  <1>4. CASE F!Award(s, c) # {}
    <2> DEFINE claims == settled("APPLIED")
               w == CHOOSE y \in F!Award(s, c) : TRUE
               priority == F!ToTheEnd(s.priority, c.team)
    <2>1. claims \subseteq Claims /\ IsFiniteSet(claims) /\ IdsDiffer(claims)
      BY <1>2
    <2>2. x = [w EXCEPT !.claims = claims, !.priority = priority]
      BY <1>4 DEF F!Resolve
    <2>3. w \in F!Award(s, c)
      BY <1>4
    <2> HIDE DEF claims, x, w
    <2>4. LeagueSound(w) /\ SameBooks(s, w) /\ Awarded(s, c, w)
      BY <1>1, <2>3, AwardIs
    <2>5. priority \in Priorities /\ F!Covers(priority)
      <3>1. c.team \in Teams /\ s.priority \in Priorities /\ F!Covers(s.priority)
        BY <1>1 DEF Claims, LeagueSound, Leagues
      <3> QED
        BY <3>1, EndCovers
    <2> HIDE DEF priority
    <2>6. w \in Leagues
      BY <2>4 DEF LeagueSound
    <2>7. /\ x \in Leagues /\ x.claims = claims /\ x.slots = w.slots /\ x.owner = w.owner
          /\ x.log = w.log /\ x.revision = w.revision /\ x.effective = w.effective
          /\ x.priority = priority
      BY <2>1, <2>2, <2>5, <2>6 DEF Leagues
    <2>8. LeagueSound(x)
      BY <2>1, <2>4, <2>5, <2>7 DEF LeagueSound
    <2>9. Awarded(s, c, x)
      BY <2>4, <2>7 DEF Awarded
    <2> QED
      BY <1>4, <2>4, <2>7, <2>8, <2>9 DEF claims, x, SameBooks
  <1> QED
    BY <1>3, <1>4

-----------------------------------------------------------------------------
(* A batch *)

BatchFirst(start) == start
BatchStep(start, batch, i) == F!ResolveNext(start, batch)
Claiming == INSTANCE Recursion WITH First <- BatchFirst, Step <- BatchStep

LEMMA BatchUnfolds ==
    ASSUME NEW start, NEW n \in Nat
    PROVE  /\ F!Batch(start, n)[0] = start
           /\ \A i \in 1 .. n : F!Batch(start, n)[i] = F!ResolveNext(start, F!Batch(start, n)[i - 1])
  <1>1. F!Batch(start, n) = Claiming!Upto(start, n)
    BY DEF F!Batch, Claiming!Upto, BatchFirst, BatchStep
  <1> QED
    BY <1>1, Claiming!UptoUnfolds DEF BatchFirst, BatchStep

\* Of claims that are open one comes first: by rank, then by instant, then by id.
LEMMA NextIs ==
    ASSUME NEW s, LeagueSound(s), NEW open, open \subseteq s.claims, open # {}
    PROVE  /\ F!NextClaim(s, open) \in open
           /\ \A d \in open \ {F!NextClaim(s, open)} : F!Before(s, F!NextClaim(s, open), d)
  <1> DEFINE rank(c) == F!Rank(s.priority, c.team)
             ranks == {rank(c) : c \in open}
  <1>1. \A c \in open : c.submitted \in Nat /\ c.id \in Nat /\ c.team \in Teams
    BY DEF LeagueSound, Leagues, Claims
  <1>2. \A c \in open : rank(c) \in Nat
    BY <1>1, RankIs
  <1> HIDE DEF rank
  <1>3. PICK a \in open : \A c \in open : rank(a) <= rank(c)
    <2>1. PICK m \in ranks : \A k \in ranks : m <= k
      <3>1. ranks \subseteq Nat /\ ranks # {}
        BY <1>2
      <3> HIDE DEF ranks
      <3> QED
        BY <3>1, Claiming!SmallestElement
    <2> QED
      BY <2>1
  <1> DEFINE first == {c \in open : rank(c) = rank(a)}
             instants == {c.submitted : c \in first}
  <1>4. PICK b \in first : \A c \in first : b.submitted <= c.submitted
    <2>1. PICK m \in instants : \A k \in instants : m <= k
      <3>1. instants \subseteq Nat /\ instants # {}
        BY <1>1
      <3> HIDE DEF instants
      <3> QED
        BY <3>1, Claiming!SmallestElement
    <2> QED
      BY <2>1
  <1> DEFINE earliest == {c \in first : c.submitted = b.submitted}
             ids == {c.id : c \in earliest}
  <1>5. PICK c \in earliest : \A d \in earliest : c.id <= d.id
    <2>1. PICK m \in ids : \A k \in ids : m <= k
      <3>1. ids \subseteq Nat /\ ids # {}
        BY <1>1
      <3> HIDE DEF ids
      <3> QED
        BY <3>1, Claiming!SmallestElement
    <2> QED
      BY <2>1
  <1>6. ASSUME NEW d \in open \ {c} PROVE F!Before(s, c, d)
    <2>1. c.id # d.id
      BY DEF LeagueSound, IdsDiffer
    <2>2. \/ rank(c) < rank(d)
          \/ rank(c) = rank(d) /\ (c.submitted < d.submitted \/ (c.submitted = d.submitted /\ c.id < d.id))
      BY <1>1, <1>2, <1>3, <1>4, <1>5, <2>1
    <2> QED
      BY <2>2 DEF F!Before, rank
  <1>7. c \in open /\ \A d \in open \ {c} : F!Before(s, c, d)
    BY <1>6
  <1> QED
    BY <1>7 DEF F!NextClaim

Won(e, z) == [e EXCEPT !.status = "APPLIED"] \in z.claims

\* What a batch has not moved of a team.
Untouched(s, z, t) ==
    /\ z.slots[t] = s.slots[t] /\ z.effective[t] = s.effective[t]
    /\ \A p \in Players : z.owner[p] = t <=> s.owner[p] = t

\* After i claims of a batch: those that are open are as they were, the others are applied
\* or rejected.  A team keeps its players, or has been awarded one and cannot be awarded
\* another; so a player that was free and is free has been free all the time.  A claim that
\* was not applied could not be awarded when it came, and an applied one came for a free player.
BatchSound(s, due, b, i) ==
    LET z    == b[i].state
        open == b[i].left
    IN  /\ open \subseteq due /\ Cardinality(open) = Cardinality(due) - i
        /\ LeagueSound(z) /\ z.log = s.log /\ z.revision = s.revision
        /\ open \subseteq z.claims
        /\ \A x \in z.claims : x \in s.claims \/ \E c \in due \ open :
              x = [c EXCEPT !.status = "APPLIED"] \/ x = [c EXCEPT !.status = "REJECTED"]
        /\ \A t \in Teams : \/ Untouched(s, z, t)
                            \/ z.effective[t] = now /\ \E e \in due : e.team = t /\ Won(e, z)
        /\ \A k \in 0 .. i : \A p \in Players :
              s.owner[p] = Nothing /\ z.owner[p] = Nothing => b[k].state.owner[p] = Nothing
        /\ \A k \in 0 .. i : \A e \in due : Won(e, b[k].state) => Won(e, z)
        /\ \A c \in due \ open : Won(c, z) \/ \E k \in 0 .. i - 1 :
              c \in b[k].left /\ F!Award(b[k].state, c) = {}
        /\ \A d \in due : Won(d, z) => \E k \in 0 .. i - 1 :
              /\ b[k].left # {} /\ d = F!NextClaim(s, b[k].left)
              /\ b[k].state.owner[d.player] = Nothing

\* Nothing pending is applied yet.
LEMMA PendingIsNotWon ==
    ASSUME NEW s, LeagueSound(s), NEW c \in s.claims, c.status # "APPLIED"
    PROVE  ~Won(c, s)
  <1>1. c \in Claims
    BY DEF LeagueSound, Leagues
  <1>2. [c EXCEPT !.status = "APPLIED"].id = c.id /\ [c EXCEPT !.status = "APPLIED"].status = "APPLIED"
    BY <1>1 DEF Claims
  <1> QED
    BY <1>2 DEF Won, LeagueSound, IdsDiffer

LEMMA BatchBegins ==
    ASSUME NEW s, LeagueSound(s), NEW at, NEW b,
           b[0] = [state |-> s, left |-> F!Due(s, at)]
    PROVE  BatchSound(s, F!Due(s, at), b, 0)
  <1> DEFINE due == F!Due(s, at)
  <1>1. b[0].state = s /\ b[0].left = due
    OBVIOUS
  <1>2. due \subseteq s.claims /\ \A c \in due : c.status = "PENDING"
    BY DEF F!Due
  <1>3. \A c \in due : ~Won(c, s)
    BY <1>2, PendingIsNotWon
  <1>4. IsFiniteSet(due)
    BY <1>2, FS_Subset DEF LeagueSound
  <1>5. Cardinality(due) \in Nat
    BY <1>4, FS_CardinalityType
  <1>6. \A t \in Teams : Untouched(s, s, t)
    BY DEF Untouched
  <1> HIDE DEF due
  <1>7. 0 .. 0 = {0} /\ 0 .. 0 - 1 = {}
    OBVIOUS
  <1> QED
    BY <1>1, <1>2, <1>3, <1>5, <1>6, <1>7 DEF BatchSound, due

LEMMA BatchContinues ==
    ASSUME AccountsAssumption, now \in Nat, NEW s, LeagueSound(s), NEW at, NEW b, NEW i \in Nat,
           i # 0, i - 1 < Cardinality(F!Due(s, at)), BatchSound(s, F!Due(s, at), b, i - 1),
           b[i] = F!ResolveNext([state |-> s, left |-> F!Due(s, at)], b[i - 1])
    PROVE  BatchSound(s, F!Due(s, at), b, i)
  <1> DEFINE due == F!Due(s, at)
             z == b[i - 1].state
             open == b[i - 1].left
             c == F!NextClaim(s, open)
             y == b[i].state
             after == b[i].left
  <1>1. due \subseteq s.claims /\ \A e \in due : e.status = "PENDING"
    BY DEF F!Due
  <1>2. IsFiniteSet(due) /\ Cardinality(due) \in Nat
    BY <1>1, FS_Subset, FS_CardinalityType DEF LeagueSound
  <1>3. y = F!Resolve(z, c) /\ after = open \ {c}
    BY DEF F!ResolveNext
  <1>4. /\ open \subseteq due /\ Cardinality(open) = Cardinality(due) - (i - 1)
        /\ LeagueSound(z) /\ z.log = s.log /\ z.revision = s.revision
        /\ open \subseteq z.claims
    BY DEF BatchSound
  <1>5. \A x \in z.claims : x \in s.claims \/ \E e \in due \ open :
              x = [e EXCEPT !.status = "APPLIED"] \/ x = [e EXCEPT !.status = "REJECTED"]
    BY DEF BatchSound
  <1>6. \A t \in Teams : \/ Untouched(s, z, t)
                         \/ z.effective[t] = now /\ \E e \in due : e.team = t /\ Won(e, z)
    BY DEF BatchSound
  <1>7. \A k \in 0 .. i - 1 : \A p \in Players :
              s.owner[p] = Nothing /\ z.owner[p] = Nothing => b[k].state.owner[p] = Nothing
    BY DEF BatchSound
  <1>8. \A k \in 0 .. i - 1 : \A e \in due : Won(e, b[k].state) => Won(e, z)
    BY DEF BatchSound
  <1>9. \A e \in due \ open : Won(e, z) \/ \E k \in 0 .. i - 1 - 1 :
              e \in b[k].left /\ F!Award(b[k].state, e) = {}
    BY DEF BatchSound
  <1>10. \A d \in due : Won(d, z) => \E k \in 0 .. i - 1 - 1 :
              /\ b[k].left # {} /\ d = F!NextClaim(s, b[k].left)
              /\ b[k].state.owner[d.player] = Nothing
    BY DEF BatchSound
  <1>11. IsFiniteSet(open) /\ open # {}
    BY <1>2, <1>4, FS_Subset, FS_EmptySet
  <1> HIDE DEF due, z, open, c, y, after
  <1>12. c \in open
    BY <1>1, <1>4, <1>11, NextIs DEF c
  <1>13. Cardinality(after) = Cardinality(due) - i
    <2>1. Cardinality(open \ {c}) = Cardinality(open) - 1
      BY <1>11, <1>12, FS_RemoveElement
    <2> QED
      BY <1>2, <1>3, <1>4, <2>1
  <1>14. c \in z.claims /\ c \in due /\ c \in s.claims /\ c.status = "PENDING" /\ c \in Claims
    BY <1>1, <1>4, <1>12 DEF LeagueSound, Leagues
  <1>15. c.team \in Teams /\ c.player \in Players
    BY <1>14 DEF Claims
  <1> DEFINE settled(result) == (z.claims \ {c}) \cup {[c EXCEPT !.status = result]}
  <1>16. LeagueSound(y) /\ y.log = z.log /\ y.revision = z.revision
    BY <1>3, <1>4, <1>14, ResolveIs
  <1>17. F!Award(z, c) = {} =>
            /\ y.claims = settled("REJECTED")
            /\ y.slots = z.slots /\ y.owner = z.owner /\ y.effective = z.effective
    BY <1>3, <1>4, <1>14, ResolveIs
  <1>18. F!Award(z, c) # {} => y.claims = settled("APPLIED") /\ Awarded(z, c, y)
    BY <1>3, <1>4, <1>14, ResolveIs
  <1>19. y.claims = settled("REJECTED") \/ y.claims = settled("APPLIED")
    BY <1>17, <1>18
  <1>20. after \subseteq y.claims
    BY <1>3, <1>4, <1>19
  <1>21. ASSUME NEW x \in y.claims
         PROVE  x \in s.claims \/ \E e \in due \ after :
                   x = [e EXCEPT !.status = "APPLIED"] \/ x = [e EXCEPT !.status = "REJECTED"]
    <2>1. x \in z.claims \/ x = [c EXCEPT !.status = "APPLIED"] \/ x = [c EXCEPT !.status = "REJECTED"]
      BY <1>19
    <2>2. c \in due \ after /\ due \ open \subseteq due \ after
      BY <1>3, <1>14
    <2> QED
      BY <1>5, <2>1, <2>2
  \* what was applied stays applied
  <1>22. ASSUME NEW e \in due, Won(e, z) PROVE Won(e, y)
    <2>1. e \in Claims
      BY <1>1 DEF LeagueSound, Leagues
    <2>2. [e EXCEPT !.status = "APPLIED"].status = "APPLIED"
      BY <2>1 DEF Claims
    <2>3. [e EXCEPT !.status = "APPLIED"] # c
      BY <1>14, <2>2
    <2> QED
      BY <1>19, <1>22, <2>3 DEF Won
  <1>23. F!Award(z, c) # {} => Won(c, y)
    BY <1>18 DEF Won
  <1>24. \A k \in 0 .. i : \A e \in due : Won(e, b[k].state) => Won(e, y)
    <2>1. \A k \in 0 .. i : k \in 0 .. i - 1 \/ k = i
      OBVIOUS
    <2> QED
      BY <1>8, <1>22, <2>1 DEF y
  \* the teams
  <1>25. Nothing \notin Teams
    BY DEF AccountsAssumption, F!FantasyAssumption
  <1>26. ASSUME NEW t \in Teams
         PROVE  \/ Untouched(s, y, t)
                \/ y.effective[t] = now /\ \E e \in due : e.team = t /\ Won(e, y)
    <2>1. CASE F!Award(z, c) = {}
      BY <1>6, <1>17, <1>22, <2>1 DEF Untouched
    <2>2. CASE F!Award(z, c) # {} /\ t = c.team
      BY <1>14, <1>18, <1>23, <2>2 DEF Awarded
    <2>3. CASE F!Award(z, c) # {} /\ t # c.team
      BY <1>6, <1>18, <1>22, <2>3 DEF Awarded, Untouched
    <2> QED
      BY <2>1, <2>2, <2>3
  \* the players
  <1>27. ASSUME NEW p \in Players, s.owner[p] = Nothing, y.owner[p] = Nothing
         PROVE  z.owner[p] = Nothing
    <2>1. CASE F!Award(z, c) = {}
      BY <1>17, <1>27, <2>1
    <2>2. CASE F!Award(z, c) # {}
      <3>1. z.owner[p] \in {Nothing, c.team} /\ now > z.effective[c.team]
        BY <1>18, <1>27, <2>2 DEF Awarded
      <3>2. z.effective[c.team] \in Int
        BY <1>4, <1>15 DEF LeagueSound, Leagues
      <3>3. Untouched(s, z, c.team)
        BY <1>6, <1>15, <3>1, <3>2
      <3>4. z.owner[p] # c.team
        BY <1>15, <1>25, <1>27, <3>3 DEF Untouched
      <3> QED
        BY <3>1, <3>4
    <2> QED
      BY <2>1, <2>2
  <1>28. \A k \in 0 .. i : \A p \in Players :
              s.owner[p] = Nothing /\ y.owner[p] = Nothing => b[k].state.owner[p] = Nothing
    <2>1. \A k \in 0 .. i : k \in 0 .. i - 1 \/ k = i
      OBVIOUS
    <2> QED
      BY <1>7, <1>27, <2>1 DEF y
  \* the claims that have come
  <1>29. 0 .. i - 1 - 1 \subseteq 0 .. i - 1 /\ i - 1 \in 0 .. i - 1
    OBVIOUS
  <1>30. ASSUME NEW e \in due \ after
         PROVE  Won(e, y) \/ \E k \in 0 .. i - 1 : e \in b[k].left /\ F!Award(b[k].state, e) = {}
    <2>1. CASE e = c
      <3>1. CASE F!Award(z, c) = {}
        BY <1>12, <1>29, <2>1, <3>1 DEF open, z
      <3>2. CASE F!Award(z, c) # {}
        BY <1>23, <2>1, <3>2
      <3> QED
        BY <3>1, <3>2
    <2>2. CASE e # c
      <3>1. e \in due \ open
        BY <1>3, <2>2
      <3> QED
        BY <1>9, <1>22, <1>29, <3>1
    <2> QED
      BY <2>1, <2>2
  <1>31. ASSUME NEW d \in due, Won(d, y)
         PROVE  \E k \in 0 .. i - 1 : /\ b[k].left # {} /\ d = F!NextClaim(s, b[k].left)
                                      /\ b[k].state.owner[d.player] = Nothing
    <2>1. CASE Won(d, z)
      BY <1>10, <1>29, <2>1
    <2>2. CASE ~Won(d, z)
      <3>1. d \in Claims /\ d.status = "PENDING"
        BY <1>1 DEF LeagueSound, Leagues
      <3>2. /\ [d EXCEPT !.status = "APPLIED"].status = "APPLIED"
            /\ [d EXCEPT !.status = "APPLIED"].id = d.id
        BY <3>1 DEF Claims
      <3>3. /\ [c EXCEPT !.status = "REJECTED"].status = "REJECTED"
            /\ [c EXCEPT !.status = "APPLIED"].id = c.id
        BY <1>14 DEF Claims
      <3>4. F!Award(z, c) # {} /\ [d EXCEPT !.status = "APPLIED"] = [c EXCEPT !.status = "APPLIED"]
        BY <1>17, <1>18, <1>31, <2>2, <3>2, <3>3 DEF Won
      <3>5. d.id = c.id
        BY <3>2, <3>3, <3>4
      <3>6. d = c
        BY <1>1, <1>14, <3>5 DEF LeagueSound, IdsDiffer
      <3>7. z.owner[c.player] = Nothing
        BY <1>18, <3>4 DEF Awarded
      <3> QED
        BY <1>11, <1>29, <3>6, <3>7 DEF c, open, z
    <2> QED
      BY <2>1, <2>2
  <1>32. after \subseteq due
    BY <1>3, <1>4
  <1> QED
    BY <1>4, <1>13, <1>16, <1>20, <1>21, <1>24, <1>26, <1>28, <1>30, <1>31, <1>32
    DEF BatchSound, due, y, after

\* A batch to its end.
LEMMA BatchHolds ==
    ASSUME AccountsAssumption, now \in Nat, NEW s, LeagueSound(s), NEW at
    PROVE  LET due == F!Due(s, at)
               n   == Cardinality(due)
               b   == F!Batch([state |-> s, left |-> due], n)
           IN  n \in Nat /\ (\A i \in 0 .. n : BatchSound(s, due, b, i)) /\ b[n].left = {}
  <1> DEFINE due == F!Due(s, at)
             n == Cardinality(due)
             start == [state |-> s, left |-> due]
             b == F!Batch(start, n)
             done == {i \in 0 .. n : BatchSound(s, due, b, i)}
  <1>1. due \subseteq s.claims /\ IsFiniteSet(due) /\ n \in Nat
    BY FS_Subset, FS_CardinalityType DEF F!Due, LeagueSound
  <1>2. b[0] = start /\ \A i \in 1 .. n : b[i] = F!ResolveNext(start, b[i - 1])
    BY <1>1, BatchUnfolds
  <1> HIDE DEF n, b
  <1>3. 0 \in done
    <2>1. BatchSound(s, due, b, 0)
      BY <1>2, BatchBegins
    <2> QED
      BY <1>1, <2>1
  <1>4. ASSUME NEW i \in 1 .. n, i - 1 \in done PROVE i \in done
    <2>1. BatchSound(s, due, b, i)
      <3>1. i \in Nat /\ i # 0 /\ i - 1 < Cardinality(due) /\ BatchSound(s, due, b, i - 1)
        BY <1>1, <1>4 DEF n
      <3> QED
        BY <1>2, <3>1, BatchContinues
    <2> QED
      BY <2>1
  <1> HIDE DEF done, due
  <1>5. 0 .. n \subseteq done
    BY <1>1, <1>3, <1>4, Claiming!InductionUpto
  <1>6. \A i \in 0 .. n : BatchSound(s, due, b, i)
    BY <1>5 DEF done
  <1>7. b[n].left = {}
    <2>1. BatchSound(s, due, b, n)
      BY <1>1, <1>6
    <2>2. b[n].left \subseteq due /\ Cardinality(b[n].left) = n - n
      BY <2>1 DEF BatchSound, n
    <2> QED
      BY <1>1, <2>2, FS_Subset, FS_EmptySet
  <1> QED
    BY <1>1, <1>6, <1>7 DEF due, n, b

LEMMA ProcessIs ==
    ASSUME AccountsAssumption, now \in Nat, NEW s, LeagueSound(s), NEW c, NEW x \in F!ProcessWaivers(s, c)
    PROVE  LeagueSound(x) /\ x.log = s.log /\ x.revision = s.revision
  <1> DEFINE due == F!Due(s, c.at)
             n == Cardinality(due)
             b == F!Batch([state |-> s, left |-> due], n)
  <1>1. x = b[n].state
    BY LeagueCardinality DEF F!ProcessWaivers
  <1>2. n \in Nat /\ BatchSound(s, due, b, n)
    BY BatchHolds
  <1> HIDE DEF b, n, due
  <1> QED
    BY <1>1, <1>2 DEF BatchSound

\* Among claims for one player, one that another passed could not be awarded at all, or its
\* team was awarded another player in the batch.
LEMMA BestOfBatch ==
    ASSUME AccountsAssumption, now \in Nat, NEW s, LeagueSound(s), NEW command,
           NEW x \in F!ProcessWaivers(s, command),
           NEW c \in s.claims, NEW d \in s.claims, c.status = "PENDING", d.status = "PENDING",
           Won(d, x), c.player = d.player, c.at = d.at,
           F!Rank(s.priority, c.team) < F!Rank(s.priority, d.team), F!Award(s, c) # {}
    PROVE  \E e \in s.claims : e.team = c.team /\ e.status = "PENDING" /\ Won(e, x)
  <1> DEFINE due == F!Due(s, command.at)
             n == Cardinality(due)
             b == F!Batch([state |-> s, left |-> due], n)
  <1>1. x = b[n].state
    BY LeagueCardinality DEF F!ProcessWaivers
  <1>2. n \in Nat /\ (\A i \in 0 .. n : BatchSound(s, due, b, i)) /\ b[n].left = {}
    BY BatchHolds
  <1>3. \A e \in due : e \in s.claims /\ e.status = "PENDING" /\ e.at = command.at
    BY DEF F!Due
  <1>4. \A e \in s.claims : e.status = "PENDING" /\ e.at = command.at => e \in due
    BY DEF F!Due
  <1> HIDE DEF b, n, due
  <1>5. c \in Claims /\ d \in Claims /\ s.claims \subseteq Claims
    BY DEF LeagueSound, Leagues
  <1>6. d \in due
    <2>1. [d EXCEPT !.status = "APPLIED"] \in b[n].state.claims
      BY <1>1 DEF Won
    <2>2. PICK e \in due : [d EXCEPT !.status = "APPLIED"] = [e EXCEPT !.status = "APPLIED"]
                           \/ [d EXCEPT !.status = "APPLIED"] = [e EXCEPT !.status = "REJECTED"]
      <3>1. [d EXCEPT !.status = "APPLIED"] \notin s.claims
        BY PendingIsNotWon DEF Won
      <3>2. BatchSound(s, due, b, n)
        BY <1>2
      <3> QED
        BY <2>1, <3>1, <3>2 DEF BatchSound
    <2>3. /\ [d EXCEPT !.status = "APPLIED"].id = d.id
          /\ [e EXCEPT !.status = "APPLIED"].id = e.id
          /\ [e EXCEPT !.status = "REJECTED"].id = e.id
      BY <1>3, <1>5 DEF Claims
    <2>4. d.id = e.id
      BY <2>2, <2>3
    <2> QED
      BY <1>3, <2>4 DEF LeagueSound, IdsDiffer
  <1>7. c \in due
    BY <1>3, <1>4, <1>6
  <1>8. PICK k \in 0 .. n - 1 : /\ b[k].left # {} /\ d = F!NextClaim(s, b[k].left)
                                /\ b[k].state.owner[d.player] = Nothing
    <2>1. BatchSound(s, due, b, n) /\ Won(d, b[n].state)
      BY <1>1, <1>2
    <2> QED
      BY <1>6, <2>1 DEF BatchSound
  <1>9. k \in 0 .. n /\ BatchSound(s, due, b, k)
    BY <1>2
  <1>10. c \notin b[k].left
    <2>1. b[k].left \subseteq s.claims
      BY <1>3, <1>9 DEF BatchSound
    <2>2. \A e \in b[k].left \ {d} : F!Before(s, d, e)
      BY <1>8, <2>1, NextIs
    <2>3. F!Rank(s.priority, c.team) \in Nat /\ F!Rank(s.priority, d.team) \in Nat /\ c # d
      <3>1. c.team \in Teams /\ d.team \in Teams
        BY <1>5 DEF Claims
      <3> QED
        BY <3>1, RankIs
    <2>4. ~F!Before(s, d, c)
      BY <2>3 DEF F!Before
    <2> QED
      BY <2>2, <2>3, <2>4
  <1>11. Won(c, b[k].state) \/ \E m \in 0 .. k - 1 : c \in b[m].left /\ F!Award(b[m].state, c) = {}
    BY <1>7, <1>9, <1>10 DEF BatchSound
  <1>12. ASSUME NEW m \in 0 .. n, NEW e \in due, Won(e, b[m].state) PROVE Won(e, x)
    <2>1. BatchSound(s, due, b, n)
      BY <1>2
    <2> QED
      BY <1>1, <1>12, <2>1 DEF BatchSound
  <1>13. CASE Won(c, b[k].state)
    BY <1>7, <1>9, <1>12, <1>13
  <1>14. ASSUME NEW m \in 0 .. k - 1, F!Award(b[m].state, c) = {}
         PROVE  \E e \in due : e.team = c.team /\ Won(e, b[m].state)
    <2>1. m \in 0 .. n /\ m \in 0 .. k /\ BatchSound(s, due, b, m)
      BY <1>2
    <2>2. LeagueSound(b[m].state)
      BY <2>1 DEF BatchSound
    <2>3. c.team \in Teams /\ c.player \in Players
      BY <1>5 DEF Claims
    <2>4. s.owner[c.player] = Nothing
      BY DEF F!Award, F!Owned
    <2>5. b[m].state.owner[c.player] = Nothing
      <3>1. b[k].state.owner[c.player] = Nothing
        BY <1>8
      <3> QED
        BY <1>9, <2>1, <2>3, <2>4, <3>1 DEF BatchSound
    <2>6. ~Untouched(s, b[m].state, c.team)
      BY <1>5, <1>14, <2>2, <2>5, AwardDepends DEF Untouched
    <2> QED
      BY <2>1, <2>3, <2>6 DEF BatchSound
  <1> QED
    <2>1. CASE ~Won(c, b[k].state)
      <3>1. PICK m \in 0 .. k - 1 : F!Award(b[m].state, c) = {}
        BY <1>11, <2>1
      <3>2. PICK e \in due : e.team = c.team /\ Won(e, b[m].state)
        BY <1>14, <3>1
      <3>3. m \in 0 .. n
        BY <1>2
      <3> QED
        BY <1>3, <1>12, <3>2, <3>3
    <2> QED
      BY <1>3, <1>13, <2>1

-----------------------------------------------------------------------------
(* Transactions *)

LEMMA MutateIs ==
    ASSUME AccountsAssumption, now \in Nat, NEW s, LeagueSound(s), NEW c \in F!Commands,
           NEW x \in F!Mutate(s, c)
    PROVE  /\ LeagueSound(x) /\ x.log = s.log /\ x.revision = s.revision
           /\ \A d \in s.claims : d.status = "PENDING" /\ Won(d, x) => x \in F!ProcessWaivers(s, c)
  <1>1. ASSUME NEW d \in s.claims, d.status = "PENDING", Won(d, x),
               \A e \in x.claims \ s.claims : e.status # "APPLIED"
        PROVE  FALSE
    <2>1. ~Won(d, s) /\ d \in Claims
      BY <1>1, PendingIsNotWon DEF LeagueSound, Leagues
    <2>2. [d EXCEPT !.status = "APPLIED"].status = "APPLIED"
      BY <2>1 DEF Claims
    <2> QED
      BY <1>1, <2>1, <2>2 DEF Won
  <1> DEFINE Goal == /\ LeagueSound(x) /\ x.log = s.log /\ x.revision = s.revision
                     /\ \A d \in s.claims : d.status = "PENDING" /\ Won(d, x)
                                               => x \in F!ProcessWaivers(s, c)
  <1>2. ASSUME LeagueSound(x), SameBooks(s, x) PROVE Goal
    BY <1>1, <1>2 DEF SameBooks
  <1>3. CASE c.action = "ADD_PLAYER"
    BY <1>2, <1>3, AddIs DEF F!Mutate
  <1>4. CASE c.action = "DROP_PLAYER"
    BY <1>2, <1>4, DropIs DEF F!Mutate
  <1>5. CASE c.action = "TRADE"
    BY <1>2, <1>5, TradeIs DEF F!Mutate
  <1>6. CASE c.action = "LINEUP_CHANGE"
    BY <1>2, <1>6, LineupIs DEF F!Mutate
  <1>7. CASE c.action = "SUBMIT_WAIVER_CLAIM"
    <2>1. /\ LeagueSound(x) /\ x.log = s.log /\ x.revision = s.revision
          /\ \A d \in x.claims \ s.claims : d.status = "PENDING"
      BY <1>7, SubmitIs DEF F!Mutate
    <2> QED
      BY <1>1, <2>1
  <1>8. CASE c.action = "CANCEL_WAIVER_CLAIM"
    <2>1. /\ LeagueSound(x) /\ x.log = s.log /\ x.revision = s.revision
          /\ \A d \in x.claims \ s.claims : d.status = "CANCELLED"
      BY <1>8, CancelIs DEF F!Mutate
    <2> QED
      BY <1>1, <2>1
  <1>9. CASE c.action = "PROCESS_WAIVERS"
    <2>1. x \in F!ProcessWaivers(s, c)
      BY <1>9 DEF F!Mutate
    <2> QED
      BY <2>1, ProcessIs
  <1>10. c.action \in {"ADD_PLAYER", "DROP_PLAYER", "TRADE", "LINEUP_CHANGE", "SUBMIT_WAIVER_CLAIM",
                       "CANCEL_WAIVER_CLAIM", "PROCESS_WAIVERS"}
    BY DEF F!Commands
  <1> QED
    BY <1>3, <1>4, <1>5, <1>6, <1>7, <1>8, <1>9, <1>10

\* A transaction appends its record, and is the command when it is accepted.
LEMMA ApplyIs ==
    ASSUME AccountsAssumption, now \in Nat, NEW s, LeagueSound(s), NEW r, r.command \in F!Commands
    PROVE  LET x == F!Apply(s, r)
           IN  /\ LeagueSound(x)
               /\ \/ /\ x.log = Append(s.log, F!Record(s, r, "DENIED")) /\ x.revision = s.revision
                     /\ x.claims = s.claims /\ x.slots = s.slots /\ x.owner = s.owner
                  \/ /\ x.log = Append(s.log, F!Record(s, r, "ACCEPTED")) /\ x.revision = s.revision + 1
                     /\ F!ProjectionsAgree(x.owner, x.slots)
                     /\ \E y \in F!Mutate(s, r.command) : x.claims = y.claims
  <1> DEFINE next == IF ~F!Expected(s, r) THEN {}
                     ELSE {y \in F!Mutate(s, r.command) : F!ProjectionsAgree(y.owner, y.slots)}
             x == F!Apply(s, r)
  <1>1. s \in Leagues
    BY DEF LeagueSound
  <1>2. s.revision \in Nat /\ s.log \in Seq(LeagueRecords)
    BY <1>1 DEF Leagues
  <1>3. F!Record(s, r, "DENIED") \in LeagueRecords /\ F!Record(s, r, "ACCEPTED") \in LeagueRecords
    BY <1>2 DEF F!Record, LeagueRecords
  <1> DEFINE denied == F!Record(s, r, "DENIED")
             accepted == F!Record(s, r, "ACCEPTED")
  <1> HIDE DEF denied, accepted
  <1>4. Append(s.log, denied) \in Seq(LeagueRecords) /\ Append(s.log, accepted) \in Seq(LeagueRecords)
    BY <1>2, <1>3 DEF denied, accepted
  <1>5. CASE next = {}
    <2>1. x = [s EXCEPT !.log = Append(s.log, denied)]
      BY <1>5 DEF F!Apply, denied
    <2> HIDE DEF x
    <2>2. /\ x \in Leagues /\ x.log = Append(s.log, denied) /\ x.revision = s.revision
          /\ x.claims = s.claims /\ x.slots = s.slots /\ x.owner = s.owner /\ x.priority = s.priority
      BY <1>1, <1>4, <2>1 DEF Leagues
    <2>3. LeagueSound(x)
      BY <2>2 DEF LeagueSound
    <2> QED
      BY <2>2, <2>3 DEF x, denied
  <1>6. CASE next # {}
    <2> DEFINE y == CHOOSE z \in next : TRUE
    <2>1. y \in F!Mutate(s, r.command) /\ F!ProjectionsAgree(y.owner, y.slots)
      BY <1>6
    <2>2. x = [y EXCEPT !.revision = @ + 1, !.log = Append(@, accepted)]
      BY <1>6 DEF F!Apply, accepted
    <2> HIDE DEF y, x, next
    <2>3. LeagueSound(y) /\ y.log = s.log /\ y.revision = s.revision
      BY <2>1, MutateIs
    <2>4. y \in Leagues
      BY <2>3 DEF LeagueSound
    <2>5. x = [y EXCEPT !.revision = s.revision + 1, !.log = Append(s.log, accepted)]
      BY <2>2, <2>3
    <2>6. /\ x \in Leagues /\ x.log = Append(s.log, accepted) /\ x.revision = s.revision + 1
          /\ x.claims = y.claims /\ x.slots = y.slots /\ x.owner = y.owner /\ x.priority = y.priority
      <3> DEFINE log == Append(s.log, accepted)
                 after == s.revision + 1
      <3>1. log \in Seq(LeagueRecords) /\ after \in Nat
        BY <1>2, <1>4
      <3>2. x = [y EXCEPT !.revision = after, !.log = log]
        BY <2>5
      <3> HIDE DEF log, after
      <3>3. /\ x \in Leagues /\ x.log = log /\ x.revision = after
            /\ x.claims = y.claims /\ x.slots = y.slots /\ x.owner = y.owner /\ x.priority = y.priority
        BY <2>4, <3>1, <3>2 DEF Leagues
      <3> QED
        BY <3>3 DEF log, after
    <2>7. LeagueSound(x)
      BY <2>3, <2>6 DEF LeagueSound
    <2> QED
      BY <2>1, <2>6, <2>7 DEF x, accepted
  <1> QED
    BY <1>5, <1>6

-----------------------------------------------------------------------------
(* The invariant of a league *)

LeagueInv ==
    /\ now \in Nat /\ LeagueSound(league) /\ F!ProjectionsAgree(league.owner, league.slots)
    /\ F!AppliedOnce
    /\ script \subseteq F!Commands /\ \A r \in requests : r.command \in F!Commands

LEMMA LeagueBegins == AccountsAssumption /\ F!FantasyInit => LeagueInv
  <1> SUFFICES ASSUME AccountsAssumption, F!FantasyInit PROVE LeagueInv
    OBVIOUS
  <1>1. F!FantasyAssumption
    BY DEF AccountsAssumption
  <1> DEFINE ts(p) == {t \in Teams : F!Slotted(StartSlots[t], p)}
             owner == [p \in Players |-> IF ts(p) = {} THEN Nothing ELSE CHOOSE t \in ts(p) : TRUE]
             effective == [t \in Teams |-> -1]
  <1>2. league = [revision |-> 0, slots |-> StartSlots, priority |-> FirstPriority, owner |-> owner,
                  effective |-> effective, claims |-> {}, log |-> <<>>]
    BY DEF F!FantasyInit
  <1>3. owner \in Owners /\ effective \in [Teams -> Int]
    BY DEF Owners
  <1>4. FirstPriority \in Priorities /\ F!Covers(FirstPriority) /\ StartSlots \in [Teams -> F!Lineups]
    BY <1>1, LeagueCardinality DEF F!FantasyAssumption, Priorities
  <1>5. F!ProjectionsAgree(owner, StartSlots)
    <2> SUFFICES ASSUME NEW p \in Players, NEW t \in Teams
                 PROVE  owner[p] = t <=> F!Slotted(StartSlots[t], p)
      BY DEF F!ProjectionsAgree
    <2>1. owner[p] = IF ts(p) = {} THEN Nothing ELSE CHOOSE u \in ts(p) : TRUE
      OBVIOUS
    <2>2. Nothing \notin Teams /\ p # Nothing
      BY <1>1 DEF F!FantasyAssumption
    <2>3. ASSUME NEW u \in ts(p), NEW w \in ts(p) PROVE u = w
      BY <1>1, <2>2 DEF F!FantasyAssumption, F!OncePerLeague, F!Slotted
    <2> HIDE DEF owner
    <2>4. CASE ts(p) = {}
      BY <2>1, <2>2, <2>4
    <2>5. CASE ts(p) # {}
      <3>1. owner[p] \in ts(p)
        BY <2>1, <2>5
      <3> QED
        BY <2>3, <3>1
    <2> QED
      BY <2>4, <2>5
  <1> HIDE DEF owner, effective
  <1>6. <<>> \in Seq(LeagueRecords) /\ DOMAIN <<>> = {}
    OBVIOUS
  <1>7. league \in Leagues
    BY <1>2, <1>3, <1>4, <1>6 DEF Leagues
  <1>8. OncePerTeam(StartSlots)
    BY <1>1 DEF F!FantasyAssumption, F!OncePerLeague, OncePerTeam
  <1>9. LeagueSound(league)
    BY <1>2, <1>4, <1>7, <1>8, FS_EmptySet DEF LeagueSound, IdsDiffer
  <1>10. F!AppliedOnce
    BY <1>2, <1>6 DEF F!AppliedOnce
  <1>11. now = 0 /\ script \in Scripts /\ requests = {}
    BY DEF F!FantasyInit
  <1> QED
    BY <1>1, <1>2, <1>5, <1>9, <1>10, <1>11 DEF LeagueInv, F!FantasyAssumption

\* An operation that was not known is recorded once, and takes the next revision if it is accepted.
LEMMA RecordedOnce ==
    ASSUME AccountsAssumption, LeagueInv, NEW r, r.command \in F!Commands, ~F!Known(r),
           NEW outcome \in {"ACCEPTED", "DENIED"},
           league'.log = Append(league.log, F!Record(league, r, outcome)),
           league'.revision = IF outcome = "ACCEPTED" THEN league.revision + 1 ELSE league.revision
    PROVE  F!AppliedOnce'
  <1> DEFINE rec == F!Record(league, r, outcome)
  <1>1. rec.operation = r.command /\ rec.outcome = outcome /\ rec.before = league.revision
    BY DEF F!Record
  <1>l. PICK log : log = league.log
    OBVIOUS
  <1>m. PICK now_log : now_log = league'.log
    OBVIOUS
  <1>2. log \in Seq(LeagueRecords) /\ league.revision \in Nat
    BY <1>l DEF LeagueInv, LeagueSound, Leagues
  <1>3. PICK n \in Nat : n = Len(log) /\ DOMAIN log = 1 .. n
    BY <1>2
  <1> HIDE DEF rec
  <1>4. /\ DOMAIN now_log = 1 .. n + 1 /\ now_log[n + 1] = rec
        /\ \A i \in 1 .. n : now_log[i] = log[i]
    BY <1>l, <1>m, <1>2, <1>3 DEF rec
  <1>5. \A i \in 1 .. n + 1 : i \in 1 .. n \/ i = n + 1
    BY <1>3
  <1>6. \A i \in 1 .. n : log[i].operation # r.command
    BY <1>l, <1>3 DEF F!Known
  <1> DEFINE accepted == {i \in DOMAIN log : log[i].outcome = "ACCEPTED"}
             after == {i \in DOMAIN now_log : now_log[i].outcome = "ACCEPTED"}
  <1>7. /\ \A i, j \in DOMAIN log : log[i].operation = log[j].operation => i = j
        /\ {log[i].before : i \in accepted} = 0 .. league.revision - 1
        /\ \A i, j \in accepted : i < j => log[i].before < log[j].before
    BY <1>l DEF LeagueInv, F!AppliedOnce
  <1>8. after = IF outcome = "ACCEPTED" THEN accepted \cup {n + 1} ELSE accepted
    <2>1. n + 1 \in DOMAIN now_log /\ n + 1 \notin DOMAIN log /\ DOMAIN log \subseteq DOMAIN now_log
      BY <1>3, <1>4
    <2>2. (n + 1 \in after) <=> outcome = "ACCEPTED"
      BY <1>1, <1>4, <2>1
    <2>3. \A i \in 1 .. n : i \in after <=> i \in accepted
      BY <1>3, <1>4, <2>1
    <2> QED
      BY <1>3, <1>4, <1>5, <2>1, <2>2, <2>3
  <1>9. \A i, j \in DOMAIN now_log : now_log[i].operation = now_log[j].operation => i = j
    BY <1>1, <1>3, <1>4, <1>5, <1>6, <1>7
  <1>10. \A i \in accepted : i \in 1 .. n /\ now_log[i] = log[i] /\ i < n + 1
    BY <1>3, <1>4
  <1> DEFINE taken == {now_log[i].before : i \in after}
  <1>11. CASE outcome = "DENIED"
    <2>1. after = accepted /\ league'.revision = league.revision
      BY <1>8, <1>11
    <2>2. taken = 0 .. league'.revision - 1
      BY <1>7, <1>10, <2>1
    <2> QED
      BY <1>m, <1>7, <1>9, <1>10, <2>1, <2>2, SMTT(20) DEF F!AppliedOnce
  <1>12. CASE outcome = "ACCEPTED"
    <2>1. after = accepted \cup {n + 1} /\ league'.revision = league.revision + 1
      BY <1>8, <1>12
    <2>2. \A i \in accepted : log[i].before \in 0 .. league.revision - 1
      BY <1>7
    <2>3. taken = {log[i].before : i \in accepted} \cup {league.revision}
      BY <1>1, <1>4, <1>10, <2>1
    <2>4. taken = 0 .. league'.revision - 1
      <3>1. taken = (0 .. league.revision - 1) \cup {league.revision}
        BY <1>7, <2>3
      <3>2. (0 .. league.revision - 1) \cup {league.revision} = 0 .. league'.revision - 1
        <4>1. league'.revision = league.revision + 1
          BY <2>1
        <4> QED
          BY <1>2, <4>1
      <3> QED
        BY <3>1, <3>2, Zenon
    <2>5. \A i, j \in after : i < j => now_log[i].before < now_log[j].before
      <3> SUFFICES ASSUME NEW i \in after, NEW j \in after, i < j
                   PROVE  now_log[i].before < now_log[j].before
        OBVIOUS
      <3>1. CASE i \in accepted /\ j \in accepted
        BY <1>7, <1>10, <3>1
      <3>2. CASE i \in accepted /\ j = n + 1
        BY <1>1, <1>2, <1>4, <1>10, <2>2, <3>2
      <3>3. i # n + 1
        BY <1>3, <1>4
      <3> QED
        BY <2>1, <3>1, <3>2, <3>3
    <2> QED
      BY <1>m, <1>9, <2>4, <2>5 DEF F!AppliedOnce
  <1> QED
    BY <1>11, <1>12

\* What the transaction of a delivered request does to the league.
LEMMA Delivered ==
    ASSUME AccountsAssumption, LeagueInv, NEW r \in requests, F!Deliver(r)
    PROVE  /\ LeagueSound(league') /\ r.command \in F!Commands /\ ~F!Known(r)
           /\ UNCHANGED <<now, script, requests>>
           /\ \/ /\ league'.log = Append(league.log, F!Record(league, r, "DENIED"))
                 /\ league'.revision = league.revision
                 /\ league'.claims = league.claims /\ league'.slots = league.slots
                 /\ league'.owner = league.owner
              \/ /\ league'.log = Append(league.log, F!Record(league, r, "ACCEPTED"))
                 /\ league'.revision = league.revision + 1
                 /\ F!ProjectionsAgree(league'.owner, league'.slots)
                 /\ \E y \in F!Mutate(league, r.command) : league'.claims = y.claims
  <1>1. /\ r.command \in F!Commands /\ now \in Nat /\ LeagueSound(league) /\ ~F!Known(r)
        /\ UNCHANGED <<now, script, requests>> /\ league' = F!Apply(league, r)
    BY DEF LeagueInv, F!Deliver
  <1> QED
    BY <1>1, ApplyIs

LEMMA LeagueKeeps ==
    ASSUME AccountsAssumption, LeagueInv, F!FantasyNext \/ UNCHANGED leagueVars
    PROVE  LeagueInv'
  <1> USE DEF LeagueInv
  <1>1. ASSUME NEW r \in requests, F!Deliver(r)
        PROVE  LeagueInv'
    <2>1. F!AppliedOnce'
      BY <1>1, Delivered, RecordedOnce
    <2>2. LeagueSound(league') /\ F!ProjectionsAgree(league'.owner, league'.slots)
          /\ UNCHANGED <<now, script, requests>>
      BY <1>1, Delivered
    <2>3. now' \in Nat /\ script' \subseteq F!Commands /\ \A q \in requests' : q.command \in F!Commands
      BY <2>2
    <2>4. LeagueSound(league)'
      BY <2>2 DEF LeagueSound, Leagues, LeagueRecords, Claims, F!Time
    <2>5. F!ProjectionsAgree(league.owner, league.slots)'
      BY <2>2
    <2> QED
      BY <2>1, <2>3, <2>4, <2>5
  <1>2. ASSUME now' \in Nat, UNCHANGED league, script' \subseteq F!Commands,
               \A q \in requests' : q.command \in F!Commands
        PROVE  LeagueInv'
    <2>1. LeagueSound(league)' /\ F!ProjectionsAgree(league.owner, league.slots)'
      BY <1>2 DEF LeagueSound, Leagues, LeagueRecords, Claims, F!Time
    <2>2. F!AppliedOnce'
      BY <1>2 DEF F!AppliedOnce
    <2> QED
      BY <1>2, <2>1, <2>2
  <1>3. ASSUME NEW c \in script, F!Send(c)
        PROVE  LeagueInv'
    <2>1. /\ UNCHANGED <<now, league>> /\ script' \subseteq script
          /\ requests' = requests \cup {[expected |-> league.revision, command |-> c]}
      BY <1>3 DEF F!Send
    <2>2. \A q \in requests' : q.command \in F!Commands
      BY <2>1
    <2> QED
      BY <1>2, <2>1, <2>2
  <1>4. ASSUME UNCHANGED <<league, script, requests>>, now' = now \/ now' = now + 1
        PROVE  LeagueInv'
    BY <1>2, <1>4
  <1>5. (\E to \in {"ACTIVE", "PAUSED", "ARCHIVED", "PENDING_DELETION"} : F!Control(to))
        \/ F!ReadRevision \/ F!WriteRevision \/ F!Tick \/ UNCHANGED leagueVars
        => UNCHANGED <<league, script, requests>> /\ (now' = now \/ now' = now + 1)
    BY DEF F!Control, F!ReadRevision, F!WriteRevision, F!Tick, leagueVars
  <1> QED
    BY <1>1, <1>3, <1>4, <1>5 DEF F!FantasyNext

LEMMA OneOwner ==
    ASSUME AccountsAssumption, LeagueInv
    PROVE  F!OwnershipAgrees /\ F!AppliedOnce
  <1>1. \A p \in Players : Cardinality({x \in Teams \X F!Slots : league.slots[x[1]][x[2]] = p}) <= 1
    BY OnePlace DEF LeagueInv
  <1> QED
    BY <1>1, LeagueCardinality DEF LeagueInv, F!OwnershipAgrees, F!ProjectionsAgree

-----------------------------------------------------------------------------
(* What a step of a league may not do *)

\* A better claim for the same player is passed over only when it could not be awarded, or
\* its team is awarded another player in the same batch.
LEMMA BestClaims ==
    ASSUME AccountsAssumption, LeagueInv, F!FantasyNext \/ UNCHANGED leagueVars,
           NEW c \in league.claims, NEW d \in league.claims, F!NewlyApplied(d),
           c.status = "PENDING", c.player = d.player, c.at = d.at,
           F!Rank(league.priority, c.team) < F!Rank(league.priority, d.team),
           F!Award(league, c) # {}
    PROVE  \E e \in league.claims : e.team = c.team /\ F!NewlyApplied(e)
  <1>1. LeagueSound(league) /\ now \in Nat /\ d.status = "PENDING" /\ Won(d, league')
    BY DEF LeagueInv, F!NewlyApplied, Won
  <1>2. league'.claims # league.claims
    BY <1>1, PendingIsNotWon DEF Won
  <1>3. league' # league
    BY <1>2
  <1>4. PICK r \in requests : F!Deliver(r)
    BY <1>3 DEF F!FantasyNext, F!Send, F!Control, F!ReadRevision, F!WriteRevision, F!Tick, leagueVars
  <1>5. r.command \in F!Commands
    BY <1>4, Delivered
  <1>6. PICK y \in F!Mutate(league, r.command) : league'.claims = y.claims
    BY <1>2, <1>4, Delivered
  <1>7. Won(d, y)
    BY <1>1, <1>6 DEF Won
  <1>8. y \in F!ProcessWaivers(league, r.command)
    BY <1>1, <1>5, <1>6, <1>7, MutateIs
  <1>9. PICK e \in league.claims : e.team = c.team /\ e.status = "PENDING" /\ Won(e, y)
    BY <1>1, <1>7, <1>8, BestOfBatch
  <1> QED
    BY <1>6, <1>9 DEF Won, F!NewlyApplied

LEMMA LeagueSteps ==
    ASSUME AccountsAssumption, LeagueInv, F!FantasyNext \/ UNCHANGED leagueVars
    PROVE  /\ \A c, d \in league.claims :
                 /\ F!NewlyApplied(d) /\ c.status = "PENDING" /\ c.player = d.player /\ c.at = d.at
                 /\ F!Rank(league.priority, c.team) < F!Rank(league.priority, d.team)
                 => F!Award(league, c) = {} \/ \E e \in league.claims : e.team = c.team /\ F!NewlyApplied(e)
           /\ revision' \in {revision, revision + 1}
           /\ league' # league \/ lifecycle' # lifecycle => revision' = revision + 1
  <1>1. revision' \in {revision, revision + 1}
    BY DEF F!FantasyNext, F!Send, F!Deliver, F!Control, F!ReadRevision, F!WriteRevision, F!NextRevision,
       F!Tick, leagueVars
  <1>2. league' # league \/ lifecycle' # lifecycle => revision' = revision + 1
    BY DEF F!FantasyNext, F!Send, F!Deliver, F!Control, F!ReadRevision, F!WriteRevision, F!Tick, leagueVars
  <1> QED
    BY <1>1, <1>2, BestClaims

-----------------------------------------------------------------------------
(* The invariant of fantasy results *)

Results == L!Sides \cup {"matchup", "standings"}
Statistics ==
    [availability : {"INCOMPLETE_GAME", "UNVERIFIED", "FINAL_VERIFIED", "CORRECTED_FINAL"}, points : Int]
Compared == [first : Nat, second : Nat]
Counted == [matchup : Nat, complete : BOOLEAN]
Origins == Compared \cup Counted \cup UNION {[1 .. Filled[t] -> Statistics] : t \in L!Sides}
Revisions ==
    [revision : Nat, status : {"FINAL", "IN_PROGRESS", "AWAITING_FINAL_DATA", "READY"},
     from : Origins, total : Int,
     outcome : {Nothing, "UNRESOLVED", "FIRST_WIN", "SECOND_WIN", "TIE"},
     evidence : SUBSET Nat, at : Nat, correction : BOOLEAN]
Holdings == [target : Results, result : Revisions]

ScoringTypes ==
    /\ instant \in Nat
    /\ source = [t \in L!Sides |-> source[t]]
    /\ \A t \in L!Sides : source[t] \in [1 .. Filled[t] -> Statistics]
    /\ results \in [Results -> Seq(Revisions)]
    /\ calculated \in [People -> Holdings \cup {Nothing}]

\* What a revision of a target rests on is stored; a final one rests on final ones.
Rests(target, r) ==
    /\ target = "matchup" =>
          /\ r.from \in Compared
          /\ r.from.first < Len(results[Higher]) /\ r.from.second < Len(results[Lower])
          /\ r.status = "FINAL" =>
                LET a == results[Higher][r.from.first + 1]
                    b == results[Lower][r.from.second + 1]
                IN  a.status = "FINAL" /\ b.status = "FINAL" /\ r.outcome = L!Outcome(a, b)
    /\ target = "standings" =>
          /\ r.from \in Counted /\ r.from.matchup < Len(results["matchup"])
          /\ r.status = "FINAL" => results["matchup"][r.from.matchup + 1].status = "FINAL"

\* A revision and the one before it.
Succeeds(target, old, new) ==
    /\ new.revision = old.revision + 1 /\ new.at > old.at
    /\ old.status = "FINAL" => new.status = "FINAL" /\ new.correction = (new.from # old.from)
    /\ target = "matchup" => old.from.first <= new.from.first /\ old.from.second <= new.from.second
    /\ target = "standings" => old.from.matchup <= new.from.matchup

\* What is held has been calculated from the newest revision, or is out of date.
Current(h) ==
    /\ h.result.revision <= Len(results[h.target])
    /\ h.result.revision = Len(results[h.target]) /\ results[h.target] # <<>> =>
          Succeeds(h.target, results[h.target][Len(results[h.target])], h.result)

ScoringInv ==
    /\ ScoringTypes
    /\ \A target \in Results : \A n \in 1 .. Len(results[target]) :
          /\ results[target][n].revision = n - 1
          /\ Rests(target, results[target][n])
          /\ n > 1 => Succeeds(target, results[target][n - 1], results[target][n])
    /\ \A p \in People : calculated[p] # Nothing =>
          Current(calculated[p]) /\ Rests(calculated[p].target, calculated[p].result)

LEMMA ScoringBegins == AccountsAssumption /\ L!ScoringInit => ScoringInv
  <1> SUFFICES ASSUME AccountsAssumption, L!ScoringInit PROVE ScoringInv
    OBVIOUS
  <1>1. L!ScoringAssumption
    BY DEF AccountsAssumption
  <1>2. \A target \in Results : results[target] = <<>>
    BY DEF L!ScoringInit, Results, L!Matchup, L!Standings
  <1>3. <<>> \in Seq(Revisions) /\ Len(<<>>) = 0
    OBVIOUS
  <1>4. results \in [Results -> Seq(Revisions)]
    BY <1>3 DEF L!ScoringInit, Results, L!Matchup, L!Standings
  <1>5. calculated \in [People -> Holdings \cup {Nothing}] /\ \A p \in People : calculated[p] = Nothing
    BY DEF L!ScoringInit
  <1>6. /\ source = [t \in L!Sides |-> source[t]]
        /\ \A t \in L!Sides : source[t] \in [1 .. Filled[t] -> Statistics]
    BY DEF L!ScoringInit, Statistics
  <1>7. instant \in Nat
    BY DEF L!ScoringInit
  <1> QED
    BY <1>2, <1>3, <1>4, <1>5, <1>6, <1>7 DEF ScoringInv, ScoringTypes

-----------------------------------------------------------------------------
(* What a publisher calculates *)

TotalFirst(t) == 0
TotalStep(t, total, n) == total + IF n \in L!Scored(t) THEN source[t][n].points ELSE 0
Adding == INSTANCE Recursion WITH First <- TotalFirst, Step <- TotalStep

LEMMA TotalIs ==
    ASSUME AccountsAssumption, ScoringTypes, NEW t \in L!Sides
    PROVE  L!Total(t) \in Int
  <1>1. Filled[t] \in Nat /\ source[t] \in [1 .. Filled[t] -> Statistics]
    BY DEF AccountsAssumption, L!ScoringAssumption, ScoringTypes
  <1> DEFINE total == Adding!Upto(t, Filled[t])
             done == {n \in 0 .. Filled[t] : total[n] \in Int}
  <1>2. L!Total(t) = total[Filled[t]]
    BY DEF L!Total, Adding!Upto, TotalFirst, TotalStep
  <1>3. /\ total[0] = 0
        /\ \A n \in 1 .. Filled[t] :
              total[n] = total[n - 1] + IF n \in L!Scored(t) THEN source[t][n].points ELSE 0
    BY <1>1, Adding!UptoUnfolds DEF TotalFirst, TotalStep
  <1> HIDE DEF total
  <1>4. 0 \in done
    BY <1>1, <1>3
  <1>5. ASSUME NEW n \in 1 .. Filled[t], n - 1 \in done PROVE n \in done
    <2>1. source[t][n].points \in Int
      BY <1>1 DEF Statistics
    <2> QED
      BY <1>1, <1>3, <1>5, <2>1
  <1> HIDE DEF done
  <1>6. 0 .. Filled[t] \subseteq done
    BY <1>1, <1>4, <1>5, Adding!InductionUpto
  <1>7. Filled[t] \in done
    BY <1>1, <1>6
  <1> QED
    BY <1>2, <1>7 DEF done

\* The newest revision is the last, and its number is one less than how many there are.
LEMMA NewestIs ==
    ASSUME ScoringInv, NEW target \in Results, results[target] # <<>>
    PROVE  /\ Len(results[target]) \in Nat \ {0}
           /\ L!Newest(target) = results[target][Len(results[target])]
           /\ L!Newest(target) \in Revisions
           /\ L!Newest(target).revision = Len(results[target]) - 1
           /\ Rests(target, L!Newest(target))
  <1>1. results[target] \in Seq(Revisions)
    BY DEF ScoringInv, ScoringTypes
  <1>2. Len(results[target]) \in Nat \ {0} /\ results[target][Len(results[target])] \in Revisions
    BY <1>1
  <1>3. L!Newest(target) = results[target][Len(results[target])]
    BY DEF L!Newest, L!Last
  <1>4. Len(results[target]) \in 1 .. Len(results[target])
    BY <1>2
  <1> QED
    BY <1>2, <1>3, <1>4 DEF ScoringInv

LEMMA ResultIs ==
    ASSUME ScoringInv, NEW target \in Results, NEW from \in Origins, NEW status, NEW total \in Int,
           NEW outcome, NEW evidence \in SUBSET Nat,
           status \in {"FINAL", "IN_PROGRESS", "AWAITING_FINAL_DATA", "READY"},
           outcome \in {Nothing, "UNRESOLVED", "FIRST_WIN", "SECOND_WIN", "TIE"},
           L!Follows(target, from, status),
           results[target] # <<>> /\ target = "matchup" =>
              L!Newest(target).from.first <= from.first /\ L!Newest(target).from.second <= from.second,
           results[target] # <<>> /\ target = "standings" => L!Newest(target).from.matchup <= from.matchup,
           NEW r, r = L!Result(target, status, from, total, outcome, evidence)
    PROVE  /\ r \in Revisions /\ r.from = from /\ r.status = status /\ r.outcome = outcome
           /\ Current([target |-> target, result |-> r])
  <1>1. /\ r.revision = L!Revision(target) /\ r.status = status /\ r.from = from /\ r.at = instant
        /\ r.outcome = outcome /\ r.correction = L!Correction(target, from)
    BY DEF L!Result
  <1>2. results[target] \in Seq(Revisions) /\ instant \in Nat
    BY DEF ScoringInv, ScoringTypes
  <1>3. L!Revision(target) = Len(results[target]) /\ L!Revision(target) \in Nat
    <2>1. CASE results[target] = <<>>
      BY <2>1 DEF L!Revision
    <2>2. CASE results[target] # <<>>
      BY <2>2, NewestIs DEF L!Revision
    <2> QED
      BY <2>1, <2>2
  <1>4. L!Correction(target, from) \in BOOLEAN
    BY DEF L!Correction
  <1>5. r \in Revisions
    BY <1>2, <1>3, <1>4 DEF L!Result, Revisions
  <1>6. ASSUME results[target] # <<>>
        PROVE  Succeeds(target, results[target][Len(results[target])], r)
    <2>1. /\ L!Newest(target) = results[target][Len(results[target])]
          /\ L!Newest(target).revision = Len(results[target]) - 1 /\ Len(results[target]) \in Nat
      BY <1>6, NewestIs
    <2>2. r.at > L!Newest(target).at /\ (L!Newest(target).status = "FINAL" => r.status = "FINAL")
      BY <1>1, <1>6 DEF L!Follows
    <2>3. L!Newest(target).status = "FINAL" => r.correction = (r.from # L!Newest(target).from)
      BY <1>1, <1>6 DEF L!Correction
    <2>4. r.revision = L!Newest(target).revision + 1
      BY <1>1, <1>3, <2>1
    <2> QED
      BY <1>1, <1>6, <2>1, <2>2, <2>3, <2>4 DEF Succeeds
  <1> DEFINE h == [target |-> target, result |-> r]
  <1>7. h.target = target /\ h.result = r
    OBVIOUS
  <1> HIDE DEF h
  <1>8. Current(h)
    BY <1>1, <1>2, <1>3, <1>6, <1>7 DEF Current
  <1> QED
    BY <1>1, <1>5, <1>8 DEF h

\* Nothing is appended: what is held stays as sound as it was.
LEMMA SameResults ==
    ASSUME ScoringInv, ScoringTypes', UNCHANGED <<results, stage>>,
           \A p \in People : \/ calculated'[p] \in {calculated[p], Nothing}
                             \/ Current(calculated'[p]) /\ Rests(calculated'[p].target, calculated'[p].result)
    PROVE  ScoringInv'
  <1>1. /\ \A h : Current(h) => Current(h)' 
        /\ \A target, r : Rests(target, r) => Rests(target, r)'
        /\ \A target, old, new : Succeeds(target, old, new) => Succeeds(target, old, new)'
    BY ZenonT(30) DEF Current, Rests, L!Outcome, Succeeds
  <1>2. ASSUME NEW target \in Results, NEW n \in 1 .. Len(results'[target])
        PROVE  /\ results'[target][n].revision = n - 1
               /\ Rests(target, results[target][n])'
               /\ n > 1 => Succeeds(target, results[target][n - 1], results[target][n])'
    BY <1>1, <1>2 DEF ScoringInv
  <1>3. ASSUME NEW p \in People, calculated'[p] # Nothing
        PROVE  Current(calculated[p])' /\ Rests(calculated[p].target, calculated[p].result)'
    <2>1. Current(calculated'[p]) /\ Rests(calculated'[p].target, calculated'[p].result)
      BY <1>3 DEF ScoringInv
    <2>2. PICK h : h = calculated'[p]
      OBVIOUS
    <2> QED
      BY <1>1, <2>1, <2>2
  <1> QED
    BY <1>2, <1>3 DEF ScoringInv

LEMMA HoldKeeps ==
    ASSUME ScoringInv, NEW p \in People, NEW target \in Results, NEW r \in Revisions,
           Current([target |-> target, result |-> r]), Rests(target, r), L!Hold(p, target, r)
    PROVE  ScoringInv'
  <1> DEFINE h == [target |-> target, result |-> r]
  <1>1. h \in Holdings /\ h.target = target /\ h.result = r
    BY DEF Holdings
  <1>2. /\ calculated' = [calculated EXCEPT ![p] = h]
        /\ UNCHANGED <<instant, stage, source, results>>
    BY DEF L!Hold
  <1>3. Current(h)
    OBVIOUS
  <1> HIDE DEF h
  <1>4. calculated \in [People -> Holdings \cup {Nothing}]
    BY DEF ScoringInv, ScoringTypes
  <1>5. calculated' \in [People -> Holdings \cup {Nothing}]
    BY <1>1, <1>2, <1>4
  <1>6. ScoringTypes'
    BY <1>2, <1>5 DEF ScoringInv, ScoringTypes
  <1>7. \A q \in People : calculated'[q] = calculated[q] \/ calculated'[q] = h
    BY <1>2, <1>4
  <1> QED
    BY <1>1, <1>2, <1>3, <1>6, <1>7, SameResults

LEMMA TeamKeeps ==
    ASSUME AccountsAssumption, ScoringInv, NEW p \in People, NEW t \in L!Sides, NEW finalize \in BOOLEAN,
           L!CalculateTeam(p, t, finalize)
    PROVE  ScoringInv'
  <1>1. PICK r : r = L!Result(t, L!TeamStatus(t, finalize), source[t], L!Total(t), Nothing, L!Scored(t))
    OBVIOUS
  <1>2. L!Follows(t, source[t], L!TeamStatus(t, finalize)) /\ L!Hold(p, t, r)
    BY <1>1 DEF L!CalculateTeam
  <1>3. t \in Results /\ t # "matchup" /\ t # "standings"
    BY DEF AccountsAssumption, L!ScoringAssumption, Results, L!Sides, L!Matchup, L!Standings
  <1>4. source[t] \in Origins /\ L!Scored(t) \in SUBSET Nat /\ L!Total(t) \in Int
    BY TotalIs DEF ScoringInv, ScoringTypes, Origins, L!Scored
  <1>5. L!TeamStatus(t, finalize) \in {"FINAL", "IN_PROGRESS", "AWAITING_FINAL_DATA", "READY"}
    BY DEF L!TeamStatus
  <1>6. r \in Revisions /\ Current([target |-> t, result |-> r])
    BY <1>1, <1>2, <1>3, <1>4, <1>5, ResultIs
  <1>7. Rests(t, r)
    BY <1>3 DEF Rests
  <1> QED
    BY <1>2, <1>3, <1>6, <1>7, HoldKeeps

LEMMA MatchupKeeps ==
    ASSUME AccountsAssumption, ScoringInv, NEW p \in People, L!CalculateMatchup(p)
    PROVE  ScoringInv'
  <1> DEFINE a == L!Newest(Higher)
             b == L!Newest(Lower)
             status == L!MatchupStatus(a, b)
             from == [first |-> a.revision, second |-> b.revision]
             outcome == IF status = "FINAL" THEN L!Outcome(a, b) ELSE "UNRESOLVED"
             evidence == a.evidence \cup b.evidence
  <1>1. PICK r : r = L!Result("matchup", status, from, 0, outcome, evidence)
    OBVIOUS
  <1>2. /\ results[Higher] # <<>> /\ results[Lower] # <<>>
        /\ L!Follows("matchup", from, status) /\ L!Hold(p, "matchup", r)
    BY <1>1 DEF L!CalculateMatchup, L!Matchup
  <1>3. Higher \in Results /\ Lower \in Results /\ "matchup" \in Results
    BY DEF Results, L!Sides
  <1>4. /\ Len(results[Higher]) \in Nat \ {0} /\ a = results[Higher][Len(results[Higher])]
        /\ a \in Revisions /\ a.revision = Len(results[Higher]) - 1
    BY <1>2, <1>3, NewestIs
  <1>5. /\ Len(results[Lower]) \in Nat \ {0} /\ b = results[Lower][Len(results[Lower])]
        /\ b \in Revisions /\ b.revision = Len(results[Lower]) - 1
    BY <1>2, <1>3, NewestIs
  <1> HIDE DEF a, b
  <1>6. status \in {"FINAL", "IN_PROGRESS"} /\ (status = "FINAL" => a.status = "FINAL" /\ b.status = "FINAL")
    BY DEF L!MatchupStatus
  <1>7. outcome \in {Nothing, "UNRESOLVED", "FIRST_WIN", "SECOND_WIN", "TIE"}
    BY DEF L!Outcome
  <1>8. /\ from \in Compared /\ from.first + 1 = Len(results[Higher])
        /\ from.second + 1 = Len(results[Lower])
    BY <1>4, <1>5 DEF Compared
  <1>9. evidence \in SUBSET Nat
    BY <1>4, <1>5 DEF Revisions
  <1>10. from \in Origins
    BY <1>8 DEF Origins
  <1> HIDE DEF status, from, outcome, evidence
  <1>11. results["matchup"] # <<>> =>
            L!Newest("matchup").from.first <= from.first /\ L!Newest("matchup").from.second <= from.second
    <2> SUFFICES ASSUME results["matchup"] # <<>>
                 PROVE  L!Newest("matchup").from.first <= from.first
                        /\ L!Newest("matchup").from.second <= from.second
      OBVIOUS
    <2>1. Rests("matchup", L!Newest("matchup"))
      BY <1>3, NewestIs
    <2> QED
      BY <1>4, <1>5, <1>8, <2>1 DEF Rests, Compared
  <1>12. /\ r \in Revisions /\ Current([target |-> "matchup", result |-> r])
         /\ r.from = from /\ r.status = status /\ r.outcome = outcome
    BY <1>1, <1>2, <1>3, <1>6, <1>7, <1>9, <1>10, <1>11, ResultIs
  <1>13. Rests("matchup", r)
    <2>1. status = "FINAL" => outcome = L!Outcome(a, b)
      BY DEF outcome
    <2>2. from.first < Len(results[Higher]) /\ from.second < Len(results[Lower])
      BY <1>4, <1>5, <1>8 DEF Compared
    <2>3. a = results[Higher][from.first + 1] /\ b = results[Lower][from.second + 1]
      BY <1>4, <1>5, <1>8
    <2> QED
      BY <1>6, <1>8, <1>12, <2>1, <2>2, <2>3 DEF Rests
  <1> QED
    BY <1>2, <1>3, <1>12, <1>13, HoldKeeps

LEMMA StandingsKeeps ==
    ASSUME AccountsAssumption, ScoringInv, NEW p \in People, NEW over \in BOOLEAN,
           L!CalculateStandings(p, over)
    PROVE  ScoringInv'
  <1> DEFINE m == L!Newest("matchup")
             status == IF over /\ m.status = "FINAL" THEN "FINAL" ELSE "IN_PROGRESS"
             from == [matchup |-> m.revision, complete |-> over]
  <1>1. PICK r : r = L!Result("standings", status, from, 0, m.outcome, m.evidence)
    OBVIOUS
  <1>2. /\ results["matchup"] # <<>>
        /\ L!Follows("standings", from, status) /\ L!Hold(p, "standings", r)
    BY <1>1 DEF L!CalculateStandings, L!Matchup, L!Standings
  <1>3. "matchup" \in Results /\ "standings" \in Results
    BY DEF Results
  <1>4. /\ Len(results["matchup"]) \in Nat \ {0} /\ m = results["matchup"][Len(results["matchup"])]
        /\ m \in Revisions /\ m.revision = Len(results["matchup"]) - 1
    BY <1>2, <1>3, NewestIs
  <1> HIDE DEF m
  <1>5. status \in {"FINAL", "IN_PROGRESS"} /\ (status = "FINAL" => m.status = "FINAL")
    OBVIOUS
  <1>6. from \in Counted /\ from.matchup + 1 = Len(results["matchup"])
    BY <1>4 DEF Counted
  <1>7. /\ m.evidence \in SUBSET Nat
        /\ m.outcome \in {Nothing, "UNRESOLVED", "FIRST_WIN", "SECOND_WIN", "TIE"}
    BY <1>4 DEF Revisions
  <1>8. from \in Origins
    BY <1>6 DEF Origins
  <1> HIDE DEF status, from
  <1>9. results["standings"] # <<>> => L!Newest("standings").from.matchup <= from.matchup
    <2> SUFFICES ASSUME results["standings"] # <<>>
                 PROVE  L!Newest("standings").from.matchup <= from.matchup
      OBVIOUS
    <2>1. Rests("standings", L!Newest("standings"))
      BY <1>3, NewestIs
    <2> QED
      BY <1>4, <1>6, <2>1 DEF Rests, Counted
  <1>10. /\ r \in Revisions /\ Current([target |-> "standings", result |-> r])
         /\ r.from = from /\ r.status = status
    BY <1>1, <1>2, <1>3, <1>5, <1>7, <1>8, <1>9, ResultIs
  <1>11. Rests("standings", r)
    <2>1. from.matchup < Len(results["matchup"]) /\ m = results["matchup"][from.matchup + 1]
      BY <1>4, <1>6 DEF Counted
    <2> QED
      BY <1>5, <1>6, <1>10, <2>1 DEF Rests
  <1> QED
    BY <1>2, <1>3, <1>10, <1>11, HoldKeeps

-----------------------------------------------------------------------------
(* What is stored *)

LEMMA AppendKeeps ==
    ASSUME AccountsAssumption, ScoringInv, NEW p \in People, L!AppendResult(p)
    PROVE  ScoringInv'
  <1>1. PICK target, r : target = calculated[p].target /\ r = calculated[p].result
    OBVIOUS
  <1>2. /\ calculated[p] # Nothing /\ Len(results[target]) = r.revision
        /\ results' = [results EXCEPT ![target] = Append(@, r)]
        /\ calculated' = [calculated EXCEPT ![p] = Nothing]
        /\ UNCHANGED <<instant, stage, source>>
    BY <1>1 DEF L!AppendResult, L!Appendable
  <1>3. /\ results \in [Results -> Seq(Revisions)] /\ calculated \in [People -> Holdings \cup {Nothing}]
        /\ calculated[p] \in Holdings
    BY <1>2 DEF ScoringInv, ScoringTypes
  <1>4. target \in Results /\ r \in Revisions
    BY <1>1, <1>3 DEF Holdings
  <1>5. /\ Current(calculated[p]) /\ Rests(target, r)
    BY <1>1, <1>2 DEF ScoringInv
  <1>6. PICK n \in Nat : n = Len(results[target])
    BY <1>3, <1>4
  <1>7. Append(results[target], r) \in Seq(Revisions)
    BY <1>3, <1>4
  <1>8. results' \in [Results -> Seq(Revisions)]
    BY <1>2, <1>3, <1>4, <1>7
  <1>9. calculated' \in [People -> Holdings \cup {Nothing}]
    BY <1>2, <1>3
  <1>10. ScoringTypes'
    BY <1>2, <1>8, <1>9 DEF ScoringInv, ScoringTypes
  <1>11. /\ Len(results'[target]) = n + 1 /\ results'[target][n + 1] = r
         /\ \A k \in 1 .. n : results'[target][k] = results[target][k]
    BY <1>2, <1>3, <1>4, <1>6
  <1>12. \A other \in Results : other # target => results'[other] = results[other]
    BY <1>2, <1>3
  <1>13. ASSUME NEW x \in Results
         PROVE  /\ Len(results[x]) \in Nat /\ Len(results[x]) <= Len(results'[x])
                /\ \A k \in 1 .. Len(results[x]) : results'[x][k] = results[x][k]
    <2>1. Len(results[x]) \in Nat
      BY <1>3
    <2>2. CASE x = target
      BY <1>6, <1>11, <2>1, <2>2
    <2>3. CASE x # target
      BY <1>12, <2>1, <2>3
    <2> QED
      BY <2>1, <2>2, <2>3
  <1>14. Higher \in Results /\ Lower \in Results /\ "matchup" \in Results
    BY DEF Results, L!Sides
  <1>15. ASSUME NEW x, NEW y, Rests(x, y) PROVE Rests(x, y)'
    <2>1. CASE x = "matchup"
      <3>1. /\ y.from \in Compared
            /\ y.from.first < Len(results[Higher]) /\ y.from.second < Len(results[Lower])
        BY <1>15, <2>1 DEF Rests
      <3>2. y.from.first + 1 \in 1 .. Len(results[Higher]) /\ y.from.second + 1 \in 1 .. Len(results[Lower])
        BY <1>13, <1>14, <3>1 DEF Compared
      <3>3. /\ results'[Higher][y.from.first + 1] = results[Higher][y.from.first + 1]
            /\ results'[Lower][y.from.second + 1] = results[Lower][y.from.second + 1]
        BY <1>13, <1>14, <3>2
      <3>4. y.from.first < Len(results'[Higher]) /\ y.from.second < Len(results'[Lower])
        <4>1. /\ Len(results[Higher]) \in Nat /\ Len(results'[Higher]) \in Nat
              /\ Len(results[Lower]) \in Nat /\ Len(results'[Lower]) \in Nat
          BY <1>3, <1>8, <1>14
        <4>2. Len(results[Higher]) <= Len(results'[Higher]) /\ Len(results[Lower]) <= Len(results'[Lower])
          BY <1>13, <1>14
        <4> QED
          BY <3>1, <4>1, <4>2 DEF Compared
      <3> QED
        BY <1>2, <1>15, <2>1, <3>1, <3>3, <3>4 DEF Rests, L!Outcome
    <2>2. CASE x = "standings"
      <3>1. y.from \in Counted /\ y.from.matchup < Len(results["matchup"])
        BY <1>15, <2>2 DEF Rests
      <3>2. y.from.matchup + 1 \in 1 .. Len(results["matchup"])
        BY <1>13, <1>14, <3>1 DEF Counted
      <3>3. results'["matchup"][y.from.matchup + 1] = results["matchup"][y.from.matchup + 1]
        BY <1>13, <1>14, <3>2
      <3>4. y.from.matchup < Len(results'["matchup"])
        <4>1. Len(results["matchup"]) \in Nat /\ Len(results'["matchup"]) \in Nat
          BY <1>3, <1>8, <1>14
        <4>2. Len(results["matchup"]) <= Len(results'["matchup"])
          BY <1>13, <1>14
        <4> QED
          BY <3>1, <4>1, <4>2 DEF Counted
      <3> QED
        BY <1>15, <2>2, <3>1, <3>3, <3>4 DEF Rests
    <2>3. CASE x # "matchup" /\ x # "standings"
      BY <2>3 DEF Rests
    <2> QED
      BY <2>1, <2>2, <2>3
  <1>16. n > 0 => Succeeds(target, results[target][n], r)
    <2>1. n > 0 => results[target] # <<>>
      BY <1>6
    <2> QED
      BY <1>1, <1>2, <1>5, <1>6, <2>1 DEF Current
  <1>17. \A x, y, z : Succeeds(x, y, z) => Succeeds(x, y, z)'
    BY DEF Succeeds
  <1>18. ASSUME NEW x \in Results, NEW k \in 1 .. Len(results'[x])
         PROVE  /\ results'[x][k].revision = k - 1
                /\ Rests(x, results[x][k])'
                /\ k > 1 => Succeeds(x, results[x][k - 1], results[x][k])'
    <2>1. PICK y : y = results'[x][k]
      OBVIOUS
    <2>2. PICK z : z = results'[x][k - 1]
      OBVIOUS
    <2>3. y.revision = k - 1 /\ Rests(x, y) /\ (k > 1 => Succeeds(x, z, y))
      <3>1. CASE k \in 1 .. Len(results[x])
        <4>1. y = results[x][k] /\ (k > 1 => z = results[x][k - 1])
          BY <1>13, <2>1, <2>2, <3>1
        <4> QED
          BY <3>1, <4>1 DEF ScoringInv
      <3>2. CASE k \notin 1 .. Len(results[x])
        <4>1. x = target /\ k = n + 1
          BY <1>6, <1>11, <1>12, <1>18, <3>2
        <4>2. y = r /\ (k > 1 => z = results[target][n])
          BY <1>11, <2>1, <2>2, <4>1
        <4> QED
          BY <1>2, <1>5, <1>6, <1>16, <4>1, <4>2
      <3> QED
        BY <3>1, <3>2
    <2> QED
      BY <1>15, <1>17, <2>1, <2>2, <2>3
  <1>19. ASSUME NEW q \in People, calculated'[q] # Nothing
         PROVE  Current(calculated[q])' /\ Rests(calculated[q].target, calculated[q].result)'
    <2>1. PICK h : h = calculated'[q]
      OBVIOUS
    <2>2. q # p /\ h = calculated[q] /\ h \in Holdings
      BY <1>2, <1>3, <1>19, <2>1
    <2>3. Current(h) /\ Rests(h.target, h.result)
      BY <1>19, <2>1, <2>2 DEF ScoringInv
    <2>4. h.target \in Results /\ h.result.revision \in Nat
      BY <2>2 DEF Holdings, Revisions
    <2>5. ASSUME h.target = target PROVE Current(h)'
      BY <1>6, <1>11, <2>3, <2>4, <2>5 DEF Current
    <2>6. ASSUME h.target # target PROVE Current(h)'
      <3>1. results'[h.target] = results[h.target]
        BY <1>12, <2>4, <2>6
      <3> QED
        BY <1>17, <2>3, <3>1 DEF Current
    <2>7. Current(h)'
      BY <2>5, <2>6
    <2>8. Rests(h.target, h.result)'
      BY <1>15, <2>3
    <2> QED
      BY <2>1, <2>7, <2>8
  <1> QED
    BY <1>10, <1>18, <1>19 DEF ScoringInv

LEMMA StatisticsKeep ==
    ASSUME AccountsAssumption, ScoringInv, NEW t \in L!Sides, NEW s \in 1 .. Filled[t],
           NEW to \in L!Final \cup {"UNVERIFIED"}, NEW n \in Points, L!StatisticsChange(t, s, to, n)
    PROVE  ScoringInv'
  <1> DEFINE new == [availability |-> to, points |-> n]
  <1>1. /\ source' = [source EXCEPT ![t][s] = new]
        /\ UNCHANGED <<instant, stage, results, calculated>>
    BY DEF L!StatisticsChange
  <1>2. new \in Statistics
    BY DEF Statistics, L!Final, AccountsAssumption, L!ScoringAssumption
  <1> HIDE DEF new
  <1>3. /\ source = [u \in L!Sides |-> source[u]]
        /\ \A u \in L!Sides : source[u] \in [1 .. Filled[u] -> Statistics]
    BY DEF ScoringInv, ScoringTypes
  <1>4. source' = [u \in L!Sides |-> IF u = t THEN [source[t] EXCEPT ![s] = new] ELSE source[u]]
    BY <1>1, <1>3
  <1>5. [source[t] EXCEPT ![s] = new] \in [1 .. Filled[t] -> Statistics]
    BY <1>2, <1>3
  <1>6. /\ source' = [u \in L!Sides |-> source'[u]]
        /\ \A u \in L!Sides : source'[u] \in [1 .. Filled[u] -> Statistics]
    BY <1>3, <1>4, <1>5
  <1>7. ScoringTypes'
    BY <1>1, <1>6 DEF ScoringInv, ScoringTypes
  <1> QED
    BY <1>1, <1>7, SameResults

LEMMA ScoringKeeps ==
    ASSUME AccountsAssumption, ScoringInv, L!ScoringNext \/ UNCHANGED scoringVars
    PROVE  ScoringInv'
  <1>1. ASSUME UNCHANGED <<stage, source, results>>, instant' = instant \/ instant' = instant + 1,
               calculated' \in [People -> Holdings \cup {Nothing}],
               \A p \in People : calculated'[p] \in {calculated[p], Nothing}
        PROVE  ScoringInv'
    <2>1. ScoringTypes'
      BY <1>1 DEF ScoringInv, ScoringTypes
    <2> QED
      BY <1>1, <2>1, SameResults
  <1>2. calculated \in [People -> Holdings \cup {Nothing}]
    BY DEF ScoringInv, ScoringTypes
  <1>3. ASSUME NEW p \in People, L!RefuseResult(p) PROVE ScoringInv'
    <2>1. /\ calculated' = [calculated EXCEPT ![p] = Nothing]
          /\ UNCHANGED <<instant, stage, source, results>>
      BY <1>3 DEF L!RefuseResult
    <2>2. /\ calculated' \in [People -> Holdings \cup {Nothing}]
          /\ \A q \in People : calculated'[q] \in {calculated[q], Nothing}
      BY <1>2, <2>1
    <2> QED
      BY <1>1, <2>1, <2>2
  <1>4. L!InstantPasses \/ UNCHANGED scoringVars =>
            /\ UNCHANGED <<stage, source, results, calculated>>
            /\ instant' = instant \/ instant' = instant + 1
    BY DEF L!InstantPasses, scoringVars
  <1>5. L!InstantPasses \/ UNCHANGED scoringVars => ScoringInv'
    BY <1>1, <1>2, <1>4
  <1> QED
    BY <1>3, <1>5, TeamKeeps, MatchupKeeps, StandingsKeeps, AppendKeeps, StatisticsKeep DEF L!ScoringNext

\* The revisions of a target are a history, and what is final rests on what is final.
LEMMA ResultsSound ==
    ASSUME AccountsAssumption, ScoringInv
    PROVE  L!ResultsAreHistory /\ L!FinalRestsOnFinal
  <1>1. /\ results \in [Results -> Seq(Revisions)]
        /\ Higher \in Results /\ Lower \in Results /\ "matchup" \in Results /\ "standings" \in Results
    BY DEF ScoringInv, ScoringTypes, Results, L!Sides
  <1>2. ASSUME NEW target \in Results, NEW n \in 1 .. Len(results[target]) - 1
        PROVE  /\ results[target][n + 1].revision = n
               /\ Succeeds(target, results[target][n], results[target][n + 1])
    <2>1. Len(results[target]) \in Nat
      BY <1>1
    <2>2. n + 1 \in 1 .. Len(results[target]) /\ n + 1 > 1 /\ n + 1 - 1 = n
      BY <2>1
    <2> QED
      BY <2>2 DEF ScoringInv
  <1>3. L!ResultsAreHistory
    BY <1>1, <1>2 DEF L!ResultsAreHistory, Succeeds, L!Matchup, L!Standings
  <1>4. ASSUME NEW r \in L!ToSet(results["matchup"]), r.status = "FINAL"
        PROVE  LET a == results[Higher][r.from.first + 1]
                   b == results[Lower][r.from.second + 1]
               IN  /\ a.status = "FINAL" /\ b.status = "FINAL"
                   /\ (r.outcome = "SECOND_WIN") = (a.total < b.total)
                   /\ (r.outcome = "TIE") = (a.total = b.total /\ stage = "REGULAR_SEASON")
    <2>1. PICK n \in 1 .. Len(results["matchup"]) : r = results["matchup"][n]
      <3>1. PICK n \in DOMAIN results["matchup"] : r = results["matchup"][n]
        BY DEF L!ToSet
      <3>2. results["matchup"] \in Seq(Revisions)
        BY <1>1
      <3>3. DOMAIN results["matchup"] = 1 .. Len(results["matchup"])
        BY <3>2
      <3> QED
        BY <3>1, <3>3
    <2>2. Rests("matchup", r)
      BY <1>1, <2>1 DEF ScoringInv
    <2> DEFINE a == results[Higher][r.from.first + 1]
               b == results[Lower][r.from.second + 1]
    <2>3. a.status = "FINAL" /\ b.status = "FINAL" /\ r.outcome = L!Outcome(a, b)
      BY <1>4, <2>2 DEF Rests
    <2>4. a \in Revisions /\ b \in Revisions
      <3>1. /\ Len(results[Higher]) \in Nat /\ Len(results[Lower]) \in Nat
            /\ r.from.first \in Nat /\ r.from.second \in Nat
            /\ r.from.first < Len(results[Higher]) /\ r.from.second < Len(results[Lower])
        BY <1>1, <2>2 DEF Rests, Compared
      <3>2. r.from.first + 1 \in 1 .. Len(results[Higher]) /\ r.from.second + 1 \in 1 .. Len(results[Lower])
        BY <3>1
      <3> QED
        BY <1>1, <3>2
    <2> HIDE DEF a, b
    <2>5. a.total \in Int /\ b.total \in Int
      BY <2>4 DEF Revisions
    <2>6. /\ (r.outcome = "SECOND_WIN") = (a.total < b.total)
          /\ (r.outcome = "TIE") = (a.total = b.total /\ stage = "REGULAR_SEASON")
      BY <2>3, <2>5 DEF L!Outcome
    <2> QED
      BY <2>3, <2>6 DEF a, b
  <1>5. ASSUME NEW r \in L!ToSet(results["standings"]), r.status = "FINAL"
        PROVE  results["matchup"][r.from.matchup + 1].status = "FINAL"
    <2>1. PICK n \in 1 .. Len(results["standings"]) : r = results["standings"][n]
      <3>1. PICK n \in DOMAIN results["standings"] : r = results["standings"][n]
        BY DEF L!ToSet
      <3>2. results["standings"] \in Seq(Revisions)
        BY <1>1
      <3>3. DOMAIN results["standings"] = 1 .. Len(results["standings"])
        BY <3>2
      <3> QED
        BY <3>1, <3>3
    <2> QED
      BY <1>1, <1>5, <2>1 DEF ScoringInv, Rests
  <1> QED
    BY <1>3, <1>4, <1>5 DEF L!FinalRestsOnFinal, L!Matchup, L!Standings

-----------------------------------------------------------------------------
(* What an account and its leagues keep *)

AccountsInv ==
    /\ PrivacyInv /\ LeagueInv /\ ScoringInv /\ AdministrationInv /\ LineupInv
    /\ part = "setup" => SetupInv

\* The parts share no state: a step of another part leaves an invariant alone.
LEMMA PartsKeep ==
    /\ PrivacyInv /\ UNCHANGED privacyVars => PrivacyInv'
    /\ AdministrationInv /\ UNCHANGED discordVars => AdministrationInv'
    /\ LineupInv /\ UNCHANGED setupVars => LineupInv'
    /\ SetupInv /\ UNCHANGED setupVars => SetupInv'
  <1>1. PrivacyInv /\ UNCHANGED privacyVars => PrivacyInv'
    BY DEF PrivacyInv, privacyVars, PrivacyTypes, Authorized, ExecutesStanding, TokensSound, DownloadsSound, Usable,
       P!TokenGoodForOne
  <1>2. AdministrationInv /\ UNCHANGED discordVars => AdministrationInv'
    BY DEF AdministrationInv, discordVars, AdministrationTypes, TasksSound, CommitSound, RowsSound, Sound,
       D!InCommit, D!AdministrationHolds
  <1>3. LineupInv /\ UNCHANGED setupVars => LineupInv'
    BY DEF LineupInv, setupVars, S!PitchersPitch
  <1>4. SetupInv /\ UNCHANGED setupVars => SetupInv'
    <2> SUFFICES ASSUME SetupInv, UNCHANGED setupVars PROVE SetupInv'
      OBVIOUS
    <2>1. UNCHANGED <<setup, form, submission, issued, tries>>
      BY DEF setupVars
    <2>2. Newest' = Newest /\ \A n : Content(n)' = Content(n)
      BY <2>1 DEF Newest, Content
    <2>3. SetupTypes' /\ RevisionsSound'
      BY <2>1, <2>2 DEF SetupInv, SetupTypes, RevisionsSound
    <2>4. \A t \in People : FormSound(form[t])'
      BY <2>1, <2>2 DEF SetupInv, FormSound
    <2>5. \A r \in submission : SubmissionSound(r)' /\ Awaits(form[r.tab], r)'
      BY <2>1, <2>2 DEF SetupInv, SubmissionSound, Awaits
    <2> QED
      BY <2>1, <2>3, <2>4, <2>5 DEF SetupInv
  <1> QED
    BY <1>1, <1>2, <1>3, <1>4

\* Requests of a set-up leave the rows of a lineup alone.
LEMMA ExchangeLeavesRows == S!Exchange => UNCHANGED rows
  BY ZenonT(30) DEF S!Exchange, S!Edit, S!Submit, S!Reload, S!SaveRevision, S!LoadStored, S!MarkReady,
     S!LoadReady, S!StartGame, S!Fails, S!Receive, S!rowVars

LEMMA AccountsStep ==
    ASSUME AccountsAssumption, AccountsInv, [AccountsNext]_accountsVars
    PROVE  AccountsInv'
  <1> USE DEF AccountsInv
  <1>a. LeagueInv /\ (UNCHANGED leagueVars \/ F!FantasyNext) => LeagueInv'
    BY LeagueKeeps
  <1>b. ScoringInv /\ (UNCHANGED scoringVars \/ L!ScoringNext) => ScoringInv'
    BY ScoringKeeps
  <1>1. CASE /\ part = "privacy" /\ P!PrivacyNext
             /\ UNCHANGED <<leagueVars, scoringVars, discordVars, setupVars, part>>
    BY <1>1, <1>a, <1>b, PrivacyStepKeeps, PartsKeep
  <1>2. CASE UNCHANGED <<privacyVars, leagueVars, scoringVars, discordVars, setupVars, part>>
    BY <1>2, <1>a, <1>b, PartsKeep
  <1>3. CASE part = "league" /\ F!FantasyNext /\ UNCHANGED <<privacyVars, scoringVars, discordVars, setupVars, part>>
    BY <1>3, <1>a, <1>b, PartsKeep
  <1>4. CASE part = "scoring" /\ L!ScoringNext /\ UNCHANGED <<privacyVars, leagueVars, discordVars, setupVars, part>>
    BY <1>4, <1>a, <1>b, PartsKeep
  <1>5. CASE /\ part = "administration" /\ D!AdministrationNext
             /\ UNCHANGED <<privacyVars, leagueVars, scoringVars, setupVars, part>>
    BY <1>5, <1>a, <1>b, AdministrationStepKeeps, PartsKeep
  <1>6. CASE part = "lineup" /\ S!EditRows /\ UNCHANGED <<privacyVars, leagueVars, scoringVars, discordVars, part>>
    BY <1>6, <1>a, <1>b, LineupKeeps, PartsKeep
  <1>7. CASE part = "setup" /\ S!Exchange /\ UNCHANGED <<privacyVars, leagueVars, scoringVars, discordVars, part>>
    <2>1. UNCHANGED rows
      BY <1>7, ExchangeLeavesRows
    <2>2. LineupInv'
      BY <2>1 DEF LineupInv, S!PitchersPitch
    <2> QED
      BY <1>7, <1>a, <1>b, <2>2, ExchangeKeeps, PartsKeep
  <1>8. UNCHANGED accountsVars =>
            UNCHANGED <<privacyVars, leagueVars, scoringVars, discordVars, setupVars, part>>
    BY DEF accountsVars
  <1> QED
    BY <1>1, <1>2, <1>3, <1>4, <1>5, <1>6, <1>7, <1>8 DEF AccountsNext

\* Whatever order requests, workers, forms and deaths of either come in, deletion requests,
\* exports, leagues, their results, Discord rows and set-ups keep their invariants.
THEOREM AccountsInvariant == AccountsSpec => []AccountsInv
  <1> USE AccountsAssumption
  <1>1. AccountsInit => AccountsInv
    BY PrivacyBegins, LeagueBegins, ScoringBegins, AdministrationBegins, LineupBegins, ExchangeBegins
    DEF AccountsInit, AccountsInv
  <1>2. AccountsInv /\ [AccountsNext]_accountsVars => AccountsInv'
    BY AccountsStep
  <1> QED
    BY <1>1, <1>2, PTL DEF AccountsSpec

\* An export token is good for one download of an account that is still there.  Unless
\* two transactions raced, Discord updates that are enabled can be delivered, roles that are
\* granted can be used, and the triggers refuse nothing the requests do.
THEOREM GrantsCorrect == AccountsSpec => []GrantsHold
  <1>1. AccountsInv => GrantsHold
    BY DEF AccountsInv, PrivacyInv, AdministrationInv, GrantsHold
  <1> QED
    BY <1>1, AccountsInvariant, PTL

\* A lineup the form finds ready can be stored and played; nobody overwrites a set-up without
\* having been told of it, and a game begins as whoever began it saw it.
THEOREM SetupCorrect == AccountsSpec => []SetupHolds
  <1>1. AccountsInv => SetupHolds
    BY AccountsAssumption, ReadyIsPlayable, SetupSound DEF AccountsInv, LineupInv, SetupHolds, S!LineupHolds
  <1> QED
    BY <1>1, AccountsInvariant, PTL

\* A player has one owner, whose roster it is on, and one place; an operation is recorded
\* once and the accepted ones are the revisions.  The revisions of a result are a history,
\* and final matchups and standings rest on final results.
THEOREM LeagueCorrect == AccountsSpec => []LeagueHolds
  <1>1. AccountsInv => LeagueHolds
    BY AccountsAssumption, OneOwner, ResultsSound DEF AccountsInv, LeagueHolds
  <1> QED
    BY <1>1, AccountsInvariant, PTL

\* A step reopens no deletion request that has ended, lets no worse waiver claim win, changes
\* a league, Discord settings or a grant only with a new revision, and moves no player of a
\* lineup out of order.
THEOREM AccountStepsCorrect == AccountsSpec => AccountStepsHold
  <1> USE AccountsAssumption
  <1>1. AccountsInv /\ [AccountsNext]_accountsVars =>
            [\A i \in DOMAIN asked : asked[i] # Nothing /\ asked[i].status \notin P!Standing =>
                asked'[i] = asked[i]]_(P!privacyVars)
    <2>1. [AccountsNext]_accountsVars => P!PrivacyNext \/ UNCHANGED P!privacyVars
      BY DEF AccountsNext, accountsVars, privacyVars, P!privacyVars
    <2> QED
      BY <2>1, EndedRequestStays DEF AccountsInv
  <1>2. [AccountsNext]_accountsVars => F!FantasyNext \/ UNCHANGED leagueVars
    BY DEF AccountsNext, accountsVars
  <1>3. AccountsInv /\ [AccountsNext]_accountsVars =>
            [\A c, d \in league.claims :
                /\ F!NewlyApplied(d) /\ c.status = "PENDING" /\ c.player = d.player /\ c.at = d.at
                /\ F!Rank(league.priority, c.team) < F!Rank(league.priority, d.team)
                => F!Award(league, c) = {} \/ \E e \in league.claims : e.team = c.team /\ F!NewlyApplied(e)]_(F!vars)
    BY <1>2, LeagueSteps DEF AccountsInv
  <1>4. AccountsInv /\ [AccountsNext]_accountsVars =>
            [revision' \in {revision, revision + 1} /\
                (league' # league \/ lifecycle' # lifecycle => revision' = revision + 1)]_(F!vars)
    BY <1>2, LeagueSteps DEF AccountsInv
  <1>5. AccountsInv /\ [AccountsNext]_accountsVars =>
            [/\ db'["settings"] # db["settings"] =>
                   db'["settings"].revision = db["settings"].revision + 1
             /\ db'["grant"] # db["grant"] => db'["grant"].revision = db["grant"].revision + 1]_(D!vars)
    <2>1. [AccountsNext]_accountsVars => D!AdministrationNext \/ UNCHANGED D!vars
      BY DEF AccountsNext, accountsVars, discordVars, D!vars
    <2> QED
      BY <2>1, RowsAreRevised DEF AccountsInv
  <1>6. AccountsInv /\ [AccountsNext]_accountsVars =>
            [\A n \in DOMAIN rows, to \in S!Orders :
                /\ S!Move(n, to) /\ S!UniqueOrders /\ S!Contiguous
                /\ \A m \in DOMAIN rows \ S!Chosen : rows[m].order = Nothing
                => S!UniqueOrders' /\ S!Contiguous']_(S!rowVars)
    BY MoveKeepsOrder DEF AccountsInv
  <1> HIDE DEF AccountsInv, AccountsInit, AccountsNext, accountsVars
  <1>7. AccountsSpec => P!EndedStays
    BY <1>1, AccountsInvariant, PTL DEF AccountsSpec, P!EndedStays
  <1>8. AccountsSpec => F!BestClaimWins
    BY <1>3, AccountsInvariant, PTL DEF AccountsSpec, F!BestClaimWins
  <1>9. AccountsSpec => F!RevisionAdvances
    BY <1>4, AccountsInvariant, PTL DEF AccountsSpec, F!RevisionAdvances
  <1>10. AccountsSpec => D!ChangesAreRevised
    BY <1>5, AccountsInvariant, PTL DEF AccountsSpec, D!ChangesAreRevised
  <1>11. AccountsSpec => S!MovesKeepOrder
    BY <1>6, AccountsInvariant, PTL DEF AccountsSpec, S!MovesKeepOrder
  <1> QED
    BY <1>7, <1>8, <1>9, <1>10, <1>11 DEF AccountStepsHold

-----------------------------------------------------------------------------
(* Authority: the requests and what they have been allowed *)

AskedFields == {"stage", "user", "target", "capability", "read", "authority", "resolved", "before"}
AllowedFields == {"stage", "user", "member", "tenant", "capability", "target", "references", "before"}

FoundSound(c) ==
    LET m == c.authority.member
    IN  /\ m \in DOMAIN AccountMembers
        /\ AccountMembers[m] = [user |-> c.user, tenant |-> c.target.tenant]
        /\ {c.user, m, c.target.tenant} \cap c.before = {}
        /\ \A a \in c.authority.assignments :
               a \in DOMAIN Assignments /\ Assignments[a].member = m /\ a \notin c.before

Waiting(c) ==
    /\ c = [f \in AskedFields |-> c[f]] /\ c.stage \in {"asked", "reading"}
    /\ c.user \in Users /\ c.target.tenant \in Tenants /\ c.before \subseteq V!Ended
    /\ "authority" \in c.read /\ c.authority # Nothing => FoundSound(c)
    /\ "target" \in c.read /\ c.resolved # Nothing => c.resolved.tenant = c.target.tenant

Earned(c) ==
    /\ c = [f \in AllowedFields |-> c[f]] /\ c.stage = "allowed"
    /\ c.member \in DOMAIN AccountMembers
    /\ AccountMembers[c.member] = [user |-> c.user, tenant |-> c.tenant]
    /\ c.target.tenant = c.tenant /\ c.references # {}
    /\ {c.user, c.member, c.tenant} \cap c.before = {}
    /\ \A a \in c.references :
           /\ a \in DOMAIN Assignments /\ Assignments[a].member = c.member /\ a \notin c.before
           /\ V!Permits(Assignments[a], c.capability, c.target)

CheckSound(c) == c = V!Idle \/ c = V!Refused \/ Waiting(c) \/ Earned(c)

RequestsInv ==
    /\ ended \subseteq V!Rows /\ withdrawn \subseteq DOMAIN Assignments
    /\ checks = [r \in Capabilities |-> checks[r]]
    /\ \A r \in Capabilities : CheckSound(checks[r])

LEMMA RequestsBegin == V!AuthorizationInit => RequestsInv
  BY DEF V!AuthorizationInit, RequestsInv, CheckSound

LEMMA StagesDiffer ==
    ASSUME NEW c, CheckSound(c)
    PROVE  /\ c.stage \in {"asked", "reading"} => Waiting(c)
           /\ c.stage = "allowed" => Earned(c)
           /\ "before" \in DOMAIN c <=> Waiting(c) \/ Earned(c)
  <1>1. CASE c = V!Idle \/ c = V!Refused
    BY <1>1 DEF V!Idle, V!Refused, Waiting, Earned
  <1>2. CASE Waiting(c)
    <2>1. "before" \in DOMAIN c
      BY <1>2 DEF Waiting, AskedFields
    <2> QED
      BY <1>2, <2>1 DEF Waiting
  <1>3. CASE Earned(c)
    <2>1. "before" \in DOMAIN c
      BY <1>3 DEF Earned, AllowedFields
    <2> QED
      BY <1>3, <2>1 DEF Earned
  <1> QED
    BY <1>1, <1>2, <1>3 DEF CheckSound

LEMMA AskedSound ==
    ASSUME NEW u \in Users, NEW t, t.tenant \in Tenants, NEW c
    PROVE  Waiting(V!Asked(u, t, c))
  <1> DEFINE a == V!Asked(u, t, c)
  <1>1. a = [f \in AskedFields |-> a[f]]
    BY DEF V!Asked, AskedFields
  <1>2. /\ a.stage = "asked" /\ a.user = u /\ a.target = t /\ a.before = V!Ended /\ a.read = {}
    BY DEF V!Asked
  <1> HIDE DEF a
  <1>3. Waiting(a)
    BY <1>1, <1>2 DEF Waiting
  <1> QED
    BY <1>3 DEF a

LEMMA DecidedSound ==
    ASSUME AccountsAssumption, NEW c, Waiting(c)
    PROVE  CheckSound(V!Decided(c))
  <1>1. CASE c.read # {"authority", "target"}
    BY <1>1 DEF V!Decided, CheckSound
  <1>2. CASE c.read = {"authority", "target"}
    <2> DEFINE d == [stage |-> "allowed", user |-> c.user, member |-> c.authority.member,
                     tenant |-> c.target.tenant, capability |-> c.capability,
                     target |-> c.resolved, references |-> V!Contributing(c), before |-> c.before]
    <2>1. V!Decided(c) = V!Refused
             \/ /\ c.authority # Nothing /\ c.resolved # Nothing /\ V!Contributing(c) # {}
                /\ V!Decided(c) = d
      BY <1>2 DEF V!Decided
    <2>2. ASSUME c.authority # Nothing, c.resolved # Nothing, V!Contributing(c) # {}
          PROVE  Earned(d)
      <3>1. FoundSound(c) /\ c.resolved.tenant = c.target.tenant
        BY <1>2, <2>2 DEF Waiting
      <3>2. d = [f \in AllowedFields |-> d[f]]
        BY DEF AllowedFields
      <3>3. /\ d.stage = "allowed" /\ d.user = c.user /\ d.member = c.authority.member
            /\ d.tenant = c.target.tenant /\ d.capability = c.capability /\ d.target = c.resolved
            /\ d.references = V!Contributing(c) /\ d.before = c.before
        OBVIOUS
      <3>4. \A a \in V!Contributing(c) :
                a \in c.authority.assignments /\ V!Permits(Assignments[a], c.capability, c.resolved)
        BY DEF V!Contributing
      <3> HIDE DEF d
      <3> QED
        BY <2>2, <3>1, <3>2, <3>3, <3>4 DEF Earned, FoundSound
    <2> QED
      BY <2>1, <2>2 DEF CheckSound
  <1> QED
    BY <1>1, <1>2

LEMMA AskKeeps ==
    ASSUME RequestsInv, NEW r \in Capabilities, NEW u \in Users, NEW t, t.tenant \in Tenants, NEW c,
           V!Ask(r, u, t, c)
    PROVE  RequestsInv'
  <1>1. Waiting(V!Asked(u, t, c)) /\ V!Ended' = V!Ended
    BY AskedSound DEF V!Ask, V!Ended
  <1>2. \A s \in Capabilities : CheckSound(checks[s])' 
    BY <1>1 DEF V!Ask, RequestsInv, CheckSound, Waiting
  <1> QED
    BY <1>2 DEF V!Ask, RequestsInv

LEMMA SoundForLonger ==
    ASSUME NEW c, CheckSound(c), V!Ended \subseteq V!Ended'
    PROVE  CheckSound(c)'
  BY DEF CheckSound, Waiting, Earned, FoundSound

LEMMA WaitingForLonger ==
    ASSUME NEW c, Waiting(c), NEW m, c.before \ {m} \subseteq V!Ended', NEW d,
           d = [c EXCEPT !.before = c.before \ {m}]
    PROVE  Waiting(d)'
  <1>1. /\ d = [f \in AskedFields |-> d[f]] /\ d.stage = c.stage /\ d.user = c.user
        /\ d.target = c.target /\ d.before = c.before \ {m} /\ d.read = c.read
        /\ d.authority = c.authority /\ d.resolved = c.resolved
    BY DEF Waiting, AskedFields
  <1>2. FoundSound(c) => FoundSound(d)
    BY <1>1 DEF FoundSound
  <1> QED
    BY <1>1, <1>2 DEF Waiting, FoundSound

LEMMA CheckProceeds ==
    ASSUME AccountsAssumption, RequestsInv, NEW r \in Capabilities, V!Authorize(r)
    PROVE  RequestsInv'
  <1> DEFINE c == checks[r]
  <1>1. c.stage \in {"asked", "reading"} /\ UNCHANGED <<ended, withdrawn>> /\ V!Ended' = V!Ended
    BY DEF V!Authorize, V!ResolveUser, V!ReadAuthority, V!ReadTarget, V!Ended
  <1>2. Waiting(c) /\ c = [f \in AskedFields |-> c[f]]
    <2>1. CheckSound(c)
      BY DEF RequestsInv
    <2> HIDE DEF c
    <2> QED
      BY <1>1, <2>1, StagesDiffer DEF Waiting
  <1>3. \E y : checks' = [checks EXCEPT ![r] = y] /\ CheckSound(y)
    <2>1. CASE V!ResolveUser(r)
      <3> DEFINE d == [c EXCEPT !.stage = "reading"]
      <3>1. checks' = [checks EXCEPT ![r] = V!Refused] \/ checks' = [checks EXCEPT ![r] = d]
        BY <2>1 DEF V!ResolveUser
      <3>2. /\ d = [f \in AskedFields |-> d[f]] /\ d.stage = "reading" /\ d.user = c.user
            /\ d.target = c.target /\ d.before = c.before /\ d.read = c.read
            /\ d.authority = c.authority /\ d.resolved = c.resolved
        BY <1>2 DEF AskedFields
      <3>3. Waiting(d)
        <4> HIDE DEF c, d
        <4> QED
          BY <1>2, <3>2 DEF Waiting, FoundSound
      <3> QED
        BY <3>1, <3>3 DEF CheckSound
    <2>2. CASE V!ReadAuthority(r)
      <3>1. PICK x \in (IF V!ActiveAuthorities(c) = {} THEN {Nothing} ELSE V!ActiveAuthorities(c)) :
                checks' = [checks EXCEPT ![r] =
                              V!Decided([c EXCEPT !.read = c.read \cup {"authority"}, !.authority = x])]
        BY <2>2 DEF V!ReadAuthority
      <3> DEFINE d == [c EXCEPT !.read = c.read \cup {"authority"}, !.authority = x]
      <3>2. /\ d = [f \in AskedFields |-> d[f]] /\ d.read = c.read \cup {"authority"}
            /\ d.stage = c.stage /\ d.user = c.user /\ d.target = c.target /\ d.before = c.before
            /\ d.authority = x /\ d.resolved = c.resolved
        <4>1. ASSUME NEW y
              PROVE  [c EXCEPT !.read = y, !.authority = x]
                     = [f \in DOMAIN c |-> IF f = "authority" THEN x ELSE IF f = "read" THEN y ELSE c[f]]
          BY Zenon
        <4>2. d = [f \in AskedFields |-> IF f = "authority" THEN x
                                         ELSE IF f = "read" THEN c.read \cup {"authority"} ELSE c[f]]
          BY <1>2, <4>1
        <4> HIDE DEF c, d
        <4> QED
          BY <4>2 DEF AskedFields
      <3>3. x # Nothing => FoundSound(d)
        <4> SUFFICES ASSUME x # Nothing PROVE FoundSound(d)
          OBVIOUS
        <4>0. x \in V!ActiveAuthorities(c)
          BY <3>1
        <4>1. PICK m \in DOMAIN AccountMembers \ ended :
                  /\ AccountMembers[m] = [user |-> c.user, tenant |-> c.target.tenant]
                  /\ {c.user, c.target.tenant} \cap ended = {}
                  /\ x = [member |-> m, assignments |->
                             {a \in DOMAIN Assignments \ withdrawn : Assignments[a].member = m}]
          BY <4>0 DEF V!ActiveAuthorities
        <4>2. /\ c.before \subseteq ended \cup withdrawn /\ withdrawn \subseteq DOMAIN Assignments
              /\ ended \subseteq V!Rows
              /\ c.user \in V!Rows /\ c.target.tenant \in V!Rows /\ m \in V!Rows
              /\ V!Rows \cap DOMAIN Assignments = {}
          BY <1>2, <4>1 DEF Waiting, V!Ended, V!Rows, AccountsAssumption, V!ProvisioningAssumption, RequestsInv
        <4>3. /\ {c.user, m, c.target.tenant} \cap c.before = {}
              /\ \A a \in DOMAIN Assignments \ withdrawn : a \notin c.before
          BY <4>1, <4>2
        <4>4. x.member = m /\ x.assignments = {a \in DOMAIN Assignments \ withdrawn : Assignments[a].member = m}
          BY <4>1
        <4> HIDE DEF c, d
        <4> QED
          BY <3>2, <4>1, <4>3, <4>4 DEF FoundSound
      <3>4. Waiting(d)
        <4> HIDE DEF c, d
        <4> QED
          BY <1>2, <3>2, <3>3 DEF Waiting
      <3>5. CheckSound(V!Decided(d))
        BY <3>4, DecidedSound
      <3> QED
        BY <3>1, <3>5
    <2>3. CASE V!ReadTarget(r)
      <3> DEFINE x == V!ResolveTarget(c.target)
                 d == [c EXCEPT !.read = c.read \cup {"target"}, !.resolved = x]
      <3>1. checks' = [checks EXCEPT ![r] = V!Decided(d)]
        BY <2>3 DEF V!ReadTarget
      <3>2. /\ d = [f \in AskedFields |-> d[f]] /\ d.read = c.read \cup {"target"}
            /\ d.stage = c.stage /\ d.user = c.user /\ d.target = c.target /\ d.before = c.before
            /\ d.resolved = x /\ d.authority = c.authority
        <4>1. ASSUME NEW y
              PROVE  [c EXCEPT !.read = y, !.resolved = x]
                     = [f \in DOMAIN c |-> IF f = "resolved" THEN x ELSE IF f = "read" THEN y ELSE c[f]]
          BY Zenon
        <4>2. d = [f \in AskedFields |-> IF f = "resolved" THEN x
                                         ELSE IF f = "read" THEN c.read \cup {"target"} ELSE c[f]]
          BY <1>2, <4>1
        <4> HIDE DEF c, d
        <4> QED
          BY <4>2 DEF AskedFields
      <3>3. x # Nothing => x.tenant = c.target.tenant
        BY DEF V!ResolveTarget
      <3>4. Waiting(d)
        <4> HIDE DEF c, d, x
        <4> QED
          BY <1>2, <3>2, <3>3 DEF Waiting, FoundSound
      <3>5. CheckSound(V!Decided(d))
        BY <3>4, DecidedSound
      <3> QED
        BY <3>1, <3>5
    <2> QED
      BY <2>1, <2>2, <2>3 DEF V!Authorize
  <1>4. PICK y : checks' = [checks EXCEPT ![r] = y] /\ CheckSound(y)
    BY <1>3
  <1>5. \A s \in Capabilities : CheckSound(checks[s])'
    <2> SUFFICES ASSUME NEW s \in Capabilities PROVE CheckSound(checks[s])'
      OBVIOUS
    <2>1. checks'[s] = y \/ checks'[s] = checks[s]
      BY <1>4 DEF RequestsInv
    <2>2. PICK z : z = checks'[s] /\ CheckSound(z)
      BY <1>4, <2>1 DEF RequestsInv
    <2> QED
      BY <1>1, <2>2, SoundForLonger
  <1> QED
    BY <1>1, <1>4, <1>5 DEF RequestsInv

LEMMA EndRowKeeps == RequestsInv /\ V!EndRow => RequestsInv'
  <1> SUFFICES ASSUME RequestsInv, V!EndRow PROVE RequestsInv'
    OBVIOUS
  <1>1. V!Ended \subseteq V!Ended' /\ UNCHANGED checks
    BY DEF V!EndRow, V!Ended
  <1>2. \A s \in Capabilities : CheckSound(checks[s])'
    BY <1>1 DEF RequestsInv, CheckSound, Waiting, Earned, FoundSound
  <1> QED
    BY <1>1, <1>2 DEF V!EndRow, RequestsInv

LEMMA RejoinKeeps ==
    ASSUME RequestsInv, NEW m \in DOMAIN AccountMembers, V!Rejoin(m)
    PROVE  /\ RequestsInv'
           /\ \A r \in Capabilities : Earned(checks[r]) =>
                  checks'[r] = [checks[r] EXCEPT !.before = @ \ {m}]
           /\ \A r \in Capabilities : Waiting(checks[r]) => Waiting(checks[r])'
           /\ \A r \in Capabilities : Earned(checks[r]) => Earned(checks[r])'
  <1>1. /\ ended' = ended \ {m} /\ UNCHANGED withdrawn
        /\ checks' = [r \in Capabilities |->
               IF "before" \in DOMAIN checks[r] THEN [checks[r] EXCEPT !.before = @ \ {m}] ELSE checks[r]]
    BY DEF V!Rejoin
  <1>2. ASSUME NEW r \in Capabilities
        PROVE  /\ CheckSound(checks[r])'
               /\ Waiting(checks[r]) => Waiting(checks[r])'
               /\ Earned(checks[r]) => Earned(checks[r])' /\ checks'[r] = [checks[r] EXCEPT !.before = @ \ {m}]
    <2> DEFINE c == checks[r]
               d == [c EXCEPT !.before = c.before \ {m}]
    <2>0. CheckSound(c)
      BY DEF RequestsInv
    <2>1. CASE c = V!Idle \/ c = V!Refused
      <3>1. "before" \notin DOMAIN c /\ ~ Waiting(c) /\ ~ Earned(c)
        BY <2>1 DEF V!Idle, V!Refused, Waiting, Earned
      <3> QED
        BY <1>1, <2>1, <3>1 DEF CheckSound
    <2>2. CASE Waiting(c)
      <3>1. checks'[r] = d /\ ~ Earned(c)
        BY <1>1, <2>2 DEF Waiting, AskedFields, Earned
      <3>2. c.before \ {m} \subseteq V!Ended'
        BY <1>1, <2>2 DEF Waiting, V!Ended
      <3>3. PICK e : e = d /\ Waiting(e)'
        BY <2>2, <3>2, WaitingForLonger
      <3>4. Waiting(checks[r])'
        BY <3>1, <3>3
      <3> QED
        BY <3>1, <3>4 DEF CheckSound
    <2>3. CASE Earned(c)
      <3>1. checks'[r] = d /\ ~ Waiting(c)
        BY <1>1, <2>3 DEF Waiting, AllowedFields, Earned
      <3>2. /\ d = [f \in AllowedFields |-> d[f]] /\ d.stage = c.stage /\ d.user = c.user
            /\ d.member = c.member /\ d.tenant = c.tenant /\ d.capability = c.capability
            /\ d.target = c.target /\ d.references = c.references /\ d.before = c.before \ {m}
        BY <2>3 DEF Earned, AllowedFields
      <3>3. Earned(d)
        <4> HIDE DEF c, d
        <4> QED
          BY <2>3, <3>2 DEF Earned
      <3> QED
        BY <3>1, <3>3 DEF CheckSound, Earned
    <2> QED
      BY <2>0, <2>1, <2>2, <2>3 DEF CheckSound
  <1>3. \A r \in Capabilities : CheckSound(checks[r])'
    BY <1>2
  <1> QED
    BY <1>1, <1>2, <1>3 DEF RequestsInv

-----------------------------------------------------------------------------
(* What is made *)

\* A change of stage leaves everything else but the revision and the instants alone.
LEMMA MovedFields ==
    ASSUME NEW v, NEW to, NEW at, "stage" \in DOMAIN v
    PROVE  /\ V!F!Moved(v, to, at).stage = to
           /\ \A f \in DOMAIN v \ {"stage", "revision", "since"} : V!F!Moved(v, to, at)[f] = v[f]
  <1>1. ASSUME NEW x, NEW y
        PROVE  [v EXCEPT !.stage = to, !.revision = x, !.since = y]
               = [f \in DOMAIN v |-> IF f = "since" THEN y ELSE IF f = "revision" THEN x
                                     ELSE IF f = "stage" THEN to ELSE v[f]]
    BY Zenon
  <1>2. V!F!Moved(v, to, at)
        = [v EXCEPT !.stage = to, !.revision = v.revision + 1, !.since = [v.since EXCEPT ![to] = at]]
    BY Zenon DEF V!F!Moved
  <1>3. V!F!Moved(v, to, at) = [f \in DOMAIN v |-> IF f = "since" THEN [v.since EXCEPT ![to] = at]
                                     ELSE IF f = "revision" THEN v.revision + 1
                                     ELSE IF f = "stage" THEN to ELSE v[f]]
    BY <1>1, <1>2
  <1> QED
    BY <1>3

LEMMA PlatformSound ==
    ASSUME NEW m \in V!PlatformModels
    PROVE  V!F!ValidRules(m.content) /\ m.stage = "ACTIVE"
  <1> DEFINE Base == V!F!NewModel(V!Platform)
             Reviewed == V!Then("REVIEWED", Base)
  <1>1. \A x \in Base : x = [content |-> V!Platform, stage |-> "DRAFT"] /\ V!F!ValidRules(x.content)
    BY DEF V!F!NewModel
  <1>2. \A x \in Reviewed : x = [content |-> V!Platform, stage |-> "REVIEWED"] /\ V!F!ValidRules(x.content)
    <2> SUFFICES ASSUME NEW x \in Reviewed
                 PROVE  x = [content |-> V!Platform, stage |-> "REVIEWED"] /\ V!F!ValidRules(x.content)
      OBVIOUS
    <2>1. PICK y \in Base : x \in V!F!TransitionModel(y, "REVIEWED")
      BY DEF V!Then
    <2>2. y = [content |-> V!Platform, stage |-> "DRAFT"] /\ V!F!ValidRules(y.content)
      BY <1>1
    <2>3. x = [y EXCEPT !.stage = "REVIEWED"]
      BY <2>1 DEF V!F!TransitionModel
    <2>4. x = [content |-> V!Platform, stage |-> "REVIEWED"]
      BY <2>2, <2>3
    <2> QED
      BY <2>2, <2>4
  <1>3. m \in V!Then("ACTIVE", Reviewed)
    BY DEF V!PlatformModels
  <1>4. PICK x \in Reviewed : m \in V!F!TransitionModel(x, "ACTIVE")
    <2> HIDE DEF Reviewed
    <2> QED
      BY <1>3 DEF V!Then
  <1> HIDE DEF Reviewed
  <1> QED
    BY <1>2, <1>4 DEF V!F!TransitionModel

LEMMA MadeLeagueSound ==
    ASSUME NEW a, NEW m, NEW l \in V!ActiveLeagues(a, m)
    PROVE  /\ l.account = a /\ l.id = "league" /\ l.rules = m.content /\ l.stage = "ACTIVE"
           /\ Cardinality(checks["fantasy.league.activate"].references) >= 2
  <1> DEFINE input == [id |-> "league", account |-> a, administration |-> Nothing, at |-> V!Present]
             manage == V!Authority("fantasy.league.manage")
             activate == V!Authority("fantasy.league.activate")
  <1>1. PICK x \in V!F!CreateFantasyLeague(input, m, manage) :
            l \in V!F!TransitionFantasyLeague(x, "ACTIVE", V!Present, activate, m)
    BY DEF V!ActiveLeagues
  <1>2. x = [id |-> "league", account |-> a, rules |-> m.content, stage |-> "DRAFT",
             revision |-> 0, since |-> V!F!Since(V!F!LeagueStages, V!Present)]
    BY <1>1 DEF V!F!CreateFantasyLeague
  <1>3. /\ l = V!F!Moved(x, "ACTIVE", V!Present)
        /\ V!F!Authorized(activate, a, "fantasy.league.activate", "league", Nothing)
    <2> HIDE DEF activate
    <2> QED
      BY <1>1, <1>2 DEF V!F!TransitionFantasyLeague
  <1>4. DOMAIN x = {"id", "account", "rules", "stage", "revision", "since"}
        /\ x.id = "league" /\ x.account = a /\ x.rules = m.content
    BY <1>2
  <1>5. activate.references = checks["fantasy.league.activate"].references
    BY DEF V!Authority, V!DomainAuthority
  <1>6. Cardinality(activate.references) >= 2
    BY <1>3 DEF V!F!Authorized, V!F!Cardinality, Cardinality, V!F!IsFiniteSet, IsFiniteSet
  <1> HIDE DEF activate
  <1> QED
    BY <1>3, <1>4, <1>5, <1>6, MovedFields

LEMMA MadeTeamSound ==
    ASSUME NEW l, NEW o, NEW t \in V!ActiveTeams(l, o)
    PROVE  t.account = l.account /\ t.league = l.id /\ t.owner = o /\ t.stage = "ACTIVE"
  <1> DEFINE input == [id |-> "team", account |-> l.account, league |-> l.id, owner |-> o, at |-> V!Present]
             manage == V!Authority("fantasy.team.manage")
  <1>1. PICK x \in V!F!CreateFantasyTeam(input, l, manage) :
            t \in V!F!TransitionFantasyTeam(x, l, "ACTIVE", V!Present, manage)
    BY DEF V!ActiveTeams
  <1>2. x = [id |-> "team", account |-> l.account, league |-> l.id, owner |-> o, stage |-> "DRAFT",
             revision |-> 0, since |-> V!F!Since(V!F!TeamStages, V!Present)]
    BY <1>1 DEF V!F!CreateFantasyTeam
  <1>3. t = V!F!Moved(x, "ACTIVE", V!Present)
    BY <1>1 DEF V!F!TransitionFantasyTeam
  <1>4. DOMAIN x = {"id", "account", "league", "owner", "stage", "revision", "since"}
        /\ x.account = l.account /\ x.league = l.id /\ x.owner = o
    BY <1>2
  <1> QED
    BY <1>3, <1>4, MovedFields

-----------------------------------------------------------------------------
(* The invariant of a submission *)

ProposalSound ==
    \/ proposal = V!Idle
    \/ proposal.stage = "authorizing"
    \/ /\ proposal.stage = "creating"
       /\ \A r \in V!Needed : V!Trusted(checks[r], proposal.tenant, r) /\ checks[r].member = V!Creator
       /\ V!Creator \in DOMAIN AccountMembers \ proposal.seen
       /\ Seasons[proposal.season].tenant = proposal.tenant

LeagueIsFounded(w) ==
    /\ w.owner \in DOMAIN AccountMembers \ w.seen
    /\ {AccountMembers[w.owner].user, AccountMembers[w.owner].tenant, w.owner} \cap w.before = {}
    /\ {AccountMembers[w.owner].tenant, Seasons[w.season].tenant} = {w.league.account}
    /\ w.team.owner = w.owner
    /\ w.league.stage = "ACTIVE" /\ w.team.stage = "ACTIVE" /\ V!Parses(w)
    /\ V!Cardinality(w.activation) >= 2
    /\ \A a \in w.activation :
           /\ Assignments[a].member = w.owner /\ a \notin w.before
           /\ "fantasy.league.activate" \in
                  (IF Assignments[a].source = "ROLE" THEN V!RoleCapabilities[Assignments[a].holds]
                   ELSE {Assignments[a].holds})
    /\ \A p, q \in w.told : p.member = w.owner /\ (p.channel = q.channel => p = q)

LeaguesFounded ==
    /\ \E values : leagues \in Seq(values)
    /\ \A i \in DOMAIN leagues : LeagueIsFounded(leagues[i])

PermissionsInv ==
    /\ RequestsInv /\ ProposalSound /\ LeaguesFounded
    /\ part = "permission" => proposal = V!Idle

LEMMA PermissionsBegin == V!ProvisioningInit => PermissionsInv
  BY RequestsBegin DEF V!ProvisioningInit, PermissionsInv, ProposalSound, LeaguesFounded

\* Whoever is trusted to create a league creates one that is founded.
LEMMA StoredSound ==
    ASSUME AccountsAssumption, RequestsInv, ProposalSound, proposal.stage = "creating",
           NEW w \in V!Provisioned(proposal.tenant, V!Creator, proposal.players)
    PROVE  LeagueIsFounded(V!Stored(w))
  <1> DEFINE c == checks["fantasy.league.activate"]
             o == V!Creator
             s == V!Stored(w)
  <1>1. "fantasy.league.activate" \in V!Needed /\ V!Needed \subseteq Capabilities
    BY DEF V!Needed, AccountsAssumption, V!ProvisioningAssumption
  <1>2. /\ \A r \in V!Needed : V!Trusted(checks[r], proposal.tenant, r) /\ checks[r].member = o
        /\ o \in DOMAIN AccountMembers \ proposal.seen
        /\ Seasons[proposal.season].tenant = proposal.tenant
    BY DEF ProposalSound, V!Idle
  <1>3. /\ c.stage = "allowed" /\ c.tenant = proposal.tenant /\ c.member = o
        /\ c.capability = "fantasy.league.activate"
    BY <1>1, <1>2 DEF V!Trusted
  <1>4. Earned(c)
    BY <1>1, <1>3, StagesDiffer DEF RequestsInv
  <1>5. PICK m \in V!PlatformModels : \E l \in V!ActiveLeagues(proposal.tenant, m) :
            w \in V!Workspaces(m, l, o, proposal.players)
    <2> HIDE DEF o
    <2> QED
      BY DEF V!Provisioned, o
  <1>6. PICK l \in V!ActiveLeagues(proposal.tenant, m) : w \in V!Workspaces(m, l, o, proposal.players)
    BY <1>5
  <1>7. w.league = l /\ w.model = m /\ w.team \in V!ActiveTeams(l, o)
    BY <1>6 DEF V!Workspaces
  <1>8. /\ l.account = proposal.tenant /\ l.id = "league" /\ l.rules = m.content /\ l.stage = "ACTIVE"
        /\ Cardinality(c.references) >= 2
    BY MadeLeagueSound
  <1>9. w.team.account = l.account /\ w.team.league = l.id /\ w.team.owner = o /\ w.team.stage = "ACTIVE"
    BY <1>7, MadeTeamSound
  <1>10. /\ s.season = proposal.season /\ s.league = l /\ s.model = m /\ s.team = w.team
         /\ s.owner = o /\ s.told = V!Inherited(o) /\ s.seen = proposal.seen
         /\ s.activation = c.references /\ s.before = c.before
    BY <1>7 DEF V!Stored
  <1>11. V!Parses(s)
    BY <1>8, <1>9, <1>10, PlatformSound DEF V!Parses
  <1>12. V!Cardinality(c.references) >= 2
    BY <1>8 DEF V!Cardinality, Cardinality, V!IsFiniteSet, IsFiniteSet
  <1>13. ASSUME NEW a \in c.references
         PROVE  /\ Assignments[a].member = o /\ a \notin c.before
                /\ "fantasy.league.activate" \in
                       (IF Assignments[a].source = "ROLE" THEN V!RoleCapabilities[Assignments[a].holds]
                        ELSE {Assignments[a].holds})
    <2>1. a \in DOMAIN Assignments /\ Assignments[a].member = o /\ a \notin c.before
          /\ V!Permits(Assignments[a], "fantasy.league.activate", c.target)
      BY <1>3, <1>4 DEF Earned
    <2>2. Assignments[a].source \in {"ROLE", "GRANT"}
      BY <2>1 DEF AccountsAssumption, V!ProvisioningAssumption
    <2> QED
      BY <2>1, <2>2 DEF V!Permits
  <1>14. \A p, q \in V!Inherited(o) : p.member = o /\ (p.channel = q.channel => p = q)
    <2> SUFFICES ASSUME NEW p \in V!Inherited(o), NEW q \in V!Inherited(o)
                 PROVE  p.member = o /\ (p.channel = q.channel => p = q)
      OBVIOUS
    <2>1. /\ p \in Listening /\ q \in Listening /\ p.member = o /\ q.member = o
          /\ p.channel = q.channel => p.id <= q.id /\ q.id <= p.id
      BY DEF V!Inherited
    <2>2. p.id \in Nat /\ q.id \in Nat /\ (p.id = q.id => p = q)
      BY <2>1 DEF AccountsAssumption, V!ProvisioningAssumption
    <2> QED
      BY <2>1, <2>2
  <1>15. /\ AccountMembers[o] = [user |-> c.user, tenant |-> proposal.tenant]
         /\ {c.user, o, proposal.tenant} \cap c.before = {}
    BY <1>3, <1>4 DEF Earned
  <1> HIDE DEF c, o, s
  <1>16. LeagueIsFounded(s)
    BY <1>2, <1>8, <1>9, <1>10, <1>11, <1>12, <1>13, <1>14, <1>15 DEF LeagueIsFounded
  <1> QED
    BY <1>16 DEF s

\* What is stored stays as it is, and what was checked stays so while rows end or come back.
LEMMA RowsChangeKeeps ==
    ASSUME RequestsInv, ProposalSound, V!RowsChange, UNCHANGED proposal, AccountsAssumption
    PROVE  RequestsInv' /\ ProposalSound'
  <1>1. CASE V!EndRow
    <2>1. RequestsInv' /\ UNCHANGED checks
      BY <1>1, EndRowKeeps DEF V!EndRow
    <2> QED
      BY <2>1 DEF ProposalSound, V!Creator
  <1>2. ASSUME NEW m \in DOMAIN AccountMembers, V!Rejoin(m) PROVE RequestsInv' /\ ProposalSound'
    <2>1. /\ RequestsInv'
          /\ \A r \in Capabilities : Earned(checks[r]) => checks'[r] = [checks[r] EXCEPT !.before = @ \ {m}]
      BY <1>2, RejoinKeeps
    <2>2. CASE proposal.stage # "creating"
      BY <2>1, <2>2 DEF ProposalSound
    <2>3. CASE proposal.stage = "creating"
      <3>1. V!Needed \subseteq Capabilities /\ "fantasy.league.manage" \in V!Needed
        BY DEF V!Needed, AccountsAssumption, V!ProvisioningAssumption
      <3>2. ASSUME NEW r \in V!Needed
            PROVE  /\ V!Trusted(checks[r], proposal.tenant, r) => V!Trusted(checks'[r], proposal.tenant, r)
                   /\ V!Trusted(checks[r], proposal.tenant, r) => checks'[r].member = checks[r].member
        <4> SUFFICES ASSUME V!Trusted(checks[r], proposal.tenant, r)
                     PROVE  V!Trusted(checks'[r], proposal.tenant, r) /\ checks'[r].member = checks[r].member
          OBVIOUS
        <4>1. Earned(checks[r]) /\ checks'[r] = [checks[r] EXCEPT !.before = @ \ {m}]
          BY <2>1, <3>1, StagesDiffer DEF RequestsInv, V!Trusted
        <4>2. /\ checks'[r].stage = checks[r].stage /\ checks'[r].tenant = checks[r].tenant
              /\ checks'[r].target = checks[r].target /\ checks'[r].capability = checks[r].capability
              /\ checks'[r].member = checks[r].member
          BY <4>1 DEF Earned, AllowedFields
        <4> QED
          BY <4>2 DEF V!Trusted
      <3>3. /\ \A r \in V!Needed : V!Trusted(checks[r], proposal.tenant, r) /\ checks[r].member = V!Creator
            /\ V!Creator \in DOMAIN AccountMembers \ proposal.seen
            /\ Seasons[proposal.season].tenant = proposal.tenant
        BY <2>3 DEF ProposalSound, V!Idle
      <3>4. V!Creator' = V!Creator
        BY <3>1, <3>2, <3>3 DEF V!Creator
      <3>5. \A r \in V!Needed : V!Trusted(checks'[r], proposal.tenant, r) /\ checks'[r].member = V!Creator
        BY <3>2, <3>3
      <3> QED
        BY <2>1, <2>3, <3>3, <3>4, <3>5 DEF ProposalSound, V!Trusted
    <2> QED
      BY <2>2, <2>3
  <1> QED
    BY <1>1, <1>2 DEF V!RowsChange

LEMMA AppendedFounded ==
    ASSUME LeaguesFounded, NEW w, LeagueIsFounded(w), leagues' = Append(leagues, w)
    PROVE  LeaguesFounded'
  <1>1. PICK values : leagues \in Seq(values)
    BY DEF LeaguesFounded
  <1>2. leagues \in Seq(values \cup {w}) /\ w \in values \cup {w}
    BY <1>1
  <1>3. /\ leagues' \in Seq(values \cup {w})
        /\ \A i \in DOMAIN leagues' : leagues'[i] = w \/ (i \in DOMAIN leagues /\ leagues'[i] = leagues[i])
    BY <1>2, AppendProperties
  <1>4. \A x : LeagueIsFounded(x)' <=> LeagueIsFounded(x)
    BY DEF LeagueIsFounded
  <1> QED
    BY <1>3, <1>4 DEF LeaguesFounded

LEMMA EndSubmissionKeeps ==
    RequestsInv /\ V!EndSubmission /\ UNCHANGED <<ended, withdrawn>> => RequestsInv' /\ ProposalSound'
  <1> SUFFICES ASSUME RequestsInv, V!EndSubmission, UNCHANGED <<ended, withdrawn>>
               PROVE  RequestsInv' /\ ProposalSound'
    OBVIOUS
  <1>1. checks' = [r \in Capabilities |-> IF r \in V!Needed THEN V!Idle ELSE checks[r]] /\ proposal' = V!Idle
    BY DEF V!EndSubmission
  <1>2. \A r \in Capabilities : CheckSound(checks[r])'
    BY <1>1 DEF RequestsInv, CheckSound, Waiting, Earned, FoundSound, V!Ended
  <1> QED
    BY <1>1, <1>2 DEF RequestsInv, ProposalSound

LEMMA ProvisioningKeeps ==
    ASSUME AccountsAssumption, PermissionsInv, V!ProvisioningNext, part = "provisioning", UNCHANGED part
    PROVE  PermissionsInv'
  <1> USE DEF PermissionsInv
  <1>0. UNCHANGED leagues => LeaguesFounded'
    <2>1. \A x : LeagueIsFounded(x)' <=> LeagueIsFounded(x)
      BY DEF LeagueIsFounded
    <2> QED
      BY <2>1 DEF LeaguesFounded
  <1>1. ASSUME NEW u \in Users, NEW t \in Tenants, NEW s \in DOMAIN Seasons, NEW d \in Deadlines,
               V!Submit(u, t, s, d)
        PROVE  PermissionsInv'
    <2> DEFINE target == [kind |-> "ACCOUNT", tenant |-> t]
    <2>1. /\ checks' = [r \in Capabilities |-> IF r \in V!Needed THEN V!Asked(u, target, r) ELSE checks[r]]
          /\ UNCHANGED <<ended, withdrawn, leagues>> /\ proposal'.stage = "authorizing"
      BY <1>1 DEF V!Submit
    <2>2. \A r \in Capabilities : CheckSound(checks[r])'
      <3> SUFFICES ASSUME NEW r \in Capabilities PROVE CheckSound(checks[r])'
        OBVIOUS
      <3>1. Waiting(V!Asked(u, target, r))
        <4>1. target.tenant \in Tenants
          OBVIOUS
        <4> QED
          BY <4>1, AskedSound
      <3>2. PICK y : y = checks'[r] /\ CheckSound(y)
        BY <2>1, <3>1 DEF RequestsInv, CheckSound
      <3> QED
        BY <2>1, <3>2, SoundForLonger DEF V!Ended
    <2>3. RequestsInv'
      BY <2>1, <2>2 DEF RequestsInv
    <2> QED
      BY <1>0, <2>1, <2>3 DEF ProposalSound
  <1>2. CASE V!Authorizing
    <2>1. PICK r \in V!Needed : V!Authorize(r)
      BY <1>2 DEF V!Authorizing
    <2>2. r \in Capabilities
      BY <2>1 DEF AccountsAssumption, V!ProvisioningAssumption
    <2>3. RequestsInv'
      BY <2>1, <2>2, CheckProceeds
    <2> QED
      BY <1>0, <1>2, <2>3 DEF V!Authorizing, ProposalSound
  <1>3. CASE V!Refuse
    BY <1>0, <1>3, EndSubmissionKeeps DEF V!Refuse
  <1>4. CASE V!ReadSources
    <2>1. CASE ~ V!SourcesAreThere
      BY <1>0, <1>4, <2>1, EndSubmissionKeeps DEF V!ReadSources
    <2>2. CASE V!SourcesAreThere
      <3>1. /\ proposal' = [stage |-> "creating", tenant |-> proposal.tenant, season |-> proposal.season,
                            players |-> Seasons[proposal.season].players, seen |-> V!Ended]
            /\ UNCHANGED <<checks, ended, withdrawn, leagues>>
        BY <1>4, <2>2 DEF V!ReadSources
      <3>2. RequestsInv'
        BY <3>1 DEF RequestsInv, CheckSound, Waiting, Earned, FoundSound, V!Ended
      <3>3. /\ \A r \in V!Needed : V!Trusted(checks[r], proposal.tenant, r) /\ checks[r].member = V!Creator
            /\ Seasons[proposal.season].tenant = proposal.tenant
            /\ V!Creator \in DOMAIN AccountMembers \ ended
        BY <2>2 DEF V!SourcesAreThere
      <3>4. ProposalSound'
        <4>1. V!Creator \notin V!Ended
          BY <3>3 DEF V!Ended, V!Rows, RequestsInv, AccountsAssumption, V!ProvisioningAssumption
        <4>2. /\ proposal'.stage = "creating" /\ proposal'.tenant = proposal.tenant
              /\ proposal'.season = proposal.season /\ proposal'.seen = V!Ended
          BY <3>1
        <4>3. V!Creator' = V!Creator
          BY <3>1 DEF V!Creator
        <4>4. \A r \in V!Needed : V!Trusted(checks'[r], proposal'.tenant, r) /\ checks'[r].member = V!Creator
          BY <3>1, <3>3, <4>2
        <4> QED
          BY <3>3, <4>1, <4>2, <4>3, <4>4 DEF ProposalSound, V!Trusted
      <3> QED
        BY <1>0, <3>1, <3>2, <3>4
    <2> QED
      BY <2>1, <2>2
  <1>5. CASE V!CreateWorkspace
    <2>1. RequestsInv' /\ ProposalSound'
      BY <1>5, EndSubmissionKeeps DEF V!CreateWorkspace
    <2>2. LeaguesFounded'
      <3>1. proposal.stage = "creating" /\
            \/ UNCHANGED leagues
            \/ \E w \in V!Provisioned(proposal.tenant, V!Creator, proposal.players) :
                   leagues' = Append(leagues, V!Stored(w))
        BY <1>5 DEF V!CreateWorkspace
      <3> QED
        BY <1>0, <3>1, StoredSound, AppendedFounded
    <2> QED
      BY <2>1, <2>2
  <1>6. CASE V!RowsChange /\ UNCHANGED <<proposal, leagues>>
    BY <1>0, <1>6, RowsChangeKeeps
  <1> QED
    BY <1>1, <1>2, <1>3, <1>4, <1>5, <1>6 DEF V!ProvisioningNext

LEMMA PermissionsKeep ==
    ASSUME AccountsAssumption, PermissionsInv, UNCHANGED part,
           \/ UNCHANGED permissionVars
           \/ /\ part = "permission" /\ V!AuthorizationNext({"fantasy.league.manage"}, Sought)
              /\ UNCHANGED <<proposal, leagues>>
           \/ part = "provisioning" /\ V!ProvisioningNext
    PROVE  PermissionsInv'
  <1>1. UNCHANGED leagues => (LeaguesFounded => LeaguesFounded')
    <2>1. \A x : LeagueIsFounded(x)' <=> LeagueIsFounded(x)
      BY DEF LeagueIsFounded
    <2> QED
      BY <2>1 DEF LeaguesFounded
  <1>2. CASE UNCHANGED permissionVars
    <2>1. UNCHANGED <<ended, withdrawn, checks, proposal, leagues>>
      BY <1>2 DEF permissionVars
    <2>2. RequestsInv'
      BY <2>1 DEF PermissionsInv, RequestsInv, CheckSound, Waiting, Earned, FoundSound, V!Ended
    <2>3. ProposalSound'
      BY <2>1 DEF PermissionsInv, ProposalSound, V!Creator, V!Trusted
    <2> QED
      BY <1>1, <2>1, <2>2, <2>3 DEF PermissionsInv
  <1>3. CASE /\ part = "permission" /\ V!AuthorizationNext({"fantasy.league.manage"}, Sought)
             /\ UNCHANGED <<proposal, leagues>>
    <2>1. proposal = V!Idle /\ RequestsInv /\ LeaguesFounded
      BY <1>3 DEF PermissionsInv
    <2>2. {"fantasy.league.manage"} \subseteq Capabilities
      BY DEF AccountsAssumption, V!ProvisioningAssumption, V!Needed
    <2>3. RequestsInv'
      <3>1. ASSUME NEW r \in {"fantasy.league.manage"}, NEW u \in Users, NEW t \in V!Askable, NEW c \in Sought,
                   V!Ask(r, u, t, c)
            PROVE  RequestsInv'
        <4>1. t.tenant \in Tenants
          BY DEF V!Askable
        <4> QED
          BY <2>1, <2>2, <3>1, <4>1, AskKeeps
      <3>2. ASSUME NEW r \in {"fantasy.league.manage"}, V!Authorize(r) PROVE RequestsInv'
        BY <2>1, <2>2, <3>2, CheckProceeds
      <3>3. CASE V!RowsChange
        BY <1>3, <2>1, <3>3, RowsChangeKeeps DEF ProposalSound
      <3> QED
        BY <1>3, <3>1, <3>2, <3>3 DEF V!AuthorizationNext
    <2> QED
      BY <1>1, <1>3, <2>1, <2>3 DEF PermissionsInv, ProposalSound
  <1> QED
    BY <1>2, <1>3, ProvisioningKeeps

LEMMA PermissionsSound == PermissionsInv => V!AllowedWasEarned /\ V!LeaguesAreFounded
  <1> SUFFICES ASSUME PermissionsInv PROVE V!AllowedWasEarned /\ V!LeaguesAreFounded
    OBVIOUS
  <1>1. ASSUME NEW r \in Capabilities, checks[r].stage = "allowed" PROVE Earned(checks[r])
    BY <1>1, StagesDiffer DEF PermissionsInv, RequestsInv
  <1>2. V!AllowedWasEarned
    BY <1>1 DEF V!AllowedWasEarned, Earned
  <1>3. V!LeaguesAreFounded
    <2>1. \A i \in DOMAIN leagues : LeagueIsFounded(leagues[i])
      BY DEF PermissionsInv, LeaguesFounded
    <2> QED
      BY <2>1 DEF V!LeaguesAreFounded, LeagueIsFounded
  <1> QED
    BY <1>2, <1>3

-----------------------------------------------------------------------------
(* Delegation: the rows and what was obtained from them *)

Standings == [status : {"ACTIVE", "SUSPENDED", "REVOKED"}, revokedAt : Nat \cup {Nothing}]

EvidenceInv ==
    /\ moment \in Nat /\ standing \in [G!Rows -> Standings]
    /\ \A a \in delegated : a.at \in Nat /\ a.at <= moment
    /\ G!ApprovedByTheAccount

LEMMA EvidenceBegins == G!DelegationInit => EvidenceInv
  BY DEF G!DelegationInit, EvidenceInv, Standings, G!ApprovedByTheAccount

\* What had not been revoked by an instant that has passed, has not been revoked by it now.
LEMMA AdministerKeeps ==
    ASSUME AccountsAssumption, EvidenceInv, NEW r \in G!Rows, G!Administer(r)
    PROVE  EvidenceInv'
  <1>1. UNCHANGED <<moment, delegated>>
    BY DEF G!Administer, G!fantasyVars
  <1>2. standing' \in [G!Rows -> Standings]
    BY DEF G!Administer, EvidenceInv, Standings
  <1>3. ASSUME NEW row \in G!Rows, NEW at \in Nat, at <= moment, G!NotRevokedAt(row, at)
        PROVE  G!NotRevokedAt(row, at)'
    <2>1. \/ standing'[row].revokedAt = standing[row].revokedAt
          \/ standing'[row].revokedAt \in Nat /\ standing'[row].revokedAt >= moment
      BY DEF G!Administer, EvidenceInv, Standings
    <2> QED
      BY <1>3, <2>1 DEF G!NotRevokedAt, EvidenceInv
  <1>4. G!ApprovedByTheAccount'
    BY <1>1, <1>3 DEF G!ApprovedByTheAccount, EvidenceInv, G!Rows, G!Revocable, G!InForce
  <1> QED
    BY <1>1, <1>2, <1>4 DEF EvidenceInv

LEMMA PassMomentKeeps == EvidenceInv /\ G!PassMoment => EvidenceInv'
  BY DEF G!PassMoment, G!fantasyVars, EvidenceInv, G!ApprovedByTheAccount, G!NotRevokedAt, G!InForce

LEMMA ReadsInForce ==
    ASSUME EvidenceInv, NEW row \in G!Rows, NEW term, term.from \in Nat, term.until \in Nat \cup {Nothing},
           ~ G!Revoked(row), ~ (term.from > moment), ~ G!Expired(term)
    PROVE  G!InForce(term, moment) /\ G!NotRevokedAt(row, moment)
  BY DEF EvidenceInv, Standings, G!Revoked, G!Expired, G!InForce, G!NotRevokedAt

LEMMA ObtainedSound ==
    ASSUME AccountsAssumption, EvidenceInv, NEW e \in G!Evidence, NEW c, NEW t, NEW input,
           input.account \in Tenants, NEW a \in G!AuthorityFrom(G!Decision(e, c, t), input)
    PROVE  /\ a.at = moment
           /\ \E d \in DOMAIN Delegations \cap a.references, g \in DOMAIN DelegationGrants \cap a.references :
                /\ Delegations[d].account = a.account /\ DelegationGrants[g].delegation = d
                /\ DelegationGrants[g].capability = a.capability
                /\ Memberships[DelegationGrants[g].membership].user = a.actor
                /\ DelegationGrants[g].approver = Delegations[d].approver
                /\ G!InForce(Delegations[d], a.at) /\ G!InForce(DelegationGrants[g], a.at)
                /\ G!NotRevokedAt(d, a.at) /\ G!NotRevokedAt(g, a.at)
                /\ a.capability = "fantasy.league.activate" =>
                     \E p \in DOMAIN Approvals \cap a.references :
                       /\ Approvals[p].grant = g /\ Approvals[p].by = Delegations[d].approver
                       /\ G!InForce(Approvals[p], a.at) /\ G!NotRevokedAt(p, a.at)
  <1> DEFINE g == DelegationGrants[e.grant]
             d == Delegations[e.delegation]
             p == Approvals[e.approval]
  <1>1. /\ G!Verdict(e, c, t) = "OK" /\ input.capability = c
        /\ t.kind = "ACCOUNT" /\ t.ids["account"] = input.account /\ e.actor = input.actor /\ moment = input.at
        /\ a = [account |-> input.account, source |-> "LEAGUE_DELEGATION", actor |-> input.actor,
                capability |-> input.capability, scope |-> input.scope, at |-> input.at,
                references |-> G!References(e, c)]
    BY DEF G!AuthorityFrom, G!Decision
  <1>2. /\ G!MemberVerdict(e, t) = "OK" /\ G!GrantVerdict(e, c, t) = "OK"
        /\ G!DelegationVerdict(e, c, t) = "OK" /\ G!ApprovalVerdict(e, c) = "OK"
    BY <1>1 DEF G!Verdict
  <1>3. Memberships[e.membership] = [organization |-> e.organization, user |-> e.actor]
    BY <1>2 DEF G!MemberVerdict
  <1>4. /\ e.grant # Nothing /\ g.organization = e.organization /\ g.membership = e.membership /\ g.capability = c
        /\ ~ G!Revoked(e.grant) /\ ~ (g.from > moment) /\ ~ G!Expired(g) /\ G!TargetIsWellFormed(t)
    BY <1>2 DEF G!GrantVerdict
  <1>5. G!IdOf(t, "account") = input.account /\ input.account # Nothing
    <2>1. "account" \in DOMAIN t.ids
      BY <1>1, <1>4 DEF G!TargetIsWellFormed, G!Named
    <2> QED
      BY <1>1, <2>1 DEF G!IdOf, AccountsAssumption, G!DelegationAssumption
  <1>6. /\ G!AccountDelegated(c) /\ e.delegation # Nothing /\ d.account = input.account
        /\ g.delegation = e.delegation /\ g.approver = d.approver
        /\ ~ G!Revoked(e.delegation) /\ ~ (d.from > moment) /\ ~ G!Expired(d)
    BY <1>2, <1>5 DEF G!DelegationVerdict
  <1>7. c = "fantasy.league.activate" =>
            /\ c \in G!ApprovalRequired /\ e.approval # Nothing /\ ~ G!Revoked(e.approval)
            /\ p.grant = e.grant /\ p.by = g.approver /\ ~ (p.from > moment) /\ ~ G!Expired(p)
    BY <1>2, <1>6 DEF G!ApprovalVerdict, G!ApprovalRequired
  <1>8. /\ e.grant \in DOMAIN DelegationGrants /\ e.delegation \in DOMAIN Delegations
        /\ e.approval \in DOMAIN Approvals \cup {Nothing}
    BY <1>4, <1>6 DEF G!Evidence
  <1>9. {e.grant, e.delegation} \subseteq a.references
        /\ (c = "fantasy.league.activate" => e.approval \in a.references)
    BY <1>1, <1>6, <1>7 DEF G!References
  <1>10. G!InForce(g, moment) /\ G!NotRevokedAt(e.grant, moment)
         /\ G!InForce(d, moment) /\ G!NotRevokedAt(e.delegation, moment)
    <2>1. /\ g.from \in Nat /\ g.until \in Nat \cup {Nothing} /\ d.from \in Nat /\ d.until \in Nat \cup {Nothing}
          /\ e.grant \in G!Rows /\ e.delegation \in G!Rows
      BY <1>8 DEF AccountsAssumption, G!DelegationAssumption, G!Terms, G!Rows, G!Revocable
    <2> HIDE DEF g, d
    <2> QED
      BY <1>4, <1>6, <2>1, ReadsInForce
  <1>11. c = "fantasy.league.activate" => G!InForce(p, moment) /\ G!NotRevokedAt(e.approval, moment)
    <2> SUFFICES ASSUME c = "fantasy.league.activate"
                 PROVE  G!InForce(p, moment) /\ G!NotRevokedAt(e.approval, moment)
      OBVIOUS
    <2>1. p.from \in Nat /\ p.until \in Nat \cup {Nothing} /\ e.approval \in G!Rows
      BY <1>7, <1>8 DEF AccountsAssumption, G!DelegationAssumption, G!Terms, G!Rows, G!Revocable
    <2> HIDE DEF p
    <2> QED
      BY <1>7, <2>1, ReadsInForce
  <1>12. /\ a.at = moment /\ a.account = input.account /\ a.capability = c /\ a.actor = e.actor
    BY <1>1
  <1>13. Memberships[g.membership].user = a.actor
    BY <1>3, <1>4, <1>12
  <1>14. c = "fantasy.league.activate" =>
             \E q \in DOMAIN Approvals \cap a.references :
                /\ Approvals[q].grant = e.grant /\ Approvals[q].by = d.approver
                /\ G!InForce(Approvals[q], moment) /\ G!NotRevokedAt(q, moment)
    BY <1>6, <1>7, <1>8, <1>9, <1>11
  <1> QED
    BY <1>4, <1>6, <1>8, <1>9, <1>10, <1>12, <1>13, <1>14

LEMMA AskKeepsEvidence ==
    ASSUME AccountsAssumption, EvidenceInv, G!Ask
    PROVE  EvidenceInv'
  <1>1. PICK e \in G!Evidence, c \in Demands, t \in Delegable : G!Delegate(e, c, t)
    BY DEF G!Ask
  <1>2. UNCHANGED <<moment, standing>>
    BY <1>1 DEF G!Delegate, G!administrationVars
  <1>3. PICK owner \in Tenants, actor \in Actors, scope \in {G!WholeAccount, G!WholeLeague("league")} :
            \E a \in G!AuthorityFrom(G!Decision(e, c, t),
                        [account |-> owner, actor |-> actor, capability |-> c, scope |-> scope, at |-> moment]) :
                delegated' = delegated \cup {a}
    BY <1>1 DEF G!Delegate
  <1> DEFINE input == [account |-> owner, actor |-> actor, capability |-> c, scope |-> scope, at |-> moment]
  <1>4. PICK a \in G!AuthorityFrom(G!Decision(e, c, t), input) : delegated' = delegated \cup {a}
    BY <1>3
  <1>5. input.account \in Tenants
    OBVIOUS
  <1> HIDE DEF input
  <1>6. /\ a.at = moment
        /\ \E d \in DOMAIN Delegations \cap a.references, g \in DOMAIN DelegationGrants \cap a.references :
                /\ Delegations[d].account = a.account /\ DelegationGrants[g].delegation = d
                /\ DelegationGrants[g].capability = a.capability
                /\ Memberships[DelegationGrants[g].membership].user = a.actor
                /\ DelegationGrants[g].approver = Delegations[d].approver
                /\ G!InForce(Delegations[d], a.at) /\ G!InForce(DelegationGrants[g], a.at)
                /\ G!NotRevokedAt(d, a.at) /\ G!NotRevokedAt(g, a.at)
                /\ a.capability = "fantasy.league.activate" =>
                     \E p \in DOMAIN Approvals \cap a.references :
                       /\ Approvals[p].grant = g /\ Approvals[p].by = Delegations[d].approver
                       /\ G!InForce(Approvals[p], a.at) /\ G!NotRevokedAt(p, a.at)
    BY <1>4, <1>5, ObtainedSound
  <1>7. \A row, at : G!NotRevokedAt(row, at)' <=> G!NotRevokedAt(row, at)
    BY <1>2 DEF G!NotRevokedAt
  <1>8. G!ApprovedByTheAccount'
    BY <1>4, <1>6, <1>7 DEF EvidenceInv, G!ApprovedByTheAccount, G!InForce
  <1> QED
    BY <1>2, <1>4, <1>6, <1>8 DEF EvidenceInv

-----------------------------------------------------------------------------
(* Delegation: a league and a team *)

LeagueInTurn ==
    fantasyLeague # Nothing =>
        /\ fantasyLeague \in G!Leagues
        /\ fantasyLeague.stage = "ACTIVE" => fantasyLeague.since["ACTIVE"] # Nothing
        /\ fantasyLeague.since["ACTIVE"] # Nothing =>
               /\ \E s \in signed : /\ s.change = "ACTIVE" /\ s.by.capability = "fantasy.league.activate"
                                   /\ G!Cardinality(s.by.references) >= 2
               /\ [content |-> fantasyLeague.rules, stage |-> "ACTIVE"] \in models

TeamFields == {"id", "account", "league", "owner", "stage", "revision", "since"}
TeamInTurn ==
    fantasyTeam # Nothing =>
        /\ fantasyLeague # Nothing
        /\ fantasyTeam = [f \in TeamFields |-> fantasyTeam[f]] /\ DOMAIN fantasyTeam.since = G!TeamStages
        /\ fantasyTeam.account = fantasyLeague.account
        /\ fantasyTeam.since["ACTIVE"] # Nothing => fantasyLeague.since["ACTIVE"] # Nothing

TurnInv ==
    /\ \A m \in models : m = [content |-> Rules, stage |-> m.stage]
    /\ LeagueInTurn /\ TeamInTurn
    /\ fantasyLeague = Nothing => signed = {}
    /\ \A s \in signed : s.by.account = fantasyLeague.account

LEMMA TurnBegins == G!DelegationInit => TurnInv
  BY DEF G!DelegationInit, TurnInv, LeagueInTurn, TeamInTurn, G!NewModel

LEMMA AdvanceRulesKeeps == TurnInv /\ G!AdvanceRules => TurnInv'
  <1> SUFFICES ASSUME TurnInv, G!AdvanceRules PROVE TurnInv'
    OBVIOUS
  <1>0. PICK m \in models, to \in {"REVIEWED", "ACTIVE", "DEPRECATED", "RETIRED"} :
            \E n \in G!TransitionModel(m, to) : models' = models \cup {n}
    BY DEF G!AdvanceRules
  <1>1. PICK n \in G!TransitionModel(m, to) : models' = models \cup {n}
    BY <1>0
  <1>2. n = [m EXCEPT !.stage = to]
    BY <1>1 DEF G!TransitionModel
  <1>3. m = [content |-> Rules, stage |-> m.stage]
    BY DEF TurnInv
  <1>4. n = [content |-> Rules, stage |-> n.stage]
    BY <1>2, <1>3
  <1>5. UNCHANGED <<fantasyLeague, fantasyTeam, signed>>
    BY DEF G!AdvanceRules
  <1> QED
    BY <1>1, <1>4, <1>5 DEF TurnInv, LeagueInTurn, TeamInTurn

LEMMA GMoved ==
    ASSUME NEW v, NEW to, NEW at
    PROVE  G!Moved(v, to, at)
           = [f \in DOMAIN v |-> IF f = "since" THEN [v.since EXCEPT ![to] = at]
                                 ELSE IF f = "revision" THEN v.revision + 1
                                 ELSE IF f = "stage" THEN to ELSE v[f]]
  <1>1. ASSUME NEW x, NEW y
        PROVE  [v EXCEPT !.stage = to, !.revision = x, !.since = y]
               = [f \in DOMAIN v |-> IF f = "since" THEN y ELSE IF f = "revision" THEN x
                                     ELSE IF f = "stage" THEN to ELSE v[f]]
    BY Zenon
  <1>2. G!Moved(v, to, at)
        = [v EXCEPT !.stage = to, !.revision = v.revision + 1, !.since = [v.since EXCEPT ![to] = at]]
    BY Zenon DEF G!Moved
  <1> QED
    BY <1>1, <1>2

LEMMA CreateLeagueKeeps ==
    ASSUME AccountsAssumption, EvidenceInv, TurnInv, G!CreateLeague
    PROVE  TurnInv'
  <1>1. fantasyLeague = Nothing /\ signed = {} /\ fantasyTeam = Nothing
    BY DEF G!CreateLeague, TurnInv, TeamInTurn
  <1>2. PICK owner \in Tenants, m \in models, a \in G!Held :
            \E l \in G!CreateFantasyLeague([id |-> "league", account |-> owner, administration |-> Nothing,
                                           at |-> moment], m, a) :
               fantasyLeague' = l /\ G!Sign("league", a)
    BY DEF G!CreateLeague
  <1>3. /\ fantasyLeague' = [id |-> "league", account |-> owner, rules |-> m.content, stage |-> "DRAFT",
                             revision |-> 0, since |-> G!Since(G!LeagueStages, moment)]
        /\ a.account = owner /\ signed' = {[change |-> "league", by |-> a]}
    BY <1>1, <1>2 DEF G!CreateFantasyLeague, G!Authorized, G!Sign
  <1>4. m.content = Rules
    BY <1>2 DEF TurnInv
  <1>5. /\ G!Since(G!LeagueStages, moment) \in [G!LeagueStages -> Nat \cup {Nothing}]
        /\ G!Since(G!LeagueStages, moment)["ACTIVE"] = Nothing
    BY DEF G!Since, G!LeagueStages, EvidenceInv
  <1>6. fantasyLeague' \in G!Leagues
    BY <1>3, <1>4, <1>5 DEF G!Leagues, G!LeagueStages
  <1>7. fantasyLeague' # Nothing
    BY <1>6 DEF AccountsAssumption, G!DelegationAssumption
  <1>8. UNCHANGED <<models, fantasyTeam>>
    BY DEF G!CreateLeague
  <1>9. fantasyLeague'.stage = "DRAFT" /\ fantasyLeague'.since["ACTIVE"] = Nothing /\ fantasyLeague'.account = owner
    BY <1>3, <1>5
  <1>10. \A s \in signed' : s.by.account = fantasyLeague'.account
    BY <1>3, <1>9
  <1>11. LeagueInTurn' /\ TeamInTurn'
    BY <1>1, <1>6, <1>8, <1>9 DEF LeagueInTurn, TeamInTurn
  <1> QED
    BY <1>7, <1>8, <1>10, <1>11 DEF TurnInv

LEMMA MoveLeagueKeeps ==
    ASSUME AccountsAssumption, EvidenceInv, TurnInv, G!MoveLeague
    PROVE  TurnInv'
  <1>1. PICK to \in G!LeagueStages, at \in 0 .. moment, m \in models, a \in G!Held :
            \E l \in G!TransitionFantasyLeague(fantasyLeague, to, at, a, m) :
               fantasyLeague' = l /\ G!Sign(to, a)
    BY DEF G!MoveLeague
  <1>2. /\ fantasyLeague # Nothing /\ fantasyLeague \in G!Leagues
        /\ UNCHANGED <<models, fantasyTeam>>
    BY DEF G!MoveLeague, TurnInv, LeagueInTurn
  <1>3. fantasyLeague' = G!Moved(fantasyLeague, to, at) /\ signed' = signed \cup {[change |-> to, by |-> a]}
    BY <1>1 DEF G!TransitionFantasyLeague, G!Sign
  <1>4. /\ <<fantasyLeague.stage, to>> \in G!LeagueSteps
        /\ a.account = fantasyLeague.account
        /\ m.content = fantasyLeague.rules /\ (to = "ACTIVE" => m.stage = "ACTIVE")
        /\ fantasyLeague.stage = "DRAFT" /\ to = "ACTIVE" =>
               a.capability = "fantasy.league.activate" /\ G!Cardinality(a.references) >= 2
    BY <1>1 DEF G!TransitionFantasyLeague, G!Authorized, G!BoundTo
  <1>5. at \in Nat /\ at # Nothing
    BY DEF EvidenceInv, AccountsAssumption, G!DelegationAssumption
  <1>6. /\ fantasyLeague' \in G!Leagues /\ fantasyLeague'.stage = to
        /\ fantasyLeague'.account = fantasyLeague.account /\ fantasyLeague'.rules = fantasyLeague.rules
        /\ fantasyLeague'.since = [fantasyLeague.since EXCEPT ![to] = at]
    <2> DEFINE moved == [f \in DOMAIN fantasyLeague |->
                            IF f = "since" THEN [fantasyLeague.since EXCEPT ![to] = at]
                            ELSE IF f = "revision" THEN fantasyLeague.revision + 1
                            ELSE IF f = "stage" THEN to ELSE fantasyLeague[f]]
    <2>1. fantasyLeague' = moved
      BY <1>3, GMoved
    <2>2. [fantasyLeague.since EXCEPT ![to] = at] \in [G!LeagueStages -> Nat \cup {Nothing}]
      BY <1>2, <1>5 DEF G!Leagues
    <2> QED
      BY <1>2, <2>1, <2>2 DEF G!Leagues
  <1>7. fantasyLeague.since \in [G!LeagueStages -> Nat \cup {Nothing}]
    BY <1>2 DEF G!Leagues
  <1>8. CASE to = "ACTIVE"
    <2>1. fantasyLeague.stage = "DRAFT"
      BY <1>4, <1>8 DEF G!LeagueSteps
    <2>2. fantasyLeague'.since["ACTIVE"] # Nothing
      BY <1>5, <1>6, <1>7, <1>8
    <2>3. m = [content |-> fantasyLeague.rules, stage |-> "ACTIVE"]
      BY <1>4, <1>8 DEF TurnInv
    <2>4. \E s \in signed' : /\ s.change = "ACTIVE" /\ s.by.capability = "fantasy.league.activate"
                            /\ G!Cardinality(s.by.references) >= 2
      <3>1. [change |-> to, by |-> a] \in signed'
        BY <1>3
      <3> QED
        BY <1>4, <1>8, <2>1, <3>1
    <2>5. LeagueInTurn'
      BY <1>2, <1>6, <2>2, <2>3, <2>4 DEF LeagueInTurn
    <2>6. TeamInTurn'
      BY <1>2, <1>6, <2>2, <1>7 DEF TeamInTurn, TurnInv, AccountsAssumption, G!DelegationAssumption
    <2> QED
      BY <1>2, <1>3, <1>4, <1>6, <2>5, <2>6 DEF TurnInv, AccountsAssumption, G!DelegationAssumption
  <1>9. CASE to # "ACTIVE"
    <2>1. fantasyLeague'.since["ACTIVE"] = fantasyLeague.since["ACTIVE"]
      BY <1>6, <1>7, <1>9 DEF G!LeagueStages
    <2>2. LeagueInTurn'
      BY <1>2, <1>3, <1>6, <1>9, <2>1 DEF TurnInv, LeagueInTurn
    <2>3. TeamInTurn'
      BY <1>2, <1>6, <2>1 DEF TeamInTurn, TurnInv, AccountsAssumption, G!DelegationAssumption
    <2> QED
      BY <1>2, <1>3, <1>4, <1>6, <2>2, <2>3 DEF TurnInv, AccountsAssumption, G!DelegationAssumption
  <1> QED
    BY <1>8, <1>9

LEMMA CreateTeamKeeps ==
    ASSUME AccountsAssumption, EvidenceInv, TurnInv, G!CreateTeam
    PROVE  TurnInv'
  <1>1. PICK owner \in Tenants, a \in G!Held :
            \E t \in G!CreateFantasyTeam([id |-> "team", account |-> owner, league |-> "league",
                                         owner |-> "manager", at |-> moment], fantasyLeague, a) :
               fantasyTeam' = t /\ G!Sign("team", a)
    BY DEF G!CreateTeam
  <1>2. fantasyLeague # Nothing /\ UNCHANGED <<models, fantasyLeague>>
    BY DEF G!CreateTeam
  <1>3. /\ fantasyTeam' = [id |-> "team", account |-> owner, league |-> "league", owner |-> "manager",
                           stage |-> "DRAFT", revision |-> 0, since |-> G!Since(G!TeamStages, moment)]
        /\ a.account = owner /\ owner = fantasyLeague.account
        /\ signed' = signed \cup {[change |-> "team", by |-> a]}
    BY <1>1 DEF G!CreateFantasyTeam, G!Authorized, G!InLeague, G!Sign
  <1>4. DOMAIN G!Since(G!TeamStages, moment) = G!TeamStages /\ G!Since(G!TeamStages, moment)["ACTIVE"] = Nothing
    BY DEF G!Since, G!TeamStages
  <1>5. TeamInTurn'
    <2>1. /\ fantasyTeam' = [f \in TeamFields |-> fantasyTeam'[f]]
          /\ fantasyTeam'.since = G!Since(G!TeamStages, moment) /\ fantasyTeam'.account = owner
      BY <1>3 DEF TeamFields
    <2> QED
      BY <1>2, <1>3, <1>4, <2>1 DEF TeamInTurn
  <1>6. LeagueInTurn'
    BY <1>2, <1>3 DEF TurnInv, LeagueInTurn
  <1> QED
    BY <1>2, <1>3, <1>5, <1>6 DEF TurnInv

LEMMA MoveTeamKeeps ==
    ASSUME AccountsAssumption, EvidenceInv, TurnInv, G!MoveTeam
    PROVE  TurnInv'
  <1>1. PICK to \in G!TeamStages, at \in 0 .. moment, a \in G!Held :
            \E t \in G!TransitionFantasyTeam(fantasyTeam, fantasyLeague, to, at, a) :
               fantasyTeam' = t /\ G!Sign("team", a)
    BY DEF G!MoveTeam
  <1>2. fantasyTeam # Nothing /\ UNCHANGED <<models, fantasyLeague>>
    BY DEF G!MoveTeam
  <1>3. /\ fantasyLeague # Nothing /\ fantasyTeam = [f \in TeamFields |-> fantasyTeam[f]]
        /\ DOMAIN fantasyTeam.since = G!TeamStages /\ fantasyTeam.account = fantasyLeague.account
        /\ fantasyTeam.since["ACTIVE"] # Nothing => fantasyLeague.since["ACTIVE"] # Nothing
    BY <1>2 DEF TurnInv, TeamInTurn
  <1>4. /\ fantasyTeam' = G!Moved(fantasyTeam, to, at) /\ signed' = signed \cup {[change |-> "team", by |-> a]}
        /\ a.account = fantasyTeam.account /\ (to = "ACTIVE" => fantasyLeague.stage = "ACTIVE")
    BY <1>1 DEF G!TransitionFantasyTeam, G!Authorized, G!Sign
  <1> DEFINE moved == [f \in TeamFields |->
                         IF f = "since" THEN [fantasyTeam.since EXCEPT ![to] = at]
                         ELSE IF f = "revision" THEN fantasyTeam.revision + 1
                         ELSE IF f = "stage" THEN to ELSE fantasyTeam[f]]
  <1>5. fantasyTeam' = moved
    BY <1>3, <1>4, GMoved
  <1>6. /\ moved = [f \in TeamFields |-> moved[f]] /\ moved.account = fantasyTeam.account
        /\ moved.since = [fantasyTeam.since EXCEPT ![to] = at]
    BY DEF TeamFields
  <1>7. /\ DOMAIN moved.since = G!TeamStages
        /\ to # "ACTIVE" => moved.since["ACTIVE"] = fantasyTeam.since["ACTIVE"]
    BY <1>3, <1>6 DEF G!TeamStages
  <1> HIDE DEF moved
  <1>8. fantasyLeague.stage = "ACTIVE" => fantasyLeague.since["ACTIVE"] # Nothing
    BY <1>3 DEF TurnInv, LeagueInTurn
  <1>9. TeamInTurn'
    BY <1>2, <1>3, <1>4, <1>5, <1>6, <1>7, <1>8 DEF TeamInTurn
  <1>10. LeagueInTurn'
    BY <1>2, <1>4 DEF TurnInv, LeagueInTurn
  <1> QED
    BY <1>2, <1>3, <1>4, <1>9, <1>10 DEF TurnInv

-----------------------------------------------------------------------------
(* The invariant of authority *)

AuthorityInv == PermissionsInv /\ EvidenceInv /\ TurnInv

LEMMA DelegationKeeps ==
    ASSUME AccountsAssumption, EvidenceInv, TurnInv,
           UNCHANGED delegationVars \/ G!EvidenceNext \/ G!ChangesNext
    PROVE  EvidenceInv' /\ TurnInv'
  <1>1. UNCHANGED <<models, fantasyLeague, fantasyTeam, signed>> => TurnInv'
    BY DEF TurnInv, LeagueInTurn, TeamInTurn
  <1>2. UNCHANGED <<moment, standing, delegated>> => EvidenceInv'
    BY DEF EvidenceInv, G!ApprovedByTheAccount, G!NotRevokedAt, G!InForce
  <1>3. CASE UNCHANGED delegationVars
    BY <1>1, <1>2, <1>3 DEF delegationVars
  <1>4. CASE G!Ask
    <2>1. UNCHANGED <<models, fantasyLeague, fantasyTeam, signed>>
      BY <1>4 DEF G!Ask, G!Delegate
    <2> QED
      BY <1>1, <1>4, <2>1, AskKeepsEvidence
  <1>5. CASE G!PassMoment
    BY <1>1, <1>5, PassMomentKeeps DEF G!PassMoment, G!fantasyVars
  <1>6. ASSUME NEW r \in G!Rows, G!Administer(r) PROVE EvidenceInv' /\ TurnInv'
    <2>1. UNCHANGED <<models, fantasyLeague, fantasyTeam, signed>>
      BY <1>6 DEF G!Administer, G!fantasyVars
    <2> QED
      BY <1>1, <1>6, <2>1, AdministerKeeps
  <1>7. CASE G!AdvanceRules \/ G!CreateLeague \/ G!MoveLeague \/ G!CreateTeam \/ G!MoveTeam
    <2>1. UNCHANGED <<moment, standing, delegated>>
      BY <1>7 DEF G!AdvanceRules, G!CreateLeague, G!MoveLeague, G!CreateTeam, G!MoveTeam, G!administrationVars
    <2> QED
      BY <1>2, <1>7, <2>1, AdvanceRulesKeeps, CreateLeagueKeeps, MoveLeagueKeeps, CreateTeamKeeps, MoveTeamKeeps
  <1> QED
    BY <1>3, <1>4, <1>5, <1>6, <1>7 DEF G!EvidenceNext, G!ChangesNext

LEMMA DelegationSound == TurnInv /\ EvidenceInv => G!DelegationHolds
  BY DEF TurnInv, EvidenceInv, LeagueInTurn, TeamInTurn, G!DelegationHolds, G!ActivatedInTurn

\* An authority obtained from a delegation was approved by the account it acts on, and leagues
\* and teams advance as far as such authorities allow, in turn.  What a person is allowed in an
\* account was permitted by its own assignments of the time, and a league that is stored was
\* created and activated on such permissions, for a season of the account.
THEOREM AuthorityCorrect == AccountsSpec => []AuthorityHolds
  <1> USE AccountsAssumption
  <1>1. AccountsInit => AuthorityInv
    BY PermissionsBegin, EvidenceBegins, TurnBegins DEF AccountsInit, AuthorityInv
  <1>2. AuthorityInv /\ [AccountsNext]_accountsVars => AuthorityInv'
    <2> SUFFICES ASSUME AuthorityInv, [AccountsNext]_accountsVars PROVE AuthorityInv'
      OBVIOUS
    <2>1. UNCHANGED part /\ \/ UNCHANGED <<permissionVars, delegationVars>>
                            \/ UNCHANGED permissionVars /\ (G!EvidenceNext \/ G!ChangesNext)
                            \/ /\ UNCHANGED delegationVars
                               /\ \/ /\ part = "permission"
                                     /\ V!AuthorizationNext({"fantasy.league.manage"}, Sought)
                                     /\ UNCHANGED <<proposal, leagues>>
                                  \/ part = "provisioning" /\ V!ProvisioningNext
      BY DEF AccountsNext, accountsVars, authorityVars
    <2>2. PermissionsInv'
      BY <2>1, PermissionsKeep DEF AuthorityInv
    <2>3. EvidenceInv' /\ TurnInv'
      BY <2>1, DelegationKeeps DEF AuthorityInv
    <2> QED
      BY <2>2, <2>3 DEF AuthorityInv
  <1>3. AuthorityInv => AuthorityHolds
    BY PermissionsSound, DelegationSound DEF AuthorityInv, AuthorityHolds
  <1> QED
    BY <1>1, <1>2, <1>3, PTL DEF AccountsSpec
=============================================================================
