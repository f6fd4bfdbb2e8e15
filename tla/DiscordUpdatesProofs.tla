------------------------ MODULE DiscordUpdatesProofs -------------------------
(***************************************************************************)
(* Proofs about the Discord update worker: whatever overlaps, dies, stalls *)
(* or loses its answer, the rows stay well formed, a game edited live has  *)
(* one message, and what a message shows only advances.                    *)
(***************************************************************************)
EXTENDS DiscordUpdates, FiniteSetTheorems, TLAPS

Induction == INSTANCE Recursion WITH First <- LAMBDA p : p, Step <- LAMBDA p, x, n : x

-----------------------------------------------------------------------------
(* The invariant *)

Phases == {"idle", "claimEvaluations", "evaluating", "loaded", "claimDeliveries", "delivering",
           "checked", "sent"}
Strategies == {"EDIT_LIVE_MESSAGE", "APPEND_EVENTS", "FINAL_ONLY", "PERIODIC_SUMMARY"}
Statuses == {"PENDING", "PROCESSING", "SUCCEEDED", "DEAD_LETTER", "CANCELLED", "ABSENT"}
WorkRow == [status : Statuses, attempts : 0 .. MaxAttempts, owner : {None, Identity}, due : BOOLEAN]
DeliveryRow == [work : WorkRow, operation : {"CREATE", "EDIT", "APPEND"}, target : Keys \cup {None},
                message : Keys \cup {None}, content : 0 .. MaxRevision]
SettingsRow == [revision : Nat, enabled : BOOLEAN, refresh : BOOLEAN, strategy : Strategies,
                cadence : {"EVENT_DRIVEN", "FIXED_INTERVAL", "MANUAL_ONLY"},
                slot : {"none", "waiting", "due"}]

\* Every write of the settings uses up one of the writes that are left.
SettingsSound(row, l) ==
    /\ row \in SettingsRow /\ 1 <= row.revision
    /\ l \in [Faults -> Nat] /\ row.revision + l["changes"] <= 1 + MaxChanges

\* A lease has an owner, and a row that may be attempted has an attempt left.
Leasable(work) ==
    /\ work \in WorkRow
    /\ work.status = "PROCESSING" <=> work.owner # None
    /\ work.status \in Live => work.attempts < MaxAttempts
EvaluationsSound(e) == e \in [Keys -> WorkRow] /\ \A k \in Keys : Leasable(e[k])

\* A delivery has a target exactly for an edit and a message exactly for a success, and
\* what is edited is in the channel; it belongs to an evaluation that succeeded.
Sendable(row, shown) ==
    /\ row \in DeliveryRow /\ Leasable(row.work)
    /\ row.operation = "EDIT" <=> row.target # None
    /\ row.work.status = "SUCCEEDED" <=> row.message # None
    /\ row.target # None => shown[row.target] > 0
    /\ row.message # None => shown[row.message] > 0
    /\ row.work.status # "ABSENT" => row.content > 0
DeliveriesSound(d, e, shown, r) ==
    /\ d \in [Keys -> DeliveryRow] /\ shown \in [Keys -> Nat]
    /\ \A k \in Keys :
          /\ Sendable(d[k], shown)
          /\ d[k].work.status # "ABSENT" => e[k].status = "SUCCEEDED"
          /\ shown[k] > 0 => d[k].work.status # "ABSENT"
          /\ shown[k] <= r /\ d[k].content <= r

\* What a cycle still has to do something with.
InHand(y) == y.batch \cup ({y.current} \ {None})
Evaluating(y) == IF y.phase \in {"evaluating", "loaded"} THEN InHand(y) ELSE {}
Sending(y) == IF y.phase \in {"delivering", "checked", "sent"} THEN InHand(y) ELSE {}

CycleShape(y, r) ==
    /\ y \in [phase : Phases, batch : SUBSET Keys, current : Keys \cup {None}, result : {y.result},
              aborted : BOOLEAN, aim : {y.aim}]
    /\ y.phase \in {"loaded", "checked", "sent"} <=> y.current # None
    /\ y.phase \in {"idle", "claimEvaluations", "claimDeliveries"} => y.batch = {}
    /\ y.current \notin y.batch
    /\ y.phase = "loaded" => y.result \in Int /\ y.result <= r
\* What a claimed delivery writes is the message of its own name, or one that is there.
AimSound(k, to, shown) ==
    to \in [edit : BOOLEAN, id : Keys] /\ IF to.edit THEN shown[to.id] > 0 ELSE to.id = k
CycleSound(y, r, e, d, shown) ==
    /\ CycleShape(y, r)
    /\ \A k \in Evaluating(y) : e[k].status # "ABSENT"
    /\ \A k \in Sending(y) : d[k].work.status # "ABSENT" /\ AimSound(k, y.aim[k], shown)
    /\ y.phase = "sent" /\ y.result = "SUCCEEDED" => shown[y.aim[y.current].id] > 0
CyclesSound(y, r, e, d, shown) ==
    DOMAIN y = Cycles /\ \A c \in Cycles : CycleSound(y[c], r, e, d, shown)

\* Evaluations that were enqueued in the order of the revisions are one of a revision, and
\* are claimed, answered and delivered in that order.
Earlier(k) == {p \in Keys : p.source < k.source}
EvaluatedInOrder(e) ==
    /\ \A j, k \in Keys :
          e[j].status # "ABSENT" /\ e[k].status # "ABSENT" /\ j.source = k.source => j = k
    /\ \A k \in Keys : e[k].status \in {"PROCESSING", "SUCCEEDED", "DEAD_LETTER"}
          => \A p \in Earlier(k) : e[p].status \notin Live
DeliveredInOrder(d, y) ==
    /\ \A k \in Keys : d[k].work.status = "PROCESSING"
          => \A p \in Earlier(k) : d[p].work.status \notin Live
    /\ \A c \in Cycles : \A k \in Sending(y[c]) : \A p \in Earlier(k) : d[p].work.status \notin Live

\* When messages are edited live, no earlier delivery of one that creates a message has
\* succeeded or still can.
Fruitless(k, d) == \A p \in Earlier(k) : d[p].work.status \in {"ABSENT", "DEAD_LETTER", "CANCELLED"}
CreatesFirst(d, shown, y) ==
    /\ \A m \in Keys : shown[m] > 0 => Fruitless(m, d)
    /\ \A c \in Cycles : \A k \in Sending(y[c]) : ~y[c].aim[k].edit => Fruitless(k, d)

\* While leases are kept, what is in hand is leased, to one cycle.
LeasedOnce(work, hand) ==
    /\ \A c \in Cycles : \A k \in hand[c] : work[k].status = "PROCESSING" /\ ~work[k].due
    /\ \A c, d \in Cycles : c # d => hand[c] \cap hand[d] = {}
LeasesKept(e, d, y) ==
    /\ LeasedOnce(e, [c \in Cycles |-> Evaluating(y[c])])
    /\ LeasedOnce([k \in Keys |-> d[k].work], [c \in Cycles |-> Sending(y[c])])
\* A later delivery has a later content, and what can still be sent is not older than
\* what is shown; nor is a game that was loaded.
ContentsAdvance(d, shown, y) ==
    /\ \A j, k \in Keys :
          d[j].work.status # "ABSENT" /\ d[k].work.status # "ABSENT" /\ j.source < k.source
          => d[j].content <= d[k].content
    /\ \A k \in Keys : d[k].work.status \in Live => \A m \in Keys : shown[m] <= d[k].content
    /\ \A c \in Cycles : y[c].phase = "loaded" /\ y[c].result > 0 =>
          \A k \in Keys : d[k].content <= y[c].result /\ shown[k] <= y[c].result

RowsSound ==
    /\ revision \in 0 .. MaxRevision /\ signalled \subseteq Signals
    /\ SettingsSound(settings, left)
    /\ history \in [inOrder : BOOLEAN, onTime : BOOLEAN]
    /\ EvaluationsSound(evaluation)
    /\ DeliveriesSound(delivery, evaluation, channel, revision)
UpdatesInv ==
    /\ RowsSound
    /\ CyclesSound(cycle, revision, evaluation, delivery, channel)
    /\ history.inOrder => EvaluatedInOrder(evaluation) /\ DeliveredInOrder(delivery, cycle)
    /\ history.inOrder /\ settings.strategy = "EDIT_LIVE_MESSAGE"
          => CreatesFirst(delivery, channel, cycle)
    /\ history.inOrder /\ history.onTime
          => LeasesKept(evaluation, delivery, cycle) /\ ContentsAdvance(delivery, channel, cycle)

LEMMA KeyFacts ==
    /\ \A k \in Keys : k.source \in 1 .. MaxRevision
    /\ \A g \in Signals, n \in 1 .. 1 + MaxChanges :
          [settings |-> n, source |-> g.source, trigger |-> g.trigger] \in Keys
    /\ \A r \in 1 .. MaxRevision, n \in 1 .. 1 + MaxChanges :
          [settings |-> n, source |-> r, trigger |-> ScheduledTrigger(r)] \in Keys
  <1>1. \A g \in Signals : g.source \in 1 .. MaxRevision /\ g.trigger \in TriggersAt(g.source)
    BY DiscordAssumption DEF TriggersAt
  <1>2. \A r \in 1 .. MaxRevision : ScheduledTrigger(r) \in TriggersAt(r)
    BY DEF TriggersAt
  <1>3. ASSUME NEW r \in 1 .. MaxRevision, NEW t \in TriggersAt(r), NEW n \in 1 .. 1 + MaxChanges
        PROVE  [settings |-> n, source |-> r, trigger |-> t] \in Keys
    BY DEF Keys
  <1>4. \A k \in Keys : k.source \in 1 .. MaxRevision
    BY DEF Keys
  <1> QED
    BY <1>1, <1>2, <1>3, <1>4

\* A set of keys that has an element has one of the greatest source.
LEMMA GreatestSource ==
    ASSUME NEW T, T \subseteq Keys, T # {}
    PROVE  \E k \in T : \A o \in T : o.source <= k.source
  <1> DEFINE D == {MaxRevision - k.source : k \in T}
  <1>1. MaxRevision \in Nat
    BY DiscordAssumption
  <1>2. \A k \in T : k.source \in 1 .. MaxRevision
    BY KeyFacts
  <1>3. D \subseteq Nat /\ D # {}
    BY <1>1, <1>2
  <1>4. PICK m \in D : \A n \in D : m <= n
    <2> HIDE DEF D
    <2> QED
      BY <1>3, Induction!SmallestElement
  <1>5. PICK k \in T : m = MaxRevision - k.source
    BY <1>4
  <1>6. \A o \in T : o.source <= k.source
    <2>1. ASSUME NEW o \in T PROVE o.source <= k.source
      <3>1. m <= MaxRevision - o.source
        BY <1>4
      <3> QED
        BY <1>1, <1>2, <1>5, <3>1
    <2> QED
      BY <2>1
  <1> QED
    BY <1>6

-----------------------------------------------------------------------------
(* What goes on without anything new *)

\* Rows stay, and what has succeeded or is no longer alive stays so; nothing is claimed.
Begun == {"PROCESSING", "SUCCEEDED", "DEAD_LETTER"}
Over  == {"ABSENT", "DEAD_LETTER", "CANCELLED"}
Stands(w, x) ==
    /\ x.status = "ABSENT" <=> w.status = "ABSENT"
    /\ w.status = "SUCCEEDED" => x.status = "SUCCEEDED"
    /\ x.status \in Live => w.status \in Live
    /\ x.status \in Begun => w.status \in Begun
    /\ w.status \in Over => x.status \in Over
    /\ x.status = "PROCESSING" => w.status = "PROCESSING"
Smaller(y, z) ==
    \A c \in Cycles : /\ Sending(z[c]) \subseteq Sending(y[c])
                      /\ Sending(z[c]) # {} => z[c].aim = y[c].aim

LEMMA OrderOfEvaluationsStands ==
    ASSUME NEW e, NEW f, EvaluatedInOrder(e), \A k \in Keys : Stands(e[k], f[k])
    PROVE  EvaluatedInOrder(f)
  <1> QED
    BY DEF EvaluatedInOrder, Stands, Begun, Earlier

LEMMA OrderOfDeliveriesStands ==
    ASSUME NEW d, NEW f, NEW y, NEW z, DeliveredInOrder(d, y), Smaller(y, z),
           \A k \in Keys : Stands(d[k].work, f[k].work)
    PROVE  DeliveredInOrder(f, z)
  <1> QED
    BY DEF DeliveredInOrder, Stands, Earlier, Smaller

LEMMA FruitlessStands ==
    ASSUME NEW d, NEW f, NEW k, Fruitless(k, d), \A p \in Keys : Stands(d[p].work, f[p].work)
    PROVE  Fruitless(k, f)
  <1> QED
    BY DEF Fruitless, Stands, Over, Earlier

LEMMA CreationsStand ==
    ASSUME NEW d, NEW f, NEW y, NEW z, NEW shown, CreatesFirst(d, shown, y), Smaller(y, z),
           \A k \in Keys : Stands(d[k].work, f[k].work)
    PROVE  CreatesFirst(f, shown, z)
  <1> HIDE DEF Fruitless, Stands
  <1>1. \A m \in Keys : shown[m] > 0 => Fruitless(m, f)
    BY FruitlessStands DEF CreatesFirst
  <1>2. ASSUME NEW c \in Cycles, NEW k \in Sending(z[c]), ~z[c].aim[k].edit
        PROVE  Fruitless(k, f)
    <2>1. k \in Sending(y[c]) /\ ~y[c].aim[k].edit
      BY <1>2 DEF Smaller
    <2> QED
      BY <2>1, FruitlessStands DEF CreatesFirst
  <1> QED
    BY <1>1, <1>2 DEF CreatesFirst

LEMMA LeasesStand ==
    ASSUME NEW w, NEW x, NEW h, NEW g, LeasedOnce(w, h),
           \A c \in Cycles : g[c] \subseteq h[c],
           \A c \in Cycles : \A k \in g[c] : x[k].status = w[k].status /\ x[k].due = w[k].due
    PROVE  LeasedOnce(x, g)
  <1>1. \A c \in Cycles : \A k \in g[c] : x[k].status = "PROCESSING" /\ ~x[k].due
    BY DEF LeasedOnce
  <1>2. \A c, e \in Cycles : c # e => g[c] \cap g[e] = {}
    BY DEF LeasedOnce
  <1> QED
    BY <1>1, <1>2 DEF LeasedOnce

\* Rows and messages stay.
Onwards(r, e, d, shown, s, f, g, showing) ==
    /\ r <= s
    /\ \A k \in Keys : /\ f[k].status = "ABSENT" => e[k].status = "ABSENT"
                       /\ g[k].work.status = "ABSENT" => d[k].work.status = "ABSENT"
                       /\ shown[k] > 0 => showing[k] > 0

LEMMA CycleStands ==
    ASSUME NEW y, NEW r \in Nat, NEW e, NEW d, NEW shown \in [Keys -> Nat],
           NEW s \in Nat, NEW f, NEW g, NEW showing \in [Keys -> Nat],
           CycleSound(y, r, e, d, shown), Onwards(r, e, d, shown, s, f, g, showing)
    PROVE  CycleSound(y, s, f, g, showing)
  <1>1. CycleShape(y, s)
    BY DEF CycleSound, CycleShape, Onwards
  <1>2. Evaluating(y) \subseteq Keys /\ Sending(y) \subseteq Keys
    BY DEF CycleSound, CycleShape, Evaluating, Sending, InHand
  <1>3. \A k \in Evaluating(y) : f[k].status # "ABSENT"
    BY <1>2 DEF CycleSound, Onwards
  <1>4. ASSUME NEW k \in Sending(y)
        PROVE  g[k].work.status # "ABSENT" /\ AimSound(k, y.aim[k], showing)
    <2>1. d[k].work.status # "ABSENT" /\ AimSound(k, y.aim[k], shown)
      BY DEF CycleSound
    <2> QED
      BY <1>2, <2>1 DEF AimSound, Onwards
  <1>5. ASSUME y.phase = "sent", y.result = "SUCCEEDED"
        PROVE  showing[y.aim[y.current].id] > 0
    <2>1. y.current \in Sending(y)
      BY <1>5 DEF CycleSound, CycleShape, Sending, InHand
    <2>2. y.aim[y.current].id \in Keys
      BY <2>1, <1>4 DEF AimSound
    <2>3. PICK i \in Keys : i = y.aim[y.current].id
      BY <2>2
    <2>4. shown[i] > 0 /\ showing[i] > 0
      BY <1>5, <2>3 DEF CycleSound, Onwards
    <2> QED
      BY <2>3, <2>4
  <1> QED
    BY <1>1, <1>3, <1>4, <1>5 DEF CycleSound

\* One cycle moves, the others stand.
Moves(c, y, z) == DOMAIN z = Cycles /\ \A o \in Cycles \ {c} : z[o] = y[o]

LEMMA CyclesStand ==
    ASSUME NEW y, NEW r \in Nat, NEW e, NEW d, NEW shown \in [Keys -> Nat],
           NEW z, NEW s \in Nat, NEW f, NEW g, NEW showing \in [Keys -> Nat],
           CyclesSound(y, r, e, d, shown), Onwards(r, e, d, shown, s, f, g, showing),
           NEW c, Moves(c, y, z), c \in Cycles => CycleSound(z[c], s, f, g, showing)
    PROVE  CyclesSound(z, s, f, g, showing)
  <1>1. ASSUME NEW o \in Cycles, o # c PROVE CycleSound(z[o], s, f, g, showing)
    <2>1. z[o] = y[o] /\ CycleSound(y[o], r, e, d, shown)
      BY <1>1 DEF Moves, CyclesSound
    <2> QED
      BY <2>1, CycleStands
  <1> QED
    BY <1>1 DEF CyclesSound, Moves

LEMMA DeliveriesStand ==
    ASSUME NEW d, NEW e, NEW f, NEW shown, NEW r \in Nat, NEW s \in Nat, DeliveriesSound(d, e, shown, r),
           r <= s, \A k \in Keys : e[k].status = "SUCCEEDED" => f[k].status = "SUCCEEDED"
    PROVE  DeliveriesSound(d, f, shown, s)
  <1>1. \A k \in Keys : d[k].content \in Nat /\ shown[k] \in Nat
    BY DiscordAssumption DEF DeliveriesSound, DeliveryRow
  <1> QED
    BY <1>1 DEF DeliveriesSound

LEMMA ContentsStand ==
    ASSUME NEW d, NEW f, NEW y, NEW z, NEW shown, ContentsAdvance(d, shown, y),
           \A k \in Keys : Stands(d[k].work, f[k].work) /\ f[k].content = d[k].content,
           \A c \in Cycles : z[c].phase = "loaded" /\ z[c].result > 0 =>
               y[c].phase = "loaded" /\ y[c].result = z[c].result
    PROVE  ContentsAdvance(f, shown, z)
  <1> QED
    BY DEF ContentsAdvance, Stands

-----------------------------------------------------------------------------
(* A step that neither enqueues, claims nor posts *)

Steady ==
    /\ revision <= revision' /\ channel' = channel
    /\ \A k \in Keys : /\ Stands(evaluation[k], evaluation'[k])
                       /\ Stands(delivery[k].work, delivery'[k].work)
                       /\ delivery'[k].content = delivery[k].content
    /\ Smaller(cycle, cycle')
    /\ settings'.strategy = settings.strategy
    /\ history'.inOrder => history.inOrder
    /\ history'.onTime => history.onTime
NothingLoaded ==
    \A c \in Cycles : cycle'[c].phase = "loaded" /\ cycle'[c].result > 0 =>
        cycle[c].phase = "loaded" /\ cycle[c].result = cycle'[c].result
\* Whatever a cycle has in hand it had in hand, and its row has not changed hands.
HandsStand ==
    \A c \in Cycles :
        /\ Evaluating(cycle'[c]) \subseteq Evaluating(cycle[c])
        /\ \A k \in Evaluating(cycle'[c]) : /\ evaluation'[k].status = evaluation[k].status
                                            /\ evaluation'[k].due = evaluation[k].due
        /\ Sending(cycle'[c]) \subseteq Sending(cycle[c])
        /\ \A k \in Sending(cycle'[c]) : /\ delivery'[k].work.status = delivery[k].work.status
                                         /\ delivery'[k].work.due = delivery[k].work.due
InTime == history.inOrder /\ history'.onTime

LEMMA LeasesGoOn ==
    ASSUME LeasesKept(evaluation, delivery, cycle), HandsStand, DOMAIN cycle = Cycles,
           \A c \in Cycles : CycleShape(cycle[c], revision)
    PROVE  LeasesKept(evaluation', delivery', cycle')
  <1> DEFINE h1 == [c \in Cycles |-> Evaluating(cycle[c])]
             g1 == [c \in Cycles |-> Evaluating(cycle'[c])]
             h2 == [c \in Cycles |-> Sending(cycle[c])]
             g2 == [c \in Cycles |-> Sending(cycle'[c])]
             w2 == [k \in Keys |-> delivery[k].work]
             x2 == [k \in Keys |-> delivery'[k].work]
  <1>1. LeasedOnce(evaluation, h1) /\ LeasedOnce(w2, h2)
    BY DEF LeasesKept
  <1>2. /\ \A c \in Cycles : g1[c] \subseteq h1[c]
        /\ \A c \in Cycles : \A k \in g1[c] : evaluation'[k].status = evaluation[k].status /\ evaluation'[k].due = evaluation[k].due
    BY DEF HandsStand
  <1>3. /\ \A c \in Cycles : g2[c] \subseteq h2[c]
        /\ \A c \in Cycles : \A k \in g2[c] : x2[k].status = w2[k].status /\ x2[k].due = w2[k].due
    <2>1. \A c \in Cycles : Sending(cycle[c]) \subseteq Keys
      BY DEF CycleShape, Sending, InHand
    <2> QED
      BY <2>1 DEF HandsStand
  <1>4. LeasedOnce(evaluation', g1)
    <2> HIDE DEF h1, g1
    <2> QED
      BY <1>1, <1>2, LeasesStand
  <1>5. LeasedOnce(x2, g2)
    <2> HIDE DEF h2, g2, w2, x2
    <2> QED
      BY <1>1, <1>3, LeasesStand
  <1> QED
    BY <1>4, <1>5 DEF LeasesKept

LEMMA InvariantParts ==
    ASSUME UpdatesInv
    PROVE  /\ revision \in Nat /\ revision <= MaxRevision /\ MaxRevision \in Nat
           /\ channel \in [Keys -> Nat] /\ DOMAIN cycle = Cycles
           /\ evaluation \in [Keys -> WorkRow] /\ delivery \in [Keys -> DeliveryRow]
           /\ \A c \in Cycles : CycleSound(cycle[c], revision, evaluation, delivery, channel)
           /\ \A c \in Cycles : CycleShape(cycle[c], revision)
  <1> QED
    BY DiscordAssumption DEF UpdatesInv, RowsSound, DeliveriesSound, EvaluationsSound, CyclesSound, CycleSound

LEMMA SteadyStep ==
    ASSUME UpdatesInv, RowsSound', Steady,
           NEW c, Moves(c, cycle, cycle'),
           c \in Cycles => CycleSound(cycle'[c], revision', evaluation', delivery', channel'),
           InTime => HandsStand,
           InTime => NothingLoaded \/ ContentsAdvance(delivery', channel', cycle')
    PROVE  UpdatesInv'
  <1>1. /\ revision \in Nat /\ revision' \in Nat /\ channel \in [Keys -> Nat]
        /\ channel' \in [Keys -> Nat]
    BY InvariantParts DEF RowsSound, Steady
  <1>2. Onwards(revision, evaluation, delivery, channel, revision', evaluation', delivery', channel')
    BY <1>1 DEF Steady, Onwards, Stands
  <1>3. CyclesSound(cycle', revision', evaluation', delivery', channel')
    BY <1>1, <1>2, CyclesStand DEF UpdatesInv
  <1>4. history'.inOrder => EvaluatedInOrder(evaluation') /\ DeliveredInOrder(delivery', cycle')
    BY OrderOfEvaluationsStands, OrderOfDeliveriesStands DEF UpdatesInv, Steady
  <1>5. history'.inOrder /\ settings'.strategy = "EDIT_LIVE_MESSAGE"
          => CreatesFirst(delivery', channel', cycle')
    BY CreationsStand DEF UpdatesInv, Steady
  <1>6. ASSUME history'.inOrder, history'.onTime
        PROVE  LeasesKept(evaluation', delivery', cycle')
    <2>1. HandsStand /\ LeasesKept(evaluation, delivery, cycle)
      BY <1>6 DEF UpdatesInv, Steady, InTime
    <2> QED
      BY <2>1, LeasesGoOn, InvariantParts
  <1>7. ASSUME history'.inOrder, history'.onTime, NothingLoaded
        PROVE  ContentsAdvance(delivery', channel', cycle')
    <2>1. ContentsAdvance(delivery, channel, cycle) /\ channel' = channel
      BY <1>7 DEF UpdatesInv, Steady
    <2>2. \A k \in Keys : Stands(delivery[k].work, delivery'[k].work) /\ delivery'[k].content = delivery[k].content
      BY DEF Steady
    <2>3. \A o \in Cycles : cycle'[o].phase = "loaded" /\ cycle'[o].result > 0 =>
              cycle[o].phase = "loaded" /\ cycle[o].result = cycle'[o].result
      BY <1>7 DEF NothingLoaded
    <2>4. ContentsAdvance(delivery', channel, cycle')
      BY <2>1, <2>2, <2>3, ContentsStand
    <2> QED
      BY <2>1, <2>4
  <1>8. history'.inOrder /\ history'.onTime => ContentsAdvance(delivery', channel', cycle')
    BY <1>7 DEF Steady, InTime
  <1> QED
    BY <1>3, <1>4, <1>5, <1>6, <1>8 DEF UpdatesInv

-----------------------------------------------------------------------------
(* The game, the settings and the time *)

LEMMA NothingStands ==
    \A w : Stands(w, w)
  <1> QED
    BY DEF Stands

LEMMA BesidesRows ==
    ASSUME UpdatesInv, UNCHANGED <<evaluation, delivery, channel, cycle, history>>,
           SettingsSound(settings', left'), settings'.strategy = settings.strategy,
           revision' \in 0 .. MaxRevision, revision <= revision', signalled' \subseteq Signals
    PROVE  UpdatesInv'
  <1>1. DeliveriesSound(delivery', evaluation', channel', revision')
    BY DeliveriesStand, InvariantParts DEF UpdatesInv, RowsSound
  <1>2. RowsSound'
    BY <1>1 DEF UpdatesInv, RowsSound
  <1>3. Steady /\ HandsStand /\ NothingLoaded
    BY NothingStands DEF Steady, Smaller, HandsStand, NothingLoaded
  <1>4. Moves(0, cycle, cycle') /\ 0 \notin Cycles
    BY InvariantParts, DiscordAssumption DEF Moves, Cycles
  <1> QED
    BY <1>2, <1>3, <1>4, SteadyStep

LEMMA Accepting ==
    ASSUME UpdatesInv, Accept
    PROVE  UpdatesInv'
  <1>1. revision' \in 0 .. MaxRevision /\ revision <= revision'
    BY DiscordAssumption DEF Accept, UpdatesInv, RowsSound
  <1>2. SettingsSound(settings', left') /\ settings'.strategy = settings.strategy
    BY DEF Accept, UpdatesInv, RowsSound
  <1>3. UNCHANGED <<evaluation, delivery, channel, cycle, history>> /\ signalled' \subseteq Signals
    BY DEF Accept, rows, UpdatesInv, RowsSound
  <1> QED
    BY <1>1, <1>2, <1>3, BesidesRows

LEMMA SettingsSlot ==
    ASSUME NEW asked PROVE NextSlot(asked) \in {"none", "waiting", "due"}
  <1> QED
    BY DEF NextSlot

LEMMA WritingSettings ==
    ASSUME UpdatesInv, WriteSettings
    PROVE  UpdatesInv'
  <1>1. SettingsSound(settings, left) /\ left["changes"] > 0 /\ left' = [left EXCEPT !["changes"] = @ - 1]
    BY DEF WriteSettings, Spend, UpdatesInv, RowsSound
  <1>2. PICK b \in BOOLEAN, q \in BOOLEAN, t \in {"none", "waiting", "due"} :
           settings' = [settings EXCEPT !.revision = @ + 1, !.enabled = b, !.refresh = q, !.slot = t]
    <2>1. PICK b \in BOOLEAN :
             settings' = [settings EXCEPT
                !.revision = @ + 1, !.enabled = b, !.refresh = b /\ settings.refresh,
                !.slot = IF b = settings.enabled THEN @ ELSE IF b THEN NextSlot(TRUE) ELSE "none"]
      BY DEF WriteSettings
    <2>2. (IF b = settings.enabled THEN settings.slot ELSE IF b THEN NextSlot(TRUE) ELSE "none") \in {"none", "waiting", "due"}
      BY <1>1, SettingsSlot DEF SettingsSound, SettingsRow
    <2>3. (b /\ settings.refresh) \in BOOLEAN
      OBVIOUS
    <2> QED
      BY <2>1, <2>2, <2>3
  <1>3. /\ settings' \in SettingsRow /\ settings'.revision = settings.revision + 1
        /\ settings'.strategy = settings.strategy
    <2>1. settings \in SettingsRow /\ settings.revision + 1 \in Nat
      BY <1>1 DEF SettingsSound, SettingsRow
    <2> QED
      BY <1>2, <2>1 DEF SettingsRow
  <1>4. left' \in [Faults -> Nat] /\ left'["changes"] = left["changes"] - 1
    BY <1>1 DEF SettingsSound, Faults
  <1>5. SettingsSound(settings', left')
    <2>1. settings.revision \in Nat /\ left["changes"] \in Nat /\ MaxChanges \in Nat
      BY <1>1, DiscordAssumption DEF SettingsSound, SettingsRow, Faults
    <2> QED
      BY <1>1, <1>3, <1>4, <2>1 DEF SettingsSound
  <1>6. /\ UNCHANGED <<evaluation, delivery, channel, cycle, history>> /\ signalled' \subseteq Signals
        /\ revision' \in 0 .. MaxRevision /\ revision <= revision'
    BY DEF WriteSettings, rows, UpdatesInv, RowsSound
  <1> QED
    BY <1>3, <1>5, <1>6, BesidesRows

LEMMA RequestingRefresh ==
    ASSUME UpdatesInv, RequestRefresh
    PROVE  UpdatesInv'
  <1>1. SettingsSound(settings, left) /\ left["refreshes"] > 0 /\ left' = [left EXCEPT !["refreshes"] = @ - 1]
    BY DEF RequestRefresh, Spend, UpdatesInv, RowsSound
  <1>2. settings' = [settings EXCEPT !.refresh = TRUE, !.slot = NextSlot(TRUE)]
    BY DEF RequestRefresh
  <1>3. /\ settings' \in SettingsRow /\ settings'.revision = settings.revision
        /\ settings'.strategy = settings.strategy
    BY <1>1, <1>2, SettingsSlot DEF SettingsSound, SettingsRow
  <1>4. left' \in [Faults -> Nat] /\ left'["changes"] = left["changes"]
    BY <1>1 DEF SettingsSound, Faults
  <1>5. SettingsSound(settings', left')
    BY <1>1, <1>3, <1>4 DEF SettingsSound
  <1>6. /\ UNCHANGED <<evaluation, delivery, channel, cycle, history>> /\ signalled' \subseteq Signals
        /\ revision' \in 0 .. MaxRevision /\ revision <= revision'
    BY DEF RequestRefresh, rows, UpdatesInv, RowsSound
  <1> QED
    BY <1>3, <1>5, <1>6, BesidesRows

LEMMA RipeningSlot ==
    ASSUME UpdatesInv, RipenSlot
    PROVE  UpdatesInv'
  <1>1. SettingsSound(settings', left') /\ settings'.strategy = settings.strategy
    BY DEF RipenSlot, UpdatesInv, RowsSound, SettingsSound, SettingsRow
  <1>2. /\ UNCHANGED <<evaluation, delivery, channel, cycle, history>> /\ signalled' \subseteq Signals
        /\ revision' \in 0 .. MaxRevision /\ revision <= revision'
    BY DEF RipenSlot, rows, UpdatesInv, RowsSound
  <1> QED
    BY <1>1, <1>2, BesidesRows

\* Spending a bound leaves the settings sound.
LEMMA Spending ==
    ASSUME SettingsSound(settings, left), NEW what \in Faults \ {"changes"}, Spend(what)
    PROVE  SettingsSound(settings, left')
  <1>1. left' \in [Faults -> Nat] /\ left'["changes"] = left["changes"]
    BY DEF Spend, SettingsSound, Faults
  <1> QED
    BY <1>1 DEF SettingsSound

LEMMA Ripening ==
    ASSUME UpdatesInv, NEW k \in Keys, RipenEvaluation(k)
    PROVE  UpdatesInv'
  <1>1. /\ evaluation' = [evaluation EXCEPT ![k].due = TRUE]
        /\ UNCHANGED <<revision, signalled, settings, delivery, cycle, channel>>
    BY DEF RipenEvaluation
  <1>2. /\ evaluation' \in [Keys -> WorkRow]
        /\ \A j \in Keys : /\ evaluation'[j].status = evaluation[j].status
                           /\ evaluation'[j].owner = evaluation[j].owner
                           /\ evaluation'[j].attempts = evaluation[j].attempts
                           /\ j # k => evaluation'[j] = evaluation[j]
    BY <1>1, InvariantParts DEF WorkRow
  <1>3. EvaluationsSound(evaluation')
    BY <1>2 DEF EvaluationsSound, Leasable, UpdatesInv, RowsSound
  <1>4. DeliveriesSound(delivery', evaluation', channel', revision')
    <2>1. DeliveriesSound(delivery, evaluation, channel, revision)
      BY DEF UpdatesInv, RowsSound
    <2>2. \A j \in Keys : evaluation[j].status = "SUCCEEDED" => evaluation'[j].status = "SUCCEEDED"
      BY <1>2
    <2> HIDE DEF Sendable
    <2> QED
      BY <1>1, <2>1, <2>2 DEF DeliveriesSound
  <1>5. /\ SettingsSound(settings', left')
        /\ history' \in [inOrder : BOOLEAN, onTime : BOOLEAN]
        /\ history'.inOrder = history.inOrder /\ (history'.onTime => history' = history)
    BY <1>1, Spending DEF RipenEvaluation, Expire, UpdatesInv, RowsSound, Faults
  <1>6. RowsSound'
    BY <1>1, <1>3, <1>4, <1>5 DEF UpdatesInv, RowsSound
  <1>7. Steady /\ NothingLoaded
    BY <1>1, <1>2, <1>5, NothingStands, InvariantParts DEF Steady, NothingLoaded, Smaller, Stands
  <1>8. ASSUME InTime PROVE HandsStand
    <2>1. \A c \in Cycles : \A j \in Evaluating(cycle[c]) : evaluation[j].status = "PROCESSING"
      BY <1>5, <1>8 DEF InTime, UpdatesInv, LeasesKept, LeasedOnce
    <2>2. \A c \in Cycles : k \notin Evaluating(cycle[c])
      <3>1. SUFFICES ASSUME NEW c \in Cycles, k \in Evaluating(cycle[c]) PROVE FALSE
        OBVIOUS
      <3>2. evaluation[k].status = "PROCESSING" /\ Held({"evaluating", "loaded"}, k)
        BY <2>1, <3>1 DEF Held, Evaluating, InHand
      <3>3. ~history'.onTime
        BY <3>2 DEF RipenEvaluation, Expire, UpdatesInv, RowsSound
      <3> QED
        BY <1>8, <3>3 DEF InTime
    <2>3. \A c \in Cycles : Evaluating(cycle[c]) \subseteq Keys
      BY InvariantParts DEF CycleShape, Evaluating, InHand
    <2> QED
      BY <1>1, <1>2, <2>2, <2>3 DEF HandsStand
  <1>9. Moves(0, cycle, cycle') /\ 0 \notin Cycles
    BY <1>1, InvariantParts, DiscordAssumption DEF Moves, Cycles
  <1> QED
    BY <1>6, <1>7, <1>8, <1>9, SteadyStep

LEMMA RipeningDelivery ==
    ASSUME UpdatesInv, NEW k \in Keys, RipenDelivery(k)
    PROVE  UpdatesInv'
  <1>1. /\ delivery' = [delivery EXCEPT ![k].work.due = TRUE]
        /\ UNCHANGED <<revision, signalled, settings, evaluation, cycle, channel>>
    BY DEF RipenDelivery
  <1> DEFINE ripe == [delivery[k] EXCEPT !.work.due = TRUE]
  <1>11. /\ ripe \in DeliveryRow /\ ripe.work \in WorkRow
         /\ ripe.work.status = delivery[k].work.status /\ ripe.work.owner = delivery[k].work.owner
         /\ ripe.work.attempts = delivery[k].work.attempts
         /\ ripe.operation = delivery[k].operation /\ ripe.target = delivery[k].target
         /\ ripe.message = delivery[k].message /\ ripe.content = delivery[k].content
    <2>1. PICK row \in DeliveryRow : row = delivery[k]
      BY InvariantParts
    <2>2. PICK w \in WorkRow : w = row.work
      BY DEF DeliveryRow
    <2>3. PICK x : x = [w EXCEPT !.due = TRUE]
      OBVIOUS
    <2>4. x \in WorkRow /\ x.status = w.status /\ x.owner = w.owner /\ x.attempts = w.attempts
      BY <2>3 DEF WorkRow
    <2>5. PICK new : new = [row EXCEPT !.work = x]
      OBVIOUS
    <2>6. /\ new \in DeliveryRow /\ new.work = x /\ new.operation = row.operation
          /\ new.target = row.target /\ new.message = row.message /\ new.content = row.content
      BY <2>4, <2>5 DEF DeliveryRow
    <2>7. ripe = new
      BY <2>1, <2>2, <2>3, <2>5
    <2> QED
      BY <2>1, <2>2, <2>4, <2>6, <2>7
  <1>2. /\ delivery' \in [Keys -> DeliveryRow]
        /\ \A j \in Keys : j # k => delivery'[j] = delivery[j]
        /\ delivery'[k] = ripe /\ delivery'[k].work \in WorkRow
    <2>1. delivery' = [delivery EXCEPT ![k] = ripe]
      BY <1>1
    <2> HIDE DEF ripe
    <2> QED
      BY <1>11, <2>1, InvariantParts
  <1> HIDE DEF ripe
  <1>3. \A j \in Keys : /\ delivery'[j].work.status = delivery[j].work.status
                        /\ delivery'[j].work.owner = delivery[j].work.owner
                        /\ delivery'[j].work.attempts = delivery[j].work.attempts
                        /\ delivery'[j].operation = delivery[j].operation
                        /\ delivery'[j].target = delivery[j].target
                        /\ delivery'[j].message = delivery[j].message
                        /\ delivery'[j].content = delivery[j].content
    BY <1>2, <1>11
  <1>4. \A j \in Keys : Sendable(delivery'[j], channel)
    <2>1. ASSUME NEW j \in Keys PROVE Sendable(delivery'[j], channel)
      <3>1. Sendable(delivery[j], channel)
        BY DEF UpdatesInv, RowsSound, DeliveriesSound
      <3>2. delivery'[j] \in DeliveryRow /\ delivery'[j].work \in WorkRow
        BY <1>2 DEF DeliveryRow
      <3> QED
        BY <1>3, <3>1, <3>2 DEF Sendable, Leasable
    <2> QED
      BY <2>1
  <1>5. DeliveriesSound(delivery', evaluation', channel', revision')
    <2>1. DeliveriesSound(delivery, evaluation, channel, revision)
      BY DEF UpdatesInv, RowsSound
    <2> HIDE DEF Sendable
    <2> QED
      BY <1>1, <1>2, <1>3, <1>4, <2>1, ZenonT(30) DEF DeliveriesSound
  <1>6. /\ SettingsSound(settings', left')
        /\ history' \in [inOrder : BOOLEAN, onTime : BOOLEAN]
        /\ history'.inOrder = history.inOrder /\ (history'.onTime => history' = history)
    BY <1>1, Spending DEF RipenDelivery, Expire, UpdatesInv, RowsSound, Faults
  <1>7. RowsSound'
    BY <1>1, <1>5, <1>6 DEF UpdatesInv, RowsSound
  <1>8. Steady /\ NothingLoaded
    BY <1>1, <1>3, <1>6, NothingStands, InvariantParts DEF Steady, NothingLoaded, Smaller, Stands
  <1>9. ASSUME InTime PROVE HandsStand
    <2>1. \A c \in Cycles : Sending(cycle[c]) \subseteq Keys
      BY InvariantParts DEF CycleShape, Sending, InHand
    <2>2. \A c \in Cycles : \A j \in Sending(cycle[c]) : delivery[j].work.status = "PROCESSING"
      BY <1>6, <1>9, <2>1 DEF InTime, UpdatesInv, LeasesKept, LeasedOnce
    <2>3. \A c \in Cycles : k \notin Sending(cycle[c])
      <3>1. SUFFICES ASSUME NEW c \in Cycles, k \in Sending(cycle[c]) PROVE FALSE
        OBVIOUS
      <3>2. delivery[k].work.status = "PROCESSING" /\ Held({"delivering", "checked", "sent"}, k)
        BY <2>2, <3>1 DEF Held, Sending, InHand
      <3>3. ~history'.onTime
        BY <3>2 DEF RipenDelivery, Expire, UpdatesInv, RowsSound
      <3> QED
        BY <1>9, <3>3 DEF InTime
    <2> QED
      BY <1>1, <1>2, <2>1, <2>3 DEF HandsStand
  <1>10. Moves(0, cycle, cycle') /\ 0 \notin Cycles
    BY <1>1, InvariantParts, DiscordAssumption DEF Moves, Cycles
  <1> QED
    BY <1>7, <1>8, <1>9, <1>10, SteadyStep

-----------------------------------------------------------------------------
(* The cycles *)

\* One entry of the cycles is written.
LEMMA CycleWritten ==
    ASSUME UpdatesInv, NEW c \in Cycles, NEW z, cycle' = [cycle EXCEPT ![c] = z]
    PROVE  Moves(c, cycle, cycle') /\ cycle'[c] = z
  <1> QED
    BY InvariantParts DEF Moves

LEMMA InHandIs ==
    ASSUME NEW y, NEW r, CycleShape(y, r)
    PROVE  /\ InHand(y) \subseteq Keys /\ Evaluating(y) \subseteq Keys /\ Sending(y) \subseteq Keys
           /\ y.current = None => InHand(y) = y.batch
           /\ y.current # None => InHand(y) = y.batch \cup {y.current} /\ y.current \in Keys
  <1> QED
    BY DEF CycleShape, InHand, Evaluating, Sending

\* Only a cycle moves; its hands hold no more than before.
LEMMA CycleOnly ==
    ASSUME UpdatesInv, UNCHANGED <<revision, signalled, settings, evaluation, delivery, channel, history>>,
           SettingsSound(settings, left'),
           NEW c \in Cycles, Moves(c, cycle, cycle'), CycleShape(cycle'[c], revision),
           Evaluating(cycle'[c]) \subseteq Evaluating(cycle[c]),
           Sending(cycle'[c]) \subseteq Sending(cycle[c]),
           cycle'[c].aim = cycle[c].aim \/ Sending(cycle'[c]) = {},
           cycle'[c].phase = "loaded" /\ cycle'[c].result > 0 =>
               \/ cycle[c].phase = "loaded" /\ cycle[c].result = cycle'[c].result
               \/ cycle'[c].result = revision,
           cycle'[c].phase = "sent" =>
               /\ cycle[c].phase = "sent" /\ cycle'[c].result = cycle[c].result
               /\ cycle'[c].current = cycle[c].current /\ cycle'[c].aim = cycle[c].aim
    PROVE  UpdatesInv'
  <1>1. RowsSound'
    BY DEF RowsSound, UpdatesInv
  <1>2. Steady
    <2>1. \A o \in Cycles : /\ Sending(cycle'[o]) \subseteq Sending(cycle[o])
                            /\ Sending(cycle'[o]) # {} => cycle'[o].aim = cycle[o].aim
      BY DEF Moves
    <2>2. /\ revision' = revision /\ channel' = channel /\ history' = history /\ settings' = settings
          /\ evaluation' = evaluation /\ delivery' = delivery
      OBVIOUS
    <2>3. revision <= revision'
      BY <2>2, InvariantParts
    <2> QED
      BY <2>1, <2>2, <2>3 DEF Steady, Smaller, Stands
  <1>3. HandsStand
    BY DEF HandsStand, Moves
  <1>4. CycleSound(cycle'[c], revision', evaluation', delivery', channel')
    BY InvariantParts DEF CycleSound
  <1>5. ASSUME InTime PROVE ContentsAdvance(delivery', channel', cycle')
    <2>1. ContentsAdvance(delivery, channel, cycle)
      BY <1>5 DEF InTime, UpdatesInv
    <2>2. \A k \in Keys : delivery[k].content <= revision /\ channel[k] <= revision
      BY DEF UpdatesInv, RowsSound, DeliveriesSound
    <2>3. \A o \in Cycles : cycle'[o].phase = "loaded" /\ cycle'[o].result > 0 =>
             \A k \in Keys : delivery[k].content <= cycle'[o].result /\ channel[k] <= cycle'[o].result
      BY <2>1, <2>2 DEF ContentsAdvance, Moves
    <2> QED
      BY <2>1, <2>3 DEF ContentsAdvance
  <1> QED
    BY <1>1, <1>2, <1>3, <1>4, <1>5, SteadyStep

LEMMA Loading ==
    ASSUME UpdatesInv, NEW c \in Cycles, LoadGame(c)
    PROVE  UpdatesInv'
  <1>1. PICK k \in Keys, n \in {-1, 0, revision} :
           /\ InTurn(c, k) /\ cycle[c].phase = "evaluating"
           /\ cycle' = [cycle EXCEPT ![c].phase = "loaded", ![c].current = k, ![c].batch = @ \ {k},
                                     ![c].result = n]
    BY DEF LoadGame
  <1>2. CycleShape(cycle[c], revision) /\ k \in cycle[c].batch /\ cycle[c].current = None
    BY <1>1, InvariantParts DEF InTurn, CycleShape
  <1>3. PICK z : z = [cycle[c] EXCEPT !.phase = "loaded", !.current = k, !.batch = @ \ {k}, !.result = n]
    OBVIOUS
  <1>4. cycle' = [cycle EXCEPT ![c] = z]
    BY <1>1, <1>3
  <1>5. Moves(c, cycle, cycle') /\ cycle'[c] = z
    BY <1>4, CycleWritten
  <1>6. /\ z.phase = "loaded" /\ z.current = k /\ z.batch = cycle[c].batch \ {k} /\ z.result = n
        /\ z.aim = cycle[c].aim /\ z.aborted = cycle[c].aborted
    BY <1>2, <1>3 DEF CycleShape
  <1>7. k # None /\ n \in Int /\ n <= revision
    BY <1>1, NoneIsNothing, InvariantParts
  <1>8. z \in [phase : Phases, batch : SUBSET Keys, current : Keys \cup {None}, result : {z.result},
               aborted : BOOLEAN, aim : {z.aim}]
    BY <1>2, <1>3, <1>6 DEF CycleShape, Phases
  <1>9. CycleShape(z, revision)
    BY <1>6, <1>7, <1>8 DEF CycleShape
  <1>10. Evaluating(z) = Evaluating(cycle[c]) /\ Sending(z) = {}
    BY <1>1, <1>2, <1>6, <1>7 DEF Evaluating, Sending, InHand
  <1>11. n > 0 => n = revision
    BY <1>1
  <1>12. UNCHANGED <<revision, signalled, settings, evaluation, delivery, channel, history>> /\ left' = left
    BY DEF LoadGame, rows
  <1> QED
    BY <1>5, <1>6, <1>9, <1>10, <1>11, <1>12, CycleOnly DEF UpdatesInv, RowsSound

LEMMA Checking ==
    ASSUME UpdatesInv, NEW c \in Cycles, CheckDelivery(c)
    PROVE  UpdatesInv'
  <1>1. PICK k \in Keys, n \in BOOLEAN :
           /\ InTurn(c, k) /\ cycle[c].phase = "delivering"
           /\ cycle' = [cycle EXCEPT ![c].phase = "checked", ![c].current = k, ![c].batch = @ \ {k},
                                     ![c].result = n]
    BY DEF CheckDelivery
  <1>2. CycleShape(cycle[c], revision) /\ k \in cycle[c].batch /\ cycle[c].current = None
    BY <1>1, InvariantParts DEF InTurn, CycleShape
  <1>3. PICK z : z = [cycle[c] EXCEPT !.phase = "checked", !.current = k, !.batch = @ \ {k}, !.result = n]
    OBVIOUS
  <1>4. cycle' = [cycle EXCEPT ![c] = z]
    BY <1>1, <1>3
  <1>5. Moves(c, cycle, cycle') /\ cycle'[c] = z
    BY <1>4, CycleWritten
  <1>6. /\ z.phase = "checked" /\ z.current = k /\ z.batch = cycle[c].batch \ {k} /\ z.result = n
        /\ z.aim = cycle[c].aim /\ z.aborted = cycle[c].aborted
    BY <1>2, <1>3 DEF CycleShape
  <1>7. k # None
    BY NoneIsNothing
  <1>8. z \in [phase : Phases, batch : SUBSET Keys, current : Keys \cup {None}, result : {z.result},
               aborted : BOOLEAN, aim : {z.aim}]
    BY <1>2, <1>3, <1>6 DEF CycleShape, Phases
  <1>9. CycleShape(z, revision)
    BY <1>6, <1>7, <1>8 DEF CycleShape
  <1>10. Sending(z) = Sending(cycle[c]) /\ Evaluating(z) = {}
    BY <1>1, <1>2, <1>6, <1>7 DEF Evaluating, Sending, InHand
  <1>11. UNCHANGED <<revision, signalled, settings, evaluation, delivery, channel, history>> /\ left' = left
    BY DEF CheckDelivery, rows
  <1> QED
    BY <1>5, <1>6, <1>9, <1>10, <1>11, CycleOnly DEF UpdatesInv, RowsSound

LEMMA Aborting ==
    ASSUME UpdatesInv, NEW c \in Cycles, Abort(c)
    PROVE  UpdatesInv'
  <1>1. CycleShape(cycle[c], revision)
    BY InvariantParts
  <1>2. PICK z : z = [cycle[c] EXCEPT !.aborted = TRUE]
    OBVIOUS
  <1>3. cycle' = [cycle EXCEPT ![c] = z]
    BY <1>2 DEF Abort
  <1>4. Moves(c, cycle, cycle') /\ cycle'[c] = z
    BY <1>3, CycleWritten
  <1>5. /\ z.phase = cycle[c].phase /\ z.current = cycle[c].current /\ z.batch = cycle[c].batch
        /\ z.result = cycle[c].result /\ z.aim = cycle[c].aim
        /\ z \in [phase : Phases, batch : SUBSET Keys, current : Keys \cup {None}, result : {z.result},
                  aborted : BOOLEAN, aim : {z.aim}]
    BY <1>1, <1>2 DEF CycleShape
  <1>6. CycleShape(z, revision)
    BY <1>1, <1>5 DEF CycleShape
  <1>7. Evaluating(z) = Evaluating(cycle[c]) /\ Sending(z) = Sending(cycle[c])
    BY <1>5 DEF Evaluating, Sending, InHand
  <1>8. /\ UNCHANGED <<revision, signalled, settings, evaluation, delivery, channel, history>>
        /\ SettingsSound(settings, left')
    BY Spending DEF Abort, rows, Faults, UpdatesInv, RowsSound
  <1> QED
    BY <1>4, <1>5, <1>6, <1>7, <1>8, CycleOnly

LEMMA IdleIs ==
    ASSUME NEW r
    PROVE  CycleShape(Idle, r) /\ Evaluating(Idle) = {} /\ Sending(Idle) = {} /\ Idle.phase = "idle"
  <1> QED
    BY DEF Idle, CycleShape, Evaluating, Sending, Phases

LEMMA Dying ==
    ASSUME UpdatesInv, NEW c \in Cycles, Crash(c)
    PROVE  UpdatesInv'
  <1>1. Moves(c, cycle, cycle') /\ cycle'[c] = Idle
    BY CycleWritten DEF Crash
  <1>2. /\ UNCHANGED <<revision, signalled, settings, evaluation, delivery, channel, history>>
        /\ SettingsSound(settings, left')
    BY Spending DEF Crash, rows, Faults, UpdatesInv, RowsSound
  <1> QED
    BY <1>1, <1>2, IdleIs, CycleOnly

-----------------------------------------------------------------------------
(* Evaluations that are answered *)

LEMMA RetriedIs ==
    ASSUME NEW w, NEW terminal, Leasable(w), w.status = "PROCESSING"
    PROVE  Leasable(Retried(w, terminal)) /\ Stands(w, Retried(w, terminal))
  <1>1. w.attempts \in Nat /\ w.attempts < MaxAttempts /\ MaxAttempts \in Nat
    BY DiscordAssumption DEF Leasable, WorkRow, Live
  <1> DEFINE dead == terminal \/ w.attempts + 1 >= MaxAttempts
  <1>2. /\ Retried(w, terminal).status = (IF dead THEN "DEAD_LETTER" ELSE "PENDING")
        /\ Retried(w, terminal).attempts = w.attempts + 1 /\ Retried(w, terminal).owner = None
        /\ Retried(w, terminal) \in WorkRow
    BY <1>1 DEF Retried, WorkRow, Statuses
  <1>3. CASE dead
    BY <1>1, <1>2, <1>3 DEF Leasable, Stands, Live, Begun, Over
  <1>4. CASE ~dead
    BY <1>1, <1>2, <1>4 DEF Leasable, Stands, Live, Begun, Over
  <1> QED
    BY <1>3, <1>4

LEMMA ContinueIs ==
    ASSUME UpdatesInv, NEW c \in Cycles, cycle[c].phase = "loaded",
           Continue(c, "evaluating", "claimDeliveries")
    PROVE  /\ Moves(c, cycle, cycle') /\ CycleShape(cycle'[c], revision)
           /\ Evaluating(cycle'[c]) = cycle[c].batch /\ Sending(cycle'[c]) = {}
           /\ cycle'[c].phase \notin {"loaded", "sent"}
           /\ cycle[c].current \in Keys /\ cycle[c].current \notin cycle[c].batch
           /\ Evaluating(cycle[c]) = cycle[c].batch \cup {cycle[c].current}
  <1>1. CycleShape(cycle[c], revision) /\ cycle[c].current # None
    BY InvariantParts DEF CycleShape
  <1>2. PICK z : z = [cycle[c] EXCEPT !.current = None, !.result = None,
                        !.phase = IF cycle[c].batch = {} THEN "claimDeliveries" ELSE "evaluating"]
    OBVIOUS
  <1>3. cycle' = [cycle EXCEPT ![c] = z]
    BY <1>2 DEF Continue
  <1>4. Moves(c, cycle, cycle') /\ cycle'[c] = z
    BY <1>3, CycleWritten
  <1>5. /\ z.current = None /\ z.batch = cycle[c].batch
        /\ z.phase = (IF cycle[c].batch = {} THEN "claimDeliveries" ELSE "evaluating")
        /\ z \in [phase : Phases, batch : SUBSET Keys, current : Keys \cup {None}, result : {z.result},
                  aborted : BOOLEAN, aim : {z.aim}]
    BY <1>1, <1>2 DEF CycleShape, Phases
  <1>6. CycleShape(z, revision)
    BY <1>5, NoneIsNothing DEF CycleShape
  <1>7. Evaluating(z) = cycle[c].batch /\ Sending(z) = {} /\ z.phase \notin {"loaded", "sent"}
    BY <1>5 DEF Evaluating, Sending, InHand
  <1>8. Evaluating(cycle[c]) = cycle[c].batch \cup {cycle[c].current}
    BY <1>1 DEF Evaluating, InHand
  <1> QED
    BY <1>1, <1>4, <1>6, <1>7, <1>8 DEF CycleShape

LEMMA OneEvaluator ==
    ASSUME UpdatesInv, history.inOrder, history.onTime, NEW c \in Cycles, NEW k \in Evaluating(cycle[c])
    PROVE  \A o \in Cycles \ {c} : k \notin Evaluating(cycle[o])
  <1> DEFINE h == [o \in Cycles |-> Evaluating(cycle[o])]
  <1>1. \A o \in Cycles : c # o => h[c] \cap h[o] = {}
    BY DEF UpdatesInv, LeasesKept, LeasedOnce
  <1> QED
    BY <1>1

LEMMA OneSender ==
    ASSUME UpdatesInv, history.inOrder, history.onTime, NEW c \in Cycles, NEW k \in Sending(cycle[c])
    PROVE  \A o \in Cycles \ {c} : k \notin Sending(cycle[o])
  <1> DEFINE h == [o \in Cycles |-> Sending(cycle[o])]
  <1>1. \A o \in Cycles : c # o => h[c] \cap h[o] = {}
    BY DEF UpdatesInv, LeasesKept, LeasedOnce
  <1> QED
    BY <1>1

\* Rows that a cycle no longer has in hand are answered, and no delivery is created.
LEMMA Answered ==
    ASSUME UpdatesInv, NEW c \in Cycles,
           UNCHANGED <<revision, signalled, delivery, channel, history>>,
           SettingsSound(settings', left'), settings'.strategy = settings.strategy,
           Moves(c, cycle, cycle'), CycleShape(cycle'[c], revision),
           Sending(cycle'[c]) = {}, cycle'[c].phase \notin {"loaded", "sent"},
           Evaluating(cycle'[c]) \subseteq Evaluating(cycle[c]),
           evaluation' \in [Keys -> WorkRow],
           \A k \in Keys : \/ evaluation'[k] = evaluation[k]
                           \/ /\ k \in Evaluating(cycle[c]) \ Evaluating(cycle'[c])
                              /\ Leasable(evaluation'[k]) /\ Stands(evaluation[k], evaluation'[k])
    PROVE  UpdatesInv'
  <1>1. \A k \in Keys : Stands(evaluation[k], evaluation'[k]) /\ Leasable(evaluation'[k])
    <2>1. \A k \in Keys : Leasable(evaluation[k])
      BY DEF UpdatesInv, RowsSound, EvaluationsSound
    <2> HIDE DEF Stands, Leasable
    <2> QED
      BY <2>1, NothingStands
  <1>2. DeliveriesSound(delivery', evaluation', channel', revision')
    <2>1. DeliveriesSound(delivery, evaluation, channel, revision)
      BY DEF UpdatesInv, RowsSound
    <2>2. \A j \in Keys : evaluation[j].status = "SUCCEEDED" => evaluation'[j].status = "SUCCEEDED"
      BY <1>1 DEF Stands
    <2> HIDE DEF Sendable
    <2> QED
      BY <2>1, <2>2 DEF DeliveriesSound
  <1>3. RowsSound'
    BY <1>1, <1>2 DEF RowsSound, UpdatesInv, EvaluationsSound
  <1>4. Steady
    <2>1. \A o \in Cycles : Sending(cycle'[o]) \subseteq Sending(cycle[o]) /\ (Sending(cycle'[o]) # {} => cycle'[o].aim = cycle[o].aim)
      BY DEF Moves
    <2>2. revision <= revision'
      BY InvariantParts
    <2> QED
      BY <1>1, <2>1, <2>2, NothingStands DEF Steady, Smaller
  <1>5. NothingLoaded
    BY DEF NothingLoaded, Moves
  <1>6. ASSUME InTime PROVE HandsStand
    <2>1. \A o \in Cycles : Evaluating(cycle[o]) \subseteq Keys
      BY InHandIs, InvariantParts
    <2>2. ASSUME NEW o \in Cycles, NEW k \in Evaluating(cycle'[o]) PROVE evaluation'[k] = evaluation[k]
      <3>1. CASE o = c
        BY <2>1, <2>2, <3>1
      <3>2. CASE o # c
        <4>1. k \in Evaluating(cycle[o]) /\ k \in Keys
          BY <2>1, <2>2, <3>2 DEF Moves
        <4>2. k \notin Evaluating(cycle[c])
          BY <1>6, <3>2, <4>1, OneEvaluator DEF InTime
        <4> QED
          BY <4>1, <4>2
      <3> QED
        BY <3>1, <3>2
    <2>3. \A o \in Cycles : /\ Sending(cycle'[o]) \subseteq Sending(cycle[o])
                            /\ Evaluating(cycle'[o]) \subseteq Evaluating(cycle[o])
      BY DEF Moves
    <2> QED
      BY <2>2, <2>3 DEF HandsStand
  <1>7. CycleSound(cycle'[c], revision', evaluation', delivery', channel')
    <2>1. \A j \in Evaluating(cycle'[c]) : j \in Keys /\ evaluation[j].status # "ABSENT"
      BY InvariantParts, InHandIs DEF CycleSound
    <2>2. \A j \in Evaluating(cycle'[c]) : evaluation'[j].status # "ABSENT"
      BY <1>1, <2>1 DEF Stands
    <2> QED
      BY <2>2 DEF CycleSound
  <1> QED
    BY <1>3, <1>4, <1>5, <1>6, <1>7, SteadyStep

\* The row of what was loaded is answered.
LEMMA AnsweredLoaded ==
    ASSUME UpdatesInv, NEW c \in Cycles, cycle[c].phase = "loaded",
           Continue(c, "evaluating", "claimDeliveries"),
           UNCHANGED <<revision, signalled, delivery, channel, history>>,
           SettingsSound(settings', left'), settings'.strategy = settings.strategy,
           NEW k, k = cycle[c].current, NEW w, Leasable(w),
           \/ evaluation' = evaluation
           \/ evaluation' = [evaluation EXCEPT ![k] = w] /\ Stands(evaluation[k], w)
    PROVE  UpdatesInv'
  <1>1. /\ Moves(c, cycle, cycle') /\ CycleShape(cycle'[c], revision)
        /\ Evaluating(cycle'[c]) = cycle[c].batch /\ Sending(cycle'[c]) = {}
        /\ cycle'[c].phase \notin {"loaded", "sent"} /\ k \in Keys /\ k \notin cycle[c].batch
        /\ Evaluating(cycle[c]) = cycle[c].batch \cup {k}
    BY ContinueIs
  <1>2. w \in WorkRow
    BY DEF Leasable
  <1>3. evaluation' \in [Keys -> WorkRow]
    BY <1>2, InvariantParts
  <1>4. \A j \in Keys : \/ evaluation'[j] = evaluation[j]
                        \/ /\ j \in Evaluating(cycle[c]) \ Evaluating(cycle'[c])
                           /\ Leasable(evaluation'[j]) /\ Stands(evaluation[j], evaluation'[j])
    <2> HIDE DEF Leasable, Stands
    <2> QED
      BY <1>1, InvariantParts
  <1> QED
    BY <1>1, <1>3, <1>4, Answered

LEMMA Failing ==
    ASSUME UpdatesInv, NEW c \in Cycles, FailEvaluation(c)
    PROVE  UpdatesInv'
  <1>1. PICK k : k = cycle[c].current
    OBVIOUS
  <1>2. /\ cycle[c].phase = "loaded" /\ Continue(c, "evaluating", "claimDeliveries")
        /\ UNCHANGED <<revision, signalled, settings, delivery, channel, history, left>>
        /\ \/ evaluation' = evaluation
           \/ /\ Holding(evaluation, k)
              /\ evaluation' = [evaluation EXCEPT ![k] = Retried(@, cycle[c].result = -1)]
    BY <1>1 DEF FailEvaluation
  <1>3. k \in Keys
    BY <1>1, <1>2, ContinueIs
  <1>4. Leasable(evaluation[k])
    BY <1>3 DEF UpdatesInv, RowsSound, EvaluationsSound
  <1>5. PICK w : w = IF Holding(evaluation, k) THEN Retried(evaluation[k], cycle[c].result = -1) ELSE evaluation[k]
    OBVIOUS
  <1>6. Leasable(w) /\ (Holding(evaluation, k) => Stands(evaluation[k], w))
    BY <1>4, <1>5, RetriedIs DEF Holding
  <1>7. evaluation' = evaluation \/ (evaluation' = [evaluation EXCEPT ![k] = w] /\ Stands(evaluation[k], w))
    BY <1>2, <1>5, <1>6
  <1>8. SettingsSound(settings', left') /\ settings'.strategy = settings.strategy
    BY <1>2 DEF UpdatesInv, RowsSound
  <1> QED
    BY <1>1, <1>2, <1>6, <1>7, <1>8, AnsweredLoaded

-----------------------------------------------------------------------------
(* Deliveries that are settled, and leases that are given back *)

RowAnswered(row, new, shown) ==
    Stands(row.work, new.work) /\ new.content = row.content /\ Sendable(new, shown)

\* Rows that a cycle no longer has in hand are answered.
LEMMA Dispatched ==
    ASSUME UpdatesInv, NEW c \in Cycles,
           UNCHANGED <<revision, signalled, settings, evaluation, channel, history, left>>,
           Moves(c, cycle, cycle'), CycleShape(cycle'[c], revision),
           Evaluating(cycle'[c]) = {}, cycle'[c].phase \notin {"loaded", "sent"},
           Sending(cycle'[c]) \subseteq Sending(cycle[c]),
           cycle'[c].aim = cycle[c].aim \/ Sending(cycle'[c]) = {},
           delivery' \in [Keys -> DeliveryRow],
           \A k \in Keys : \/ delivery'[k] = delivery[k]
                           \/ /\ k \in Sending(cycle[c]) \ Sending(cycle'[c])
                              /\ RowAnswered(delivery[k], delivery'[k], channel)
    PROVE  UpdatesInv'
  <1>1. \A k \in Keys : /\ Stands(delivery[k].work, delivery'[k].work)
                        /\ delivery'[k].content = delivery[k].content
                        /\ Sendable(delivery'[k], channel)
    <2>1. \A k \in Keys : Sendable(delivery[k], channel)
      BY DEF UpdatesInv, RowsSound, DeliveriesSound
    <2> HIDE DEF Stands, Sendable
    <2> QED
      BY <2>1, NothingStands DEF RowAnswered
  <1>2. DeliveriesSound(delivery', evaluation', channel', revision')
    <2>1. DeliveriesSound(delivery, evaluation, channel, revision)
      BY DEF UpdatesInv, RowsSound
    <2>2. \A k \in Keys : delivery'[k].work.status = "ABSENT" <=> delivery[k].work.status = "ABSENT"
      BY <1>1 DEF Stands
    <2> HIDE DEF Sendable, Stands
    <2> QED
      BY <1>1, <2>1, <2>2 DEF DeliveriesSound
  <1>3. RowsSound'
    BY <1>2 DEF RowsSound, UpdatesInv
  <1>4. Steady /\ NothingLoaded
    <2>1. revision' = revision /\ revision <= revision'
      BY InvariantParts
    <2>2. Smaller(cycle, cycle')
      BY DEF Smaller, Moves
    <2>3. NothingLoaded
      BY DEF NothingLoaded, Moves
    <2> HIDE DEF Stands
    <2>4. \A k \in Keys : Stands(evaluation[k], evaluation'[k])
      BY NothingStands
    <2> QED
      BY <1>1, <2>1, <2>2, <2>3, <2>4 DEF Steady
  <1>5. ASSUME InTime PROVE HandsStand
    <2>1. \A o \in Cycles : Sending(cycle[o]) \subseteq Keys
      BY InHandIs, InvariantParts
    <2>2. ASSUME NEW o \in Cycles, NEW k \in Sending(cycle'[o]) PROVE delivery'[k] = delivery[k]
      <3>1. CASE o = c
        BY <2>1, <2>2, <3>1
      <3>2. CASE o # c
        <4>1. k \in Sending(cycle[o]) /\ k \in Keys
          BY <2>1, <2>2, <3>2 DEF Moves
        <4>2. k \notin Sending(cycle[c])
          BY <1>5, <3>2, <4>1, OneSender DEF InTime
        <4> QED
          BY <4>1, <4>2
      <3> QED
        BY <3>1, <3>2
    <2>3. \A o \in Cycles : /\ Sending(cycle'[o]) \subseteq Sending(cycle[o])
                            /\ Evaluating(cycle'[o]) \subseteq Evaluating(cycle[o])
      BY DEF Moves
    <2> QED
      BY <2>2, <2>3 DEF HandsStand
  <1>6. CycleSound(cycle'[c], revision', evaluation', delivery', channel')
    <2>1. ASSUME NEW k \in Sending(cycle'[c])
          PROVE  delivery'[k].work.status # "ABSENT" /\ AimSound(k, cycle'[c].aim[k], channel)
      <3>1. k \in Keys /\ k \in Sending(cycle[c]) /\ cycle'[c].aim = cycle[c].aim
        BY InHandIs, InvariantParts
      <3>2. delivery[k].work.status # "ABSENT" /\ AimSound(k, cycle[c].aim[k], channel)
        BY <3>1, InvariantParts DEF CycleSound
      <3> QED
        BY <1>1, <3>1, <3>2 DEF Stands
    <2> QED
      BY <2>1 DEF CycleSound
  <1> QED
    BY <1>3, <1>4, <1>5, <1>6, SteadyStep

LEMMA FinishedIs ==
    ASSUME UpdatesInv, NEW c \in Cycles, cycle[c].phase \in {"checked", "sent"}, cycle' = Finished(c)
    PROVE  /\ Moves(c, cycle, cycle') /\ CycleShape(cycle'[c], revision)
           /\ Evaluating(cycle'[c]) = {} /\ cycle'[c].phase \notin {"loaded", "sent"}
           /\ Sending(cycle'[c]) = cycle[c].batch
           /\ cycle'[c].aim = cycle[c].aim \/ Sending(cycle'[c]) = {}
           /\ cycle[c].current \in Keys /\ cycle[c].current \notin cycle[c].batch
           /\ Sending(cycle[c]) = cycle[c].batch \cup {cycle[c].current}
  <1>1. CycleShape(cycle[c], revision) /\ cycle[c].current # None
    BY InvariantParts DEF CycleShape
  <1>2. cycle[c].current \in Keys /\ cycle[c].current \notin cycle[c].batch
    BY <1>1 DEF CycleShape
  <1>3. Sending(cycle[c]) = cycle[c].batch \cup {cycle[c].current}
    BY <1>1 DEF Sending, InHand
  <1>4. CASE cycle[c].batch = {}
    <2>1. Moves(c, cycle, cycle') /\ cycle'[c] = Idle
      BY <1>4, CycleWritten DEF Finished
    <2> QED
      BY <1>2, <1>3, <1>4, <2>1, IdleIs
  <1>5. CASE cycle[c].batch # {}
    <2>1. PICK z : z = [cycle[c] EXCEPT !.current = None, !.result = None, !.phase = "delivering"]
      OBVIOUS
    <2>2. cycle' = [cycle EXCEPT ![c] = z]
      BY <1>5, <2>1 DEF Finished
    <2>3. Moves(c, cycle, cycle') /\ cycle'[c] = z
      BY <2>2, CycleWritten
    <2>4. /\ z.current = None /\ z.batch = cycle[c].batch /\ z.phase = "delivering" /\ z.aim = cycle[c].aim
          /\ z \in [phase : Phases, batch : SUBSET Keys, current : Keys \cup {None}, result : {z.result},
                    aborted : BOOLEAN, aim : {z.aim}]
      BY <1>1, <2>1 DEF CycleShape, Phases
    <2>5. CycleShape(z, revision)
      BY <2>4, NoneIsNothing DEF CycleShape
    <2>6. Sending(z) = cycle[c].batch /\ Evaluating(z) = {}
      BY <2>4 DEF Evaluating, Sending, InHand
    <2> QED
      BY <1>2, <1>3, <2>3, <2>4, <2>5, <2>6
  <1> QED
    BY <1>4, <1>5

\* The row of what was checked or sent is answered.
LEMMA Settling ==
    ASSUME UpdatesInv, NEW c \in Cycles, cycle[c].phase \in {"checked", "sent"}, cycle' = Finished(c),
           UNCHANGED <<revision, signalled, settings, evaluation, channel, history, left>>,
           NEW w, NEW m \in Keys \cup {None}, Leasable(w),
           NEW k, k = cycle[c].current,
           \/ delivery' = delivery
           \/ delivery' = Attempted(k, w, m) /\ Stands(delivery[k].work, w) /\ w.status # "ABSENT",
           w.status = "SUCCEEDED" <=> m # None,
           m # None => channel[m] > 0
    PROVE  UpdatesInv'
  <1>1. k \in Keys /\ k \in Sending(cycle[c]) /\ k \notin Sending(cycle'[c])
    BY FinishedIs
  <1>2. CASE delivery' = delivery
    BY <1>2, FinishedIs, Dispatched, InvariantParts
  <1>3. ASSUME delivery' = Attempted(k, w, m), Stands(delivery[k].work, w), w.status # "ABSENT"
        PROVE  UpdatesInv'
    <2>1. w \in WorkRow
      BY DEF Leasable
    <2>2. /\ DOMAIN delivery' = Keys
          /\ \A j \in Keys : j # k => delivery'[j] = delivery[j]
          /\ delivery'[k] = [delivery[k] EXCEPT !.work = w, !.message = m]
      BY <1>1, <1>3, InvariantParts DEF Attempted, DeliveryRow
    <2>3. /\ delivery'[k] \in DeliveryRow /\ delivery'[k].work = w /\ delivery'[k].message = m
          /\ delivery'[k].content = delivery[k].content /\ delivery'[k].target = delivery[k].target
          /\ delivery'[k].operation = delivery[k].operation
      <3>1. PICK old \in DeliveryRow : old = delivery[k]
        BY <1>1, InvariantParts
      <3>2. delivery'[k] = [old EXCEPT !.work = w, !.message = m]
        BY <2>2, <3>1
      <3> QED
        BY <2>1, <3>1, <3>2 DEF DeliveryRow
    <2>4. Sendable(delivery[k], channel)
      BY <1>1 DEF UpdatesInv, RowsSound, DeliveriesSound
    <2>5. delivery[k].work.status # "ABSENT"
      BY <1>3 DEF Stands
    <2>6. Sendable(delivery'[k], channel)
      BY <2>3, <2>4, <2>5 DEF Sendable
    <2>7. RowAnswered(delivery[k], delivery'[k], channel)
      BY <1>3, <2>3, <2>6 DEF RowAnswered
    <2>8. delivery' \in [Keys -> DeliveryRow]
      <3>1. \A j \in Keys : delivery'[j] \in DeliveryRow
        BY <2>2, <2>3, InvariantParts
      <3>2. delivery' = [j \in Keys |-> delivery'[j]]
        BY <1>3, <2>2, InvariantParts DEF Attempted
      <3> QED
        BY <3>1, <3>2
    <2>9. \A j \in Keys : \/ delivery'[j] = delivery[j]
                          \/ /\ j \in Sending(cycle[c]) \ Sending(cycle'[c])
                             /\ RowAnswered(delivery[j], delivery'[j], channel)
      BY <1>1, <2>2, <2>7
    <2> QED
      BY <2>8, <2>9, FinishedIs, Dispatched
  <1> QED
    BY <1>2, <1>3

LEMMA Cancelling ==
    ASSUME UpdatesInv, NEW c \in Cycles, CancelDelivery(c)
    PROVE  UpdatesInv'
  <1>1. PICK k : k = cycle[c].current
    OBVIOUS
  <1>2. /\ cycle[c].phase = "checked" /\ cycle' = Finished(c)
        /\ UNCHANGED <<revision, signalled, settings, evaluation, channel, history, left>>
        /\ delivery' = IF ~Holding(DeliveryWork, k) THEN delivery ELSE
               Attempted(k, [delivery[k].work EXCEPT !.status = "CANCELLED", !.attempts = @ + 1, !.owner = None], None)
    BY <1>1 DEF CancelDelivery
  <1>3. k \in Keys
    BY <1>1, <1>2, FinishedIs
  <1>4. Leasable(delivery[k].work)
    BY <1>3 DEF UpdatesInv, RowsSound, DeliveriesSound, Sendable
  <1>5. PICK w : w = IF Holding(DeliveryWork, k)
                     THEN [delivery[k].work EXCEPT !.status = "CANCELLED", !.attempts = @ + 1, !.owner = None]
                     ELSE [status |-> "CANCELLED", attempts |-> 0, owner |-> None, due |-> FALSE]
    OBVIOUS
  <1>6. w.status = "CANCELLED" /\ Leasable(w)
    <2>1. CASE ~Holding(DeliveryWork, k)
      BY <1>5, <2>1, DiscordAssumption DEF Leasable, WorkRow, Statuses, Live
    <2>2. CASE Holding(DeliveryWork, k)
      <3>1. /\ delivery[k].work.attempts \in Nat /\ delivery[k].work.attempts < MaxAttempts /\ MaxAttempts \in Nat
            /\ delivery[k].work \in WorkRow
        BY <1>3, <1>4, <2>2, DiscordAssumption DEF Leasable, WorkRow, Live, Holding, DeliveryWork
      <3>2. delivery[k].work.attempts + 1 \in 0 .. MaxAttempts
        BY <3>1
      <3>3. /\ w.status = "CANCELLED" /\ w.attempts = delivery[k].work.attempts + 1 /\ w.owner = None
            /\ w \in WorkRow
        BY <1>5, <2>2, <3>1, <3>2 DEF WorkRow, Statuses
      <3> QED
        BY <3>3 DEF Leasable, Live
    <2> QED
      BY <2>1, <2>2
  <1>7. Holding(DeliveryWork, k) => Stands(delivery[k].work, w)
    BY <1>3, <1>6 DEF Holding, DeliveryWork, Stands, Live, Begun, Over
  <1>8. delivery' = delivery \/ (delivery' = Attempted(k, w, None) /\ Stands(delivery[k].work, w) /\ w.status # "ABSENT")
    BY <1>2, <1>5, <1>6, <1>7
  <1> QED
    BY <1>1, <1>2, <1>6, <1>8, Settling

LEMMA Completing ==
    ASSUME UpdatesInv, NEW c \in Cycles, CompleteAttempt(c)
    PROVE  UpdatesInv'
  <1>1. PICK k : k = cycle[c].current
    OBVIOUS
  <1>2. /\ cycle[c].phase = "sent" /\ cycle' = Finished(c)
        /\ UNCHANGED <<revision, signalled, settings, evaluation, channel, history, left>>
    BY DEF CompleteAttempt
  <1>3. delivery' = IF ~Holding(DeliveryWork, k) THEN delivery
               ELSE IF cycle[c].result = "SUCCEEDED"
               THEN Attempted(k, [delivery[k].work EXCEPT !.status = "SUCCEEDED", !.attempts = @ + 1, !.owner = None], cycle[c].aim[k].id)
               ELSE Attempted(k, Retried(delivery[k].work, cycle[c].result = "TERMINAL"), None)
    BY <1>1 DEF CompleteAttempt
  <1>4. k \in Keys /\ k \in Sending(cycle[c])
    BY <1>1, <1>2, FinishedIs
  <1>5. Leasable(delivery[k].work)
    BY <1>4 DEF UpdatesInv, RowsSound, DeliveriesSound, Sendable
  <1>6. CASE ~Holding(DeliveryWork, k)
    <2>1. Leasable([status |-> "CANCELLED", attempts |-> 0, owner |-> None, due |-> FALSE])
      BY DiscordAssumption DEF Leasable, WorkRow, Statuses, Live
    <2>2. PICK w : w = [status |-> "CANCELLED", attempts |-> 0, owner |-> None, due |-> FALSE]
      OBVIOUS
    <2>3. Leasable(w) /\ w.status = "CANCELLED"
      BY <2>1, <2>2
    <2> QED
      BY <1>1, <1>2, <1>3, <1>6, <2>3, Settling
  <1>7. CASE Holding(DeliveryWork, k) /\ cycle[c].result = "SUCCEEDED"
    <2>1. PICK w : w = [delivery[k].work EXCEPT !.status = "SUCCEEDED", !.attempts = @ + 1, !.owner = None]
      OBVIOUS
    <2>2. /\ delivery[k].work.attempts \in Nat /\ delivery[k].work.attempts < MaxAttempts /\ MaxAttempts \in Nat
          /\ delivery[k].work \in WorkRow /\ delivery[k].work.status = "PROCESSING"
      BY <1>4, <1>5, <1>7, DiscordAssumption DEF Leasable, WorkRow, Live, Holding, DeliveryWork
    <2>3. /\ w.status = "SUCCEEDED" /\ w.attempts = delivery[k].work.attempts + 1 /\ w.owner = None
          /\ w \in WorkRow
      <3>1. delivery[k].work.attempts + 1 \in 0 .. MaxAttempts
        BY <2>2
      <3> QED
        BY <2>1, <2>2, <3>1 DEF WorkRow, Statuses
    <2>4. Leasable(w) /\ Stands(delivery[k].work, w)
      BY <2>2, <2>3 DEF Leasable, Stands, Live, Begun, Over
    <2>5. cycle[c].aim[k].id \in Keys /\ channel[cycle[c].aim[k].id] > 0
      <3>1. AimSound(k, cycle[c].aim[k], channel)
        BY <1>4, InvariantParts DEF CycleSound
      <3>2. channel[cycle[c].aim[k].id] > 0
        BY <1>1, <1>2, <1>7, InvariantParts DEF CycleSound
      <3> QED
        BY <3>1, <3>2 DEF AimSound
    <2>6. PICK m \in Keys : m = cycle[c].aim[k].id
      BY <2>5
    <2>7. delivery' = Attempted(k, w, m)
      BY <1>3, <1>7, <2>1, <2>6
    <2>8. m # None /\ channel[m] > 0
      BY <2>5, <2>6, NoneIsNothing
    <2> QED
      BY <1>1, <1>2, <2>3, <2>4, <2>7, <2>8, Settling
  <1>8. CASE Holding(DeliveryWork, k) /\ cycle[c].result # "SUCCEEDED"
    <2>1. PICK w : w = Retried(delivery[k].work, cycle[c].result = "TERMINAL")
      OBVIOUS
    <2>2. delivery[k].work.status = "PROCESSING"
      BY <1>4, <1>8 DEF Holding, DeliveryWork
    <2>3. Leasable(w) /\ Stands(delivery[k].work, w)
      BY <1>5, <2>1, <2>2, RetriedIs
    <2>4. w.status \in {"DEAD_LETTER", "PENDING"}
      BY <2>1 DEF Retried
    <2>5. delivery' = Attempted(k, w, None)
      BY <1>3, <1>8, <2>1
    <2>6. w.status # "SUCCEEDED" /\ w.status # "ABSENT"
      BY <2>4
    <2> QED
      BY <1>1, <1>2, <2>3, <2>5, <2>6, Settling
  <1> QED
    BY <1>6, <1>7, <1>8

LEMMA ReleasedIs ==
    ASSUME NEW work, NEW k, Leasable(work[k])
    PROVE  /\ Leasable(Released(work, k)) /\ Stands(work[k], Released(work, k))
           /\ Released(work, k) \in WorkRow
  <1>1. CASE ~Holding(work, k)
    BY <1>1, NothingStands DEF Released, Leasable
  <1>2. CASE Holding(work, k)
    <2>1. PICK w \in WorkRow : w = work[k]
      BY DEF Leasable
    <2>2. PICK x : x = Released(work, k)
      OBVIOUS
    <2>3. x = [w EXCEPT !.status = "PENDING", !.owner = None, !.due = TRUE]
      BY <1>2, <2>1, <2>2 DEF Released
    <2>4. x \in WorkRow /\ x.status = "PENDING" /\ x.owner = None /\ x.attempts = w.attempts
      BY <2>1, <2>3 DEF WorkRow, Statuses
    <2>5. w.status = "PROCESSING"
      BY <1>2, <2>1 DEF Holding
    <2>6. Leasable(x) /\ Stands(w, x)
      BY <2>1, <2>4, <2>5 DEF Leasable, Stands, Live, Begun, Over
    <2> QED
      BY <2>1, <2>2, <2>4, <2>6
  <1> QED
    BY <1>1, <1>2

LEMMA Releasing ==
    ASSUME UpdatesInv, NEW c \in Cycles, Release(c)
    PROVE  UpdatesInv'
  <1>1. UNCHANGED <<revision, signalled, settings, channel, history, left>>
    BY DEF Release
  <1>2. SettingsSound(settings', left') /\ settings'.strategy = settings.strategy
    BY <1>1 DEF UpdatesInv, RowsSound
  <1>3. CycleShape(cycle[c], revision) /\ cycle[c].batch \subseteq Keys
    BY InvariantParts DEF CycleShape
  <1>4. ASSUME cycle[c].phase = "evaluating", delivery' = delivery,
               evaluation' = [k \in Keys |-> IF k \in cycle[c].batch THEN Released(evaluation, k) ELSE evaluation[k]],
               cycle' = [cycle EXCEPT ![c].phase = "claimDeliveries", ![c].batch = {}]
        PROVE  UpdatesInv'
    <2>1. PICK z : z = [cycle[c] EXCEPT !.phase = "claimDeliveries", !.batch = {}]
      OBVIOUS
    <2>2. cycle' = [cycle EXCEPT ![c] = z]
      BY <1>4, <2>1
    <2>3. Moves(c, cycle, cycle') /\ cycle'[c] = z
      BY <2>2, CycleWritten
    <2>4. cycle[c].current = None
      BY <1>3, <1>4 DEF CycleShape
    <2>5. /\ z.current = None /\ z.batch = {} /\ z.phase = "claimDeliveries"
          /\ z \in [phase : Phases, batch : SUBSET Keys, current : Keys \cup {None}, result : {z.result},
                    aborted : BOOLEAN, aim : {z.aim}]
      BY <1>3, <2>1, <2>4 DEF CycleShape, Phases
    <2>6. CycleShape(z, revision) /\ Evaluating(z) = {} /\ Sending(z) = {}
      BY <2>5 DEF CycleShape, Evaluating, Sending
    <2>7. cycle[c].batch \subseteq Evaluating(cycle[c])
      BY <1>4 DEF Evaluating, InHand
    <2>8. \A k \in Keys : Leasable(evaluation[k]) /\ evaluation[k] \in WorkRow
      BY InvariantParts DEF UpdatesInv, RowsSound, EvaluationsSound
    <2>9. evaluation' \in [Keys -> WorkRow]
      BY <1>4, <2>8, ReleasedIs
    <2>10. \A k \in Keys : \/ evaluation'[k] = evaluation[k]
                           \/ /\ k \in Evaluating(cycle[c]) \ Evaluating(cycle'[c])
                              /\ Leasable(evaluation'[k]) /\ Stands(evaluation[k], evaluation'[k])
      <3> HIDE DEF Leasable, Stands
      <3> QED
        BY <1>4, <2>3, <2>6, <2>7, <2>8, ReleasedIs
    <2>11. Evaluating(cycle'[c]) \subseteq Evaluating(cycle[c])
      BY <2>3, <2>6
    <2>12. z.phase \notin {"loaded", "sent"}
      BY <2>5
    <2> QED
      BY <1>1, <1>2, <1>4, <2>3, <2>6, <2>9, <2>10, <2>11, <2>12, Answered
  <1>5. ASSUME cycle[c].phase = "delivering", evaluation' = evaluation,
               delivery' = [k \in Keys |-> IF k \in cycle[c].batch
                 THEN [delivery[k] EXCEPT !.work = Released(DeliveryWork, k)] ELSE delivery[k]],
               cycle' = [cycle EXCEPT ![c] = Idle]
        PROVE  UpdatesInv'
    <2>1. Moves(c, cycle, cycle') /\ cycle'[c] = Idle
      BY <1>5, CycleWritten
    <2>2. cycle[c].batch \subseteq Sending(cycle[c])
      BY <1>5 DEF Sending, InHand
    <2>3. \A k \in Keys : /\ delivery[k] \in DeliveryRow /\ Leasable(delivery[k].work)
                          /\ DeliveryWork[k] = delivery[k].work /\ Sendable(delivery[k], channel)
      BY InvariantParts DEF UpdatesInv, RowsSound, DeliveriesSound, Sendable, DeliveryWork
    <2>4. ASSUME NEW k \in cycle[c].batch
          PROVE  /\ [delivery[k] EXCEPT !.work = Released(DeliveryWork, k)] \in DeliveryRow
                 /\ RowAnswered(delivery[k], [delivery[k] EXCEPT !.work = Released(DeliveryWork, k)], channel)
      <3>1. PICK w : w = Released(DeliveryWork, k)
        OBVIOUS
      <3>2. Leasable(w) /\ Stands(delivery[k].work, w) /\ w \in WorkRow
        <4>1. Leasable(DeliveryWork[k]) /\ DeliveryWork[k] = delivery[k].work
          BY <1>3, <2>3
        <4> QED
          BY <3>1, <4>1, ReleasedIs
      <3>3. PICK row \in DeliveryRow : row = delivery[k]
        BY <1>3, <2>3
      <3>4. PICK new : new = [row EXCEPT !.work = w]
        OBVIOUS
      <3>5. /\ new \in DeliveryRow /\ new.work = w /\ new.content = row.content /\ new.message = row.message
            /\ new.target = row.target /\ new.operation = row.operation
        BY <3>2, <3>3, <3>4 DEF DeliveryRow
      <3>6. Sendable(row, channel)
        BY <1>3, <2>3, <3>3
      <3>7. (w.status = "SUCCEEDED" <=> row.work.status = "SUCCEEDED")
        BY <3>1, <3>3, <1>3, <2>3 DEF Released, Holding, DeliveryRow, WorkRow
      <3>8. w.status = "ABSENT" <=> row.work.status = "ABSENT"
        BY <3>2, <3>3 DEF Stands
      <3>9. Sendable(new, channel)
        BY <3>2, <3>5, <3>6, <3>7, <3>8 DEF Sendable
      <3> QED
        BY <3>1, <3>2, <3>3, <3>4, <3>5, <3>9 DEF RowAnswered
    <2>5. delivery' \in [Keys -> DeliveryRow]
      BY <1>5, <2>3, <2>4
    <2>6. \A k \in Keys : \/ delivery'[k] = delivery[k]
                          \/ /\ k \in Sending(cycle[c]) \ Sending(cycle'[c])
                             /\ RowAnswered(delivery[k], delivery'[k], channel)
      BY <1>5, <2>1, <2>2, <2>4, IdleIs
    <2> QED
      BY <1>1, <1>5, <2>1, <2>5, <2>6, IdleIs, Dispatched
  <1> QED
    BY <1>4, <1>5 DEF Release

-----------------------------------------------------------------------------
(* What is sent *)

\* What a message shows is not older than before, nor than what any message showed.
Advancing(shown, showing) ==
    \A k \in Keys : /\ showing[k] >= shown[k]
                    /\ showing[k] # shown[k] => \A m \in Keys : shown[m] <= showing[k]

\* What a delivery under a lease that is kept would post is not newer than what may
\* still be posted after it.
LEMMA SentInTurn ==
    ASSUME UpdatesInv, history.inOrder, history.onTime, NEW c \in Cycles, NEW k \in Sending(cycle[c])
    PROVE  /\ k \in Keys /\ delivery[k].work.status = "PROCESSING"
           /\ \A m \in Keys : channel[m] <= delivery[k].content
           /\ \A j \in Keys : delivery[j].work.status \in Live => delivery[k].content <= delivery[j].content
  <1>1. k \in Keys
    BY InHandIs, InvariantParts
  <1>2. delivery[k].work.status = "PROCESSING"
    <2> DEFINE w == [j \in Keys |-> delivery[j].work]
               h == [o \in Cycles |-> Sending(cycle[o])]
    <2>1. \A o \in Cycles : \A j \in h[o] : w[j].status = "PROCESSING"
      BY DEF UpdatesInv, LeasesKept, LeasedOnce
    <2> QED
      BY <1>1, <2>1
  <1>3. \A m \in Keys : channel[m] <= delivery[k].content
    BY <1>1, <1>2 DEF UpdatesInv, ContentsAdvance, Live
  <1>4. ASSUME NEW j \in Keys, delivery[j].work.status \in Live
        PROVE  delivery[k].content <= delivery[j].content
    <2>1. delivery[k].content \in Int /\ j.source \in Int /\ k.source \in Int
      BY <1>1, KeyFacts, InvariantParts DEF DeliveryRow
    <2>2. j \notin Earlier(k)
      BY <1>1, <1>2, <1>4 DEF UpdatesInv, DeliveredInOrder
    <2>3. ~(j.source < k.source)
      BY <2>2 DEF Earlier
    <2>4. CASE j.source = k.source
      <3>1. evaluation[j].status = "SUCCEEDED" /\ evaluation[k].status = "SUCCEEDED"
        BY <1>1, <1>2, <1>4 DEF UpdatesInv, RowsSound, DeliveriesSound, Live
      <3>2. j = k
        BY <1>1, <2>4, <3>1 DEF UpdatesInv, EvaluatedInOrder
      <3> QED
        BY <2>1, <3>2
    <2>5. CASE k.source < j.source
      BY <1>1, <1>2, <1>4, <2>5 DEF UpdatesInv, ContentsAdvance, Live
    <2> QED
      BY <2>1, <2>3, <2>4, <2>5
  <1> QED
    BY <1>1, <1>2, <1>3, <1>4

LEMMA Posting ==
    ASSUME UpdatesInv, NEW c \in Cycles, Send(c)
    PROVE  UpdatesInv' /\ (history.inOrder /\ history.onTime => Advancing(channel, channel'))
  <1>1. PICK k : k = cycle[c].current
    OBVIOUS
  <1>2. PICK result \in {"SUCCEEDED", "LOST", "RETRYABLE", "TERMINAL"} :
           /\ cycle' = [cycle EXCEPT ![c].phase = "sent", ![c].result = result]
           /\ channel' = IF result \in {"RETRYABLE", "TERMINAL"} \/ (~cycle[c].aim[k].edit /\ channel[cycle[c].aim[k].id] > 0)
                         THEN channel ELSE [channel EXCEPT ![cycle[c].aim[k].id] = delivery[k].content]
    BY <1>1 DEF Send
  <1>3. cycle[c].phase = "checked" /\ UNCHANGED <<revision, signalled, settings, evaluation, delivery, history, left>>
    BY DEF Send, rows
  <1>4. CycleShape(cycle[c], revision) /\ CycleSound(cycle[c], revision, evaluation, delivery, channel)
    BY InvariantParts
  <1>5. k \in Keys /\ k \in Sending(cycle[c]) /\ k # None
    BY <1>1, <1>3, <1>4 DEF CycleShape, Sending, InHand
  <1>6. PICK to \in [edit : BOOLEAN, id : Keys] : to = cycle[c].aim[k]
    BY <1>4, <1>5 DEF CycleSound, AimSound
  <1>7. IF to.edit THEN channel[to.id] > 0 ELSE to.id = k
    BY <1>4, <1>5, <1>6 DEF CycleSound, AimSound
  <1>8. PICK n \in Nat : n = delivery[k].content
    BY <1>5, InvariantParts DEF DeliveryRow
  <1>9. n > 0 /\ n <= revision /\ delivery[k].work.status # "ABSENT"
    BY <1>4, <1>5, <1>8 DEF CycleSound, UpdatesInv, RowsSound, DeliveriesSound, Sendable
  <1>10. PICK i \in Keys : i = to.id
    BY <1>6
  <1>11. /\ channel' \in [Keys -> Nat]
         /\ \A j \in Keys : channel'[j] = channel[j] \/ (j = i /\ channel'[j] = n)
         /\ result = "SUCCEEDED" => channel'[i] > 0
    BY <1>2, <1>6, <1>8, <1>9, <1>10, InvariantParts
  <1>12. \A j \in Keys : channel[j] > 0 => channel'[j] > 0
    BY <1>9, <1>11
  <1>13. PICK z : z = [cycle[c] EXCEPT !.phase = "sent", !.result = result]
    OBVIOUS
  <1>14. Moves(c, cycle, cycle') /\ cycle'[c] = z
    <2>1. cycle' = [cycle EXCEPT ![c] = z]
      BY <1>2, <1>13
    <2> QED
      BY <2>1, CycleWritten
  <1>15. /\ z.phase = "sent" /\ z.current = k /\ z.batch = cycle[c].batch /\ z.result = result
         /\ z.aim = cycle[c].aim
         /\ z \in [phase : Phases, batch : SUBSET Keys, current : Keys \cup {None}, result : {z.result},
                   aborted : BOOLEAN, aim : {z.aim}]
    BY <1>1, <1>4, <1>13 DEF CycleShape, Phases
  <1>16. CycleShape(z, revision)
    BY <1>1, <1>3, <1>4, <1>5, <1>15 DEF CycleShape
  <1>17. Sending(z) = Sending(cycle[c]) /\ Evaluating(z) = {} /\ Evaluating(cycle[c]) = {}
    BY <1>1, <1>3, <1>15 DEF Sending, Evaluating, InHand
  <1>18. i # k => channel[i] > 0
    BY <1>7, <1>10
  <1>19. delivery[i].work.status # "ABSENT"
    BY <1>9, <1>18 DEF UpdatesInv, RowsSound, DeliveriesSound
  <1>20. DeliveriesSound(delivery', evaluation', channel', revision')
    <2>1. DeliveriesSound(delivery, evaluation, channel, revision)
      BY DEF UpdatesInv, RowsSound
    <2>2. \A j \in Keys : Sendable(delivery[j], channel')
      <3>1. ASSUME NEW j \in Keys PROVE Sendable(delivery[j], channel')
        <4>1. Sendable(delivery[j], channel)
          BY <2>1 DEF DeliveriesSound
        <4>2. delivery[j].target \in Keys \cup {None} /\ delivery[j].message \in Keys \cup {None}
          BY InvariantParts DEF DeliveryRow
        <4> QED
          BY <1>12, <4>1, <4>2 DEF Sendable
      <3> QED
        BY <3>1
    <2>3. \A j \in Keys : channel'[j] > 0 => delivery[j].work.status # "ABSENT"
      BY <1>11, <1>19, <2>1 DEF DeliveriesSound
    <2>4. \A j \in Keys : channel'[j] <= revision
      BY <1>9, <1>11, <2>1 DEF DeliveriesSound
    <2> HIDE DEF Sendable
    <2> QED
      BY <1>3, <1>11, <2>1, <2>2, <2>3, <2>4 DEF DeliveriesSound
  <1>21. RowsSound'
    BY <1>3, <1>20 DEF RowsSound, UpdatesInv
  <1>22. CyclesSound(cycle', revision', evaluation', delivery', channel')
    <2>1. Onwards(revision, evaluation, delivery, channel, revision, evaluation, delivery, channel')
      BY <1>12, InvariantParts DEF Onwards
    <2>2. CycleSound(cycle[c], revision, evaluation, delivery, channel')
      BY <1>4, <1>11, <2>1, CycleStands, InvariantParts
    <2>3. CycleSound(z, revision, evaluation, delivery, channel')
      <3>1. z.result = "SUCCEEDED" => channel'[z.aim[z.current].id] > 0
        BY <1>6, <1>10, <1>11, <1>15
      <3> QED
        BY <1>15, <1>16, <1>17, <2>2, <3>1 DEF CycleSound
    <2>4. CyclesSound(cycle', revision, evaluation, delivery, channel')
      <3>1. CyclesSound(cycle, revision, evaluation, delivery, channel)
        BY DEF UpdatesInv
      <3> QED
        BY <1>11, <1>14, <2>1, <2>3, <3>1, CyclesStand, InvariantParts
    <2> QED
      BY <1>3, <2>4
  <1>23. /\ Smaller(cycle, cycle')
         /\ \A o \in Cycles : Sending(cycle'[o]) = Sending(cycle[o]) /\ Evaluating(cycle'[o]) = Evaluating(cycle[o])
    BY <1>14, <1>15, <1>17 DEF Smaller, Moves
  <1>24. history'.inOrder => EvaluatedInOrder(evaluation') /\ DeliveredInOrder(delivery', cycle')
    <2>1. history.inOrder => DeliveredInOrder(delivery, cycle')
      BY <1>23, NothingStands, OrderOfDeliveriesStands DEF UpdatesInv
    <2> QED
      BY <1>3, <2>1 DEF UpdatesInv
  <1>25. history'.inOrder /\ settings'.strategy = "EDIT_LIVE_MESSAGE" => CreatesFirst(delivery', channel', cycle')
    <2>1. ASSUME history.inOrder, settings.strategy = "EDIT_LIVE_MESSAGE" PROVE CreatesFirst(delivery, channel', cycle')
      <3>1. CreatesFirst(delivery, channel, cycle')
        BY <1>23, <2>1, NothingStands, CreationsStand DEF UpdatesInv
      <3>2. channel'[i] > 0 => Fruitless(i, delivery)
        <4>1. CASE to.edit
          BY <1>7, <1>10, <3>1, <4>1 DEF CreatesFirst
        <4>2. CASE ~to.edit
          <5>1. i = k /\ CreatesFirst(delivery, channel, cycle)
            BY <1>7, <1>10, <2>1, <4>2 DEF UpdatesInv
          <5> QED
            BY <1>5, <1>6, <4>2, <5>1 DEF CreatesFirst
        <4> QED
          BY <4>1, <4>2
      <3> HIDE DEF Fruitless
      <3> QED
        BY <1>11, <3>1, <3>2 DEF CreatesFirst
    <2> QED
      BY <1>3, <2>1
  <1>26. ASSUME history.inOrder, history.onTime
         PROVE  /\ LeasesKept(evaluation', delivery', cycle') /\ ContentsAdvance(delivery', channel', cycle')
                /\ Advancing(channel, channel')
    <2>1. LeasesKept(evaluation', delivery', cycle')
      <3>1. HandsStand
        BY <1>3, <1>23 DEF HandsStand
      <3>2. LeasesKept(evaluation, delivery, cycle)
        BY <1>26 DEF UpdatesInv
      <3> QED
        BY <3>1, <3>2, LeasesGoOn, InvariantParts
    <2>2. /\ \A m \in Keys : channel[m] <= n
          /\ \A j \in Keys : delivery[j].work.status \in Live => n <= delivery[j].content
      BY <1>5, <1>8, <1>26, SentInTurn
    <2>3. ContentsAdvance(delivery, channel, cycle)
      BY <1>26 DEF UpdatesInv
    <2>4. \A j \in Keys : delivery[j].work.status \in Live => \A m \in Keys : channel'[m] <= delivery[j].content
      BY <1>11, <2>2, <2>3 DEF ContentsAdvance
    <2>5. \A o \in Cycles : cycle'[o].phase = "loaded" /\ cycle'[o].result > 0 =>
            \A j \in Keys : delivery[j].content <= cycle'[o].result /\ channel'[j] <= cycle'[o].result
      <3>1. ASSUME NEW o \in Cycles, cycle'[o].phase = "loaded", cycle'[o].result > 0
            PROVE  \A j \in Keys : delivery[j].content <= cycle'[o].result /\ channel'[j] <= cycle'[o].result
        <4>1. cycle'[o] = cycle[o]
          BY <1>14, <1>15, <3>1 DEF Moves
        <4> QED
          BY <1>5, <1>8, <1>11, <2>3, <3>1, <4>1 DEF ContentsAdvance
      <3> QED
        BY <3>1
    <2>6. ContentsAdvance(delivery', channel', cycle')
      BY <1>3, <2>3, <2>4, <2>5 DEF ContentsAdvance
    <2>7. Advancing(channel, channel')
      BY <1>11, <2>2, InvariantParts DEF Advancing
    <2> QED
      BY <2>1, <2>6, <2>7
  <1> QED
    BY <1>3, <1>21, <1>22, <1>24, <1>25, <1>26 DEF UpdatesInv

-----------------------------------------------------------------------------
(* What is claimed *)

LEMMA LeasedIs ==
    ASSUME NEW w, Leasable(w), w.status \in Live
    PROVE  /\ Leasable(Leased(w)) /\ Leased(w).status = "PROCESSING" /\ ~Leased(w).due
           /\ Leased(w) \in WorkRow
  <1>1. PICK row \in WorkRow : row = w
    BY DEF Leasable
  <1>2. PICK x : x = [row EXCEPT !.status = "PROCESSING", !.owner = Identity, !.due = FALSE]
    OBVIOUS
  <1>3. x \in WorkRow /\ x.status = "PROCESSING" /\ x.owner = Identity /\ ~x.due /\ x.attempts = row.attempts
    BY <1>1, <1>2 DEF WorkRow, Statuses
  <1>4. x = Leased(w)
    BY <1>1, <1>2 DEF Leased
  <1>5. Identity # None
    BY NoneIsNothing
  <1> QED
    BY <1>1, <1>3, <1>4, <1>5 DEF Leasable

\* What is claimed becomes one cycle's, and was in nobody's hands.
LEMMA LeasesClaimed ==
    ASSUME NEW w, NEW x, NEW h, NEW g, NEW c \in Cycles, NEW batch, LeasedOnce(w, h),
           \A o \in Cycles \ {c} : g[o] = h[o],
           g[c] = batch,
           \A k \in batch : w[k].due /\ x[k].status = "PROCESSING" /\ ~x[k].due,
           \A o \in Cycles \ {c} : \A k \in h[o] : k \notin batch => x[k] = w[k]
    PROVE  LeasedOnce(x, g)
  <1>1. \A o \in Cycles \ {c} : \A k \in g[o] : k \notin batch /\ x[k] = w[k]
    BY DEF LeasedOnce
  <1>2. \A o \in Cycles : \A k \in g[o] : x[k].status = "PROCESSING" /\ ~x[k].due
    BY <1>1 DEF LeasedOnce
  <1>3. \A o, p \in Cycles : o # p => g[o] \cap g[p] = {}
    BY <1>1 DEF LeasedOnce
  <1> QED
    BY <1>2, <1>3 DEF LeasedOnce

LEMMA ClaimingEvaluations ==
    ASSUME UpdatesInv, NEW c \in Cycles, ClaimEvaluations(c)
    PROVE  UpdatesInv'
  <1>1. PICK batch : batch = ClaimableIn(evaluation)
    OBVIOUS
  <1>2. /\ cycle[c].phase = "claimEvaluations"
        /\ evaluation' = [k \in Keys |-> IF k \in batch THEN Leased(evaluation[k]) ELSE evaluation[k]]
        /\ cycle' = [cycle EXCEPT ![c].batch = batch,
               ![c].phase = IF batch = {} THEN "claimDeliveries" ELSE "evaluating"]
        /\ UNCHANGED <<revision, signalled, settings, delivery, channel, history, left>>
    BY <1>1 DEF ClaimEvaluations
  <1>3. batch \subseteq Keys /\ \A k \in batch : evaluation[k].status \in Live /\ evaluation[k].due
                             /\ \A p \in Earlier(k) : evaluation[p].status \notin Live
    BY <1>1 DEF ClaimableIn, Earlier
  <1>4. CycleShape(cycle[c], revision) /\ cycle[c].current = None
    BY <1>2, InvariantParts DEF CycleShape
  <1>5. PICK z : z = [cycle[c] EXCEPT !.batch = batch,
                        !.phase = IF batch = {} THEN "claimDeliveries" ELSE "evaluating"]
    OBVIOUS
  <1>6. Moves(c, cycle, cycle') /\ cycle'[c] = z
    <2>1. cycle' = [cycle EXCEPT ![c] = z]
      BY <1>2, <1>5
    <2> QED
      BY <2>1, CycleWritten
  <1>7. /\ z.current = None /\ z.batch = batch
        /\ z.phase = (IF batch = {} THEN "claimDeliveries" ELSE "evaluating")
        /\ z \in [phase : Phases, batch : SUBSET Keys, current : Keys \cup {None}, result : {z.result},
                  aborted : BOOLEAN, aim : {z.aim}]
    BY <1>3, <1>4, <1>5 DEF CycleShape, Phases
  <1>8. CycleShape(z, revision)
    BY <1>3, <1>7, NoneIsNothing DEF CycleShape
  <1>9. /\ Evaluating(z) = batch /\ Sending(z) = {} /\ Evaluating(cycle[c]) = {} /\ Sending(cycle[c]) = {}
        /\ z.phase \notin {"loaded", "sent"}
    BY <1>2, <1>7 DEF Evaluating, Sending, InHand
  <1>10. \A k \in Keys : evaluation[k] \in WorkRow /\ Leasable(evaluation[k])
    BY DEF UpdatesInv, RowsSound, EvaluationsSound
  <1>11. \A k \in batch : /\ Leasable(evaluation'[k]) /\ evaluation'[k].status = "PROCESSING" /\ ~evaluation'[k].due
                          /\ evaluation'[k] \in WorkRow
    <2> HIDE DEF Leasable
    <2> QED
      BY <1>2, <1>3, <1>10, LeasedIs
  <1>12. \A k \in Keys : k \notin batch => evaluation'[k] = evaluation[k]
    BY <1>2
  <1>13. EvaluationsSound(evaluation')
    <2>1. \A k \in Keys : evaluation'[k] \in WorkRow /\ Leasable(evaluation'[k])
      <3> HIDE DEF Leasable
      <3> QED
        BY <1>10, <1>11, <1>12
    <2>2. evaluation' = [k \in Keys |-> evaluation'[k]]
      BY <1>2
    <2> HIDE DEF Leasable
    <2> QED
      BY <2>1, <2>2 DEF EvaluationsSound
  <1>14. \A k \in Keys : evaluation[k].status = "SUCCEEDED" => evaluation'[k].status = "SUCCEEDED"
    BY <1>3, <1>12 DEF Live
  <1>15. DeliveriesSound(delivery', evaluation', channel', revision')
    <2>1. DeliveriesSound(delivery, evaluation', channel, revision)
      BY <1>14, DeliveriesStand, InvariantParts DEF UpdatesInv, RowsSound
    <2> QED
      BY <1>2, <2>1
  <1>16. RowsSound'
    BY <1>2, <1>13, <1>15 DEF RowsSound, UpdatesInv
  <1>17. \A k \in Keys : /\ evaluation'[k].status = "ABSENT" <=> evaluation[k].status = "ABSENT"
                         /\ evaluation'[k].status \in Live <=> evaluation[k].status \in Live
                         /\ k \notin batch => evaluation'[k].status = evaluation[k].status
    BY <1>3, <1>11, <1>12 DEF Live
  <1>18. CyclesSound(cycle', revision', evaluation', delivery', channel')
    <2>1. CycleSound(z, revision, evaluation', delivery, channel)
      <3>1. \A k \in batch : evaluation'[k].status # "ABSENT"
        BY <1>11
      <3> QED
        BY <1>8, <1>9, <3>1 DEF CycleSound
    <2>2. Onwards(revision, evaluation, delivery, channel, revision, evaluation', delivery, channel)
      BY <1>17, InvariantParts DEF Onwards
    <2>3. CyclesSound(cycle, revision, evaluation, delivery, channel)
      BY DEF UpdatesInv
    <2>4. CyclesSound(cycle', revision, evaluation', delivery, channel)
      BY <1>6, <2>1, <2>2, <2>3, CyclesStand, InvariantParts
    <2> QED
      BY <1>2, <2>4
  <1>19. Smaller(cycle, cycle')
    BY <1>6, <1>9 DEF Smaller, Moves
  <1>20. history'.inOrder => EvaluatedInOrder(evaluation') /\ DeliveredInOrder(delivery', cycle')
    <2>1. ASSUME history.inOrder PROVE EvaluatedInOrder(evaluation')
      <3>1. EvaluatedInOrder(evaluation)
        BY <2>1 DEF UpdatesInv
      <3>2. ASSUME NEW k \in Keys, evaluation'[k].status \in {"PROCESSING", "SUCCEEDED", "DEAD_LETTER"}
            PROVE  \A p \in Earlier(k) : evaluation'[p].status \notin Live
        <4>1. \A p \in Earlier(k) : evaluation[p].status \notin Live
          BY <1>3, <1>17, <3>1, <3>2 DEF EvaluatedInOrder
        <4> QED
          BY <1>17, <4>1 DEF Earlier
      <3>3. \A j, k \in Keys : evaluation'[j].status # "ABSENT" /\ evaluation'[k].status # "ABSENT" /\ j.source = k.source => j = k
        BY <1>17, <3>1 DEF EvaluatedInOrder
      <3> QED
        BY <3>2, <3>3 DEF EvaluatedInOrder
    <2>2. history.inOrder => DeliveredInOrder(delivery, cycle')
      BY <1>19, NothingStands, OrderOfDeliveriesStands DEF UpdatesInv
    <2> QED
      BY <1>2, <2>1, <2>2
  <1>21. history'.inOrder /\ settings'.strategy = "EDIT_LIVE_MESSAGE" => CreatesFirst(delivery', channel', cycle')
    <2>1. history.inOrder /\ settings.strategy = "EDIT_LIVE_MESSAGE" => CreatesFirst(delivery, channel, cycle')
      BY <1>19, NothingStands, CreationsStand DEF UpdatesInv
    <2> QED
      BY <1>2, <2>1
  <1>22. ASSUME history.inOrder, history.onTime
         PROVE  LeasesKept(evaluation', delivery', cycle') /\ ContentsAdvance(delivery', channel', cycle')
    <2> DEFINE h1 == [o \in Cycles |-> Evaluating(cycle[o])]
               g1 == [o \in Cycles |-> Evaluating(cycle'[o])]
               h2 == [o \in Cycles |-> Sending(cycle[o])]
               g2 == [o \in Cycles |-> Sending(cycle'[o])]
    <2>1. LeasedOnce(evaluation, h1) /\ LeasedOnce([k \in Keys |-> delivery[k].work], h2)
      BY <1>22 DEF UpdatesInv, LeasesKept
    <2>2. LeasedOnce(evaluation', g1)
      <3>1. g1[c] = batch /\ \A o \in Cycles \ {c} : g1[o] = h1[o] /\ h1[o] \subseteq Keys
        BY <1>6, <1>9, InHandIs, InvariantParts DEF Moves
      <3>2. \A o \in Cycles \ {c} : \A k \in h1[o] : k \notin batch => evaluation'[k] = evaluation[k]
        BY <1>12, <3>1
      <3> HIDE DEF h1, g1
      <3> QED
        BY <1>3, <1>11, <2>1, <3>1, <3>2, LeasesClaimed
    <2>3. LeasedOnce([k \in Keys |-> delivery'[k].work], g2)
      <3>1. g2 = h2
        BY <1>6, <1>9 DEF Moves
      <3> QED
        BY <1>2, <2>1, <3>1
    <2>4. LeasesKept(evaluation', delivery', cycle')
      BY <2>2, <2>3 DEF LeasesKept
    <2>5. ContentsAdvance(delivery', channel', cycle')
      <3>1. ContentsAdvance(delivery, channel, cycle)
        BY <1>22 DEF UpdatesInv
      <3>2. \A o \in Cycles : cycle'[o].phase = "loaded" /\ cycle'[o].result > 0 =>
                cycle[o].phase = "loaded" /\ cycle[o].result = cycle'[o].result
        BY <1>6, <1>9 DEF Moves
      <3>3. ContentsAdvance(delivery, channel, cycle')
        BY <3>1, <3>2, NothingStands, ContentsStand
      <3> QED
        BY <1>2, <3>3
    <2> QED
      BY <2>4, <2>5
  <1> QED
    BY <1>2, <1>16, <1>18, <1>20, <1>21, <1>22 DEF UpdatesInv

\* A delivery that is claimed is aimed at a message that is there, or makes its own; when
\* messages are edited live it makes its own only if nothing before it can have one.
LEMMA AimedIs ==
    ASSUME UpdatesInv, NEW k \in Keys, delivery[k].work.status \in Live,
           \A p \in Earlier(k) : delivery[p].work.status \notin Live,
           NEW row \in Aimed(k)
    PROVE  /\ row \in DeliveryRow /\ row.work = Leased(delivery[k].work)
           /\ row.content = delivery[k].content
           /\ Sendable(row, channel)
           /\ AimSound(k, Message(k, row), channel)
           /\ settings.strategy = "EDIT_LIVE_MESSAGE" /\ ~Message(k, row).edit => Fruitless(k, delivery)
  <1> DEFINE among == {o \in Keys : o.source < k.source}
  <1>1. PICK old \in DeliveryRow : old = delivery[k]
    BY InvariantParts
  <1>2. Sendable(old, channel) /\ old.work.status \in Live
    BY <1>1 DEF UpdatesInv, RowsSound, DeliveriesSound
  <1>3. PICK w \in WorkRow : w = Leased(old.work)
    BY <1>2, LeasedIs DEF Sendable
  <1>4. Leasable(w) /\ w.status = "PROCESSING"
    BY <1>2, <1>3, LeasedIs DEF Sendable
  <1>5. PICK claimed : claimed = [old EXCEPT !.work = w]
    OBVIOUS
  <1>6. /\ claimed \in DeliveryRow /\ claimed.work = w /\ claimed.content = old.content
        /\ claimed.operation = old.operation /\ claimed.target = old.target /\ claimed.message = old.message
    BY <1>5 DEF DeliveryRow
  <1>7. claimed = [delivery[k] EXCEPT !.work = Leased(@)]
    BY <1>1, <1>3, <1>5
  <1>8. old.message = None /\ old.content > 0
    BY <1>2 DEF Sendable, Live
  <1>9. Latest(among) \subseteq among /\ \A o \in Latest(among) : delivery[o].work.status = "SUCCEEDED"
    BY DEF Latest
  <1>10. ASSUME NEW new \in DeliveryRow, new.work = w, new.content = old.content, new.message = old.message,
                new.operation = "EDIT" <=> new.target # None, new.target # None => channel[new.target] > 0
         PROVE  Sendable(new, channel) /\ AimSound(k, Message(k, new), channel)
    <2>1. Sendable(new, channel)
      BY <1>4, <1>8, <1>10 DEF Sendable
    <2>2. new.target \in Keys \cup {None}
      BY <1>10 DEF DeliveryRow
    <2>3. AimSound(k, Message(k, new), channel)
      BY <1>10, <2>2 DEF AimSound, Message
    <2> QED
      BY <2>1, <2>3
  <1>11. CASE Latest(among) = {}
    <2>1. row = claimed
      BY <1>7, <1>11 DEF Aimed
    <2>2. Sendable(row, channel) /\ AimSound(k, Message(k, row), channel)
      BY <1>2, <1>6, <1>10, <2>1 DEF Sendable
    <2>3. ASSUME NEW p \in Earlier(k) PROVE delivery[p].work.status \in {"ABSENT", "DEAD_LETTER", "CANCELLED"}
      <3> DEFINE T == {o \in among : delivery[o].work.status = "SUCCEEDED"}
      <3>1. T = {}
        <4>1. SUFFICES ASSUME T # {} PROVE FALSE
          OBVIOUS
        <4>2. T \subseteq Keys
          OBVIOUS
        <4>3. PICK o \in T : \A q \in T : q.source <= o.source
          <5> HIDE DEF T
          <5> QED
            BY <4>1, <4>2, GreatestSource
        <4>4. o \in Latest(among)
          BY <4>3 DEF Latest
        <4> QED
          BY <1>11, <4>4
      <3>2. p \in among /\ delivery[p].work.status \notin Live /\ delivery[p].work.status \in Statuses
        BY <2>3, InvariantParts DEF Earlier, DeliveryRow, WorkRow
      <3>3. delivery[p].work.status # "SUCCEEDED"
        BY <3>1, <3>2
      <3> QED
        BY <3>2, <3>3 DEF Statuses, Live
    <2>4. Fruitless(k, delivery)
      BY <2>3 DEF Fruitless
    <2> HIDE DEF Fruitless
    <2> QED
      BY <1>1, <1>3, <1>6, <2>1, <2>2, <2>4
  <1>12. CASE Latest(among) # {} /\ Edits(k.trigger)
    <2>1. PICK o \in Latest(among) : row = [claimed EXCEPT !.operation = "EDIT", !.target = delivery[o].message]
      BY <1>7, <1>12 DEF Aimed
    <2>2. delivery[o].message \in Keys /\ delivery[o].message # None /\ channel[delivery[o].message] > 0
      <3>1. o \in Keys /\ delivery[o].work.status = "SUCCEEDED"
        BY <1>9
      <3>2. Sendable(delivery[o], channel)
        BY <3>1 DEF UpdatesInv, RowsSound, DeliveriesSound
      <3> QED
        BY <3>1, <3>2 DEF Sendable, DeliveryRow
    <2>3. PICK m \in Keys : m = delivery[o].message
      BY <2>2
    <2>4. /\ row \in DeliveryRow /\ row.work = w /\ row.content = old.content /\ row.message = old.message
          /\ row.operation = "EDIT" /\ row.target = m
      BY <1>6, <2>1, <2>3 DEF DeliveryRow
    <2>5. Sendable(row, channel) /\ AimSound(k, Message(k, row), channel)
      BY <1>10, <2>2, <2>3, <2>4
    <2>6. Message(k, row).edit
      BY <2>4 DEF Message
    <2> QED
      BY <1>1, <1>3, <2>4, <2>5, <2>6
  <1>13. CASE Latest(among) # {} /\ ~Edits(k.trigger)
    <2>1. row = [claimed EXCEPT !.operation = "APPEND", !.target = None]
      BY <1>7, <1>13 DEF Aimed
    <2>2. /\ row \in DeliveryRow /\ row.work = w /\ row.content = old.content /\ row.message = old.message
          /\ row.operation = "APPEND" /\ row.target = None
      BY <1>6, <2>1 DEF DeliveryRow
    <2>3. Sendable(row, channel) /\ AimSound(k, Message(k, row), channel)
      BY <1>10, <2>2
    <2>4. settings.strategy # "EDIT_LIVE_MESSAGE"
      BY <1>13 DEF Edits
    <2> QED
      BY <1>1, <1>3, <2>2, <2>3, <2>4
  <1> QED
    BY <1>11, <1>12, <1>13

LEMMA ClaimingDeliveries ==
    ASSUME UpdatesInv, NEW c \in Cycles, ClaimDeliveries(c)
    PROVE  UpdatesInv'
  <1> DEFINE batch == ClaimableIn(DeliveryWork)
  <1>1. batch = ClaimableIn(DeliveryWork)
    OBVIOUS
  <1>2. PICK aim \in [batch -> UNION {Aimed(k) : k \in batch}] :
            /\ \A k \in batch : aim[k] \in Aimed(k)
            /\ delivery' = [k \in Keys |-> IF k \in batch THEN aim[k] ELSE delivery[k]]
            /\ cycle' = IF batch = {} THEN [cycle EXCEPT ![c] = Idle] ELSE
                   [cycle EXCEPT ![c].batch = batch, ![c].phase = "delivering",
                                 ![c].aim = [k \in batch |-> Message(k, aim[k])]]
    BY Zenon DEF ClaimDeliveries
  <1> HIDE DEF batch
  <1>3. /\ cycle[c].phase = "claimDeliveries"
        /\ UNCHANGED <<revision, signalled, settings, evaluation, channel, history, left>>
    BY DEF ClaimDeliveries
  <1>4. batch \subseteq Keys /\ \A k \in batch : /\ delivery[k].work.status \in Live /\ delivery[k].work.due
                                                /\ \A p \in Earlier(k) : delivery[p].work.status \notin Live
    BY <1>1 DEF ClaimableIn, DeliveryWork, Earlier
  <1>5. CycleShape(cycle[c], revision) /\ cycle[c].current = None /\ cycle[c].batch = {}
    BY <1>3, InvariantParts DEF CycleShape
  <1>6. PICK z : z = IF batch = {} THEN Idle ELSE [cycle[c] EXCEPT !.batch = batch, !.phase = "delivering",
                                                     !.aim = [k \in batch |-> Message(k, aim[k])]]
    OBVIOUS
  <1>7. Moves(c, cycle, cycle') /\ cycle'[c] = z
    <2>1. cycle' = [cycle EXCEPT ![c] = z]
      BY <1>2, <1>6
    <2> QED
      BY <2>1, CycleWritten
  <1>8. /\ CycleShape(z, revision) /\ Evaluating(z) = {} /\ Sending(z) = batch
        /\ z.phase \notin {"loaded", "sent"}
        /\ Evaluating(cycle[c]) = {} /\ Sending(cycle[c]) = {}
    <2>1. Evaluating(cycle[c]) = {} /\ Sending(cycle[c]) = {}
      BY <1>3 DEF Evaluating, Sending
    <2>2. CASE batch = {}
      BY <1>6, <2>1, <2>2, IdleIs
    <2>3. CASE batch # {}
      <3>1. /\ z.current = None /\ z.batch = batch /\ z.phase = "delivering"
            /\ z \in [phase : Phases, batch : SUBSET Keys, current : Keys \cup {None}, result : {z.result},
                      aborted : BOOLEAN, aim : {z.aim}]
        BY <1>4, <1>5, <1>6, <2>3 DEF CycleShape, Phases
      <3>2. CycleShape(z, revision)
        BY <1>4, <3>1, NoneIsNothing DEF CycleShape
      <3>3. Evaluating(z) = {} /\ Sending(z) = batch
        BY <3>1 DEF Evaluating, Sending, InHand
      <3> QED
        BY <2>1, <3>1, <3>2, <3>3
    <2> QED
      BY <2>2, <2>3
  <1>9. \A k \in batch : z.aim[k] = Message(k, delivery'[k])
    BY <1>2, <1>4, <1>5, <1>6 DEF CycleShape
  <1>10. ASSUME NEW k \in batch
         PROVE  /\ k \in Keys
                /\ delivery'[k] \in DeliveryRow /\ delivery'[k].content = delivery[k].content
                /\ delivery'[k].work.status = "PROCESSING" /\ ~delivery'[k].work.due
                /\ Sendable(delivery'[k], channel)
                /\ AimSound(k, z.aim[k], channel)
                /\ settings.strategy = "EDIT_LIVE_MESSAGE" /\ ~z.aim[k].edit => Fruitless(k, delivery)
    <2>1. k \in Keys /\ delivery'[k] \in Aimed(k) /\ z.aim[k] = Message(k, delivery'[k])
      BY <1>2, <1>4, <1>9
    <2>2. PICK row \in Aimed(k) : row = delivery'[k]
      BY <2>1
    <2>3. /\ row \in DeliveryRow /\ row.work = Leased(delivery[k].work)
          /\ row.content = delivery[k].content /\ Sendable(row, channel)
          /\ AimSound(k, Message(k, row), channel)
          /\ settings.strategy = "EDIT_LIVE_MESSAGE" /\ ~Message(k, row).edit => Fruitless(k, delivery)
      BY <1>4, <2>1, AimedIs
    <2>4. Leasable(delivery[k].work) /\ delivery[k].work.status \in Live
      BY <1>4, <2>1 DEF UpdatesInv, RowsSound, DeliveriesSound, Sendable
    <2>5. row.work.status = "PROCESSING" /\ ~row.work.due
      BY <2>3, <2>4, LeasedIs
    <2> HIDE DEF Sendable, AimSound, Fruitless, Message
    <2> QED
      BY <2>1, <2>2, <2>3, <2>5
  <1>11. \A k \in Keys : k \notin batch => delivery'[k] = delivery[k]
    BY <1>2
  <1>12. \A k \in Keys : /\ delivery'[k].work.status = "ABSENT" <=> delivery[k].work.status = "ABSENT"
                         /\ delivery'[k].work.status \in Live <=> delivery[k].work.status \in Live
                         /\ k \notin batch => delivery'[k].work.status = delivery[k].work.status
                         /\ delivery'[k].content = delivery[k].content
    BY <1>4, <1>10, <1>11 DEF Live
  <1>13. DeliveriesSound(delivery', evaluation', channel', revision')
    <2>1. DeliveriesSound(delivery, evaluation, channel, revision)
      BY DEF UpdatesInv, RowsSound
    <2>2. \A k \in Keys : Sendable(delivery'[k], channel) /\ delivery'[k] \in DeliveryRow
      <3>1. \A k \in Keys : Sendable(delivery[k], channel) /\ delivery[k] \in DeliveryRow
        BY <2>1 DEF DeliveriesSound
      <3> HIDE DEF Sendable
      <3> QED
        BY <1>10, <1>11, <3>1
    <2>3. delivery' = [k \in Keys |-> delivery'[k]]
      BY <1>2
    <2> HIDE DEF Sendable
    <2> QED
      BY <1>3, <1>12, <2>1, <2>2, <2>3 DEF DeliveriesSound
  <1>14. RowsSound'
    BY <1>3, <1>13 DEF RowsSound, UpdatesInv
  <1>15. CyclesSound(cycle', revision', evaluation', delivery', channel')
    <2>1. CycleSound(z, revision, evaluation, delivery', channel)
      <3>1. \A k \in batch : delivery'[k].work.status # "ABSENT" /\ AimSound(k, z.aim[k], channel)
        BY <1>10
      <3> QED
        BY <1>8, <3>1 DEF CycleSound
    <2>2. Onwards(revision, evaluation, delivery, channel, revision, evaluation, delivery', channel)
      BY <1>12, InvariantParts DEF Onwards
    <2>3. CyclesSound(cycle, revision, evaluation, delivery, channel)
      BY DEF UpdatesInv
    <2>4. CyclesSound(cycle', revision, evaluation, delivery', channel)
      BY <1>7, <2>1, <2>2, <2>3, CyclesStand, InvariantParts
    <2> QED
      BY <1>3, <2>4
  <1>16. \A o \in Cycles \ {c} : cycle'[o] = cycle[o] /\ Sending(cycle[o]) \subseteq Keys
    BY <1>7, InHandIs, InvariantParts DEF Moves
  <1>17. history'.inOrder => EvaluatedInOrder(evaluation') /\ DeliveredInOrder(delivery', cycle')
    <2>1. ASSUME history.inOrder PROVE DeliveredInOrder(delivery', cycle')
      <3>1. DeliveredInOrder(delivery, cycle)
        BY <2>1 DEF UpdatesInv
      <3>2. ASSUME NEW k \in Keys, delivery'[k].work.status = "PROCESSING"
            PROVE  \A p \in Earlier(k) : delivery'[p].work.status \notin Live
        <4>1. \A p \in Earlier(k) : delivery[p].work.status \notin Live
          BY <1>4, <1>12, <3>1, <3>2 DEF DeliveredInOrder
        <4> QED
          BY <1>12, <4>1 DEF Earlier
      <3>3. ASSUME NEW o \in Cycles, NEW k \in Sending(cycle'[o])
            PROVE  \A p \in Earlier(k) : delivery'[p].work.status \notin Live
        <4>1. \A p \in Earlier(k) : delivery[p].work.status \notin Live
          BY <1>4, <1>7, <1>8, <1>16, <3>1, <3>3 DEF DeliveredInOrder
        <4> QED
          BY <1>12, <4>1 DEF Earlier
      <3> QED
        BY <3>2, <3>3 DEF DeliveredInOrder
    <2> QED
      BY <1>3, <2>1 DEF UpdatesInv
  <1>18. history'.inOrder /\ settings'.strategy = "EDIT_LIVE_MESSAGE" => CreatesFirst(delivery', channel', cycle')
    <2>1. ASSUME history.inOrder, settings.strategy = "EDIT_LIVE_MESSAGE" PROVE CreatesFirst(delivery', channel, cycle')
      <3>1. CreatesFirst(delivery, channel, cycle)
        BY <2>1 DEF UpdatesInv
      <3>2. ASSUME NEW k, Fruitless(k, delivery) PROVE Fruitless(k, delivery')
        <4>1. ASSUME NEW p \in Earlier(k) PROVE delivery'[p].work.status \in {"ABSENT", "DEAD_LETTER", "CANCELLED"}
          <5>1. p \in Keys /\ delivery[p].work.status \in {"ABSENT", "DEAD_LETTER", "CANCELLED"}
            BY <3>2, <4>1 DEF Fruitless, Earlier
          <5>2. p \notin batch
            BY <1>4, <5>1 DEF Live
          <5> QED
            BY <1>11, <5>1, <5>2
        <4> QED
          BY <4>1 DEF Fruitless
      <3>3. ASSUME NEW o \in Cycles, NEW k \in Sending(cycle'[o]), ~cycle'[o].aim[k].edit
            PROVE  Fruitless(k, delivery)
        <4> HIDE DEF Fruitless
        <4>1. CASE o = c
          BY <1>7, <1>8, <1>10, <2>1, <3>3, <4>1
        <4>2. CASE o # c
          BY <1>16, <3>1, <3>3, <4>2 DEF CreatesFirst
        <4> QED
          BY <4>1, <4>2
      <3>4. \A m \in Keys : channel[m] > 0 => Fruitless(m, delivery)
        BY <3>1 DEF CreatesFirst
      <3> HIDE DEF Fruitless
      <3> QED
        BY <3>2, <3>3, <3>4 DEF CreatesFirst
    <2> QED
      BY <1>3, <2>1
  <1>19. ASSUME history.inOrder, history.onTime
         PROVE  LeasesKept(evaluation', delivery', cycle') /\ ContentsAdvance(delivery', channel', cycle')
    <2> DEFINE h1 == [o \in Cycles |-> Evaluating(cycle[o])]
               g1 == [o \in Cycles |-> Evaluating(cycle'[o])]
               h2 == [o \in Cycles |-> Sending(cycle[o])]
               g2 == [o \in Cycles |-> Sending(cycle'[o])]
               w == [k \in Keys |-> delivery[k].work]
               x == [k \in Keys |-> delivery'[k].work]
    <2>1. LeasedOnce(evaluation, h1) /\ LeasedOnce(w, h2)
      BY <1>19 DEF UpdatesInv, LeasesKept
    <2>2. LeasedOnce(x, g2)
      <3>1. g2[c] = batch /\ \A o \in Cycles \ {c} : g2[o] = h2[o] /\ h2[o] \subseteq Keys
        BY <1>7, <1>8, <1>16
      <3>2. \A o \in Cycles \ {c} : \A k \in h2[o] : k \notin batch => x[k] = w[k]
        BY <1>11, <3>1
      <3>3. \A k \in batch : w[k].due /\ x[k].status = "PROCESSING" /\ ~x[k].due
        BY <1>4, <1>10
      <3> HIDE DEF h2, g2, w, x
      <3> QED
        BY <2>1, <3>1, <3>2, <3>3, LeasesClaimed
    <2>3. LeasedOnce(evaluation', g1)
      <3>1. g1 = h1
        BY <1>7, <1>8, <1>16
      <3> QED
        BY <1>3, <2>1, <3>1
    <2>4. LeasesKept(evaluation', delivery', cycle')
      BY <2>2, <2>3 DEF LeasesKept
    <2>5. ContentsAdvance(delivery', channel', cycle')
      <3>1. ContentsAdvance(delivery, channel, cycle) /\ channel' = channel
        BY <1>3, <1>19 DEF UpdatesInv
      <3>2. \A o \in Cycles : cycle'[o].phase = "loaded" /\ cycle'[o].result > 0 =>
                cycle[o].phase = "loaded" /\ cycle[o].result = cycle'[o].result
        BY <1>7, <1>8 DEF Moves
      <3> QED
        BY <1>12, <3>1, <3>2 DEF ContentsAdvance
    <2> QED
      BY <2>4, <2>5
  <1> QED
    BY <1>3, <1>14, <1>15, <1>17, <1>18, <1>19 DEF UpdatesInv

-----------------------------------------------------------------------------
(* A delivery that is planned *)

\* An evaluation that is answered is later than every delivery there is.
LEMMA NothingLater ==
    ASSUME UpdatesInv, history.inOrder, NEW k \in Keys, evaluation[k].status \in Live,
           NEW j \in Keys, delivery[j].work.status # "ABSENT"
    PROVE  ~(k.source < j.source)
  <1>1. evaluation[j].status = "SUCCEEDED"
    BY DEF UpdatesInv, RowsSound, DeliveriesSound
  <1> QED
    BY <1>1 DEF UpdatesInv, EvaluatedInOrder, Earlier

\* What is planned can be sent.
LEMMA PlannedIs ==
    ASSUME UpdatesInv, NEW n \in Nat, n > 0, n <= revision,
           NEW operation \in {"CREATE", "EDIT", "APPEND"}, NEW p,
           operation = "EDIT" => p \in Keys /\ delivery[p].work.status = "SUCCEEDED",
           NEW row,
           row = [work |-> Work("PENDING"), operation |-> operation,
                  target |-> IF operation = "EDIT" THEN delivery[p].message ELSE None,
                  message |-> None, content |-> n]
    PROVE  row \in DeliveryRow /\ Sendable(row, channel) /\ row.work.status = "PENDING" /\ row.content = n
  <1>1. PICK t : t = IF operation = "EDIT" THEN delivery[p].message ELSE None
    OBVIOUS
  <1>2. t \in Keys \cup {None} /\ (operation = "EDIT" <=> t # None) /\ (t # None => channel[t] > 0)
    <2>1. ASSUME operation = "EDIT" PROVE t \in Keys /\ t # None /\ channel[t] > 0
      <3>1. Sendable(delivery[p], channel) /\ delivery[p] \in DeliveryRow
        BY <2>1 DEF UpdatesInv, RowsSound, DeliveriesSound
      <3> QED
        BY <1>1, <2>1, <3>1 DEF Sendable, DeliveryRow
    <2> QED
      BY <1>1, <2>1
  <1>3. PICK w : w = Work("PENDING")
    OBVIOUS
  <1>4. w \in WorkRow /\ w.status = "PENDING" /\ Leasable(w)
    <2>1. w.status = "PENDING" /\ w.owner = None /\ w.attempts = 0 /\ w \in WorkRow /\ MaxAttempts \in Nat \ {0}
      BY <1>3, DiscordAssumption DEF Work, WorkRow, Statuses
    <2> QED
      BY <2>1, DiscordAssumption DEF Leasable
  <1>5. n \in 0 .. MaxRevision
    BY InvariantParts
  <1>6. row = [work |-> w, operation |-> operation, target |-> t, message |-> None, content |-> n]
    BY <1>1, <1>3
  <1>7. row \in DeliveryRow
    BY <1>2, <1>4, <1>5, <1>6 DEF DeliveryRow
  <1>8. row.work = w /\ row.operation = operation /\ row.target = t /\ row.message = None /\ row.content = n
    BY <1>6
  <1>9. Sendable(row, channel)
    BY <1>2, <1>4, <1>7, <1>8 DEF Sendable
  <1> QED
    BY <1>4, <1>7, <1>8, <1>9

LEMMA Planning ==
    ASSUME UpdatesInv, NEW c \in Cycles, cycle[c].phase = "loaded",
           NEW n, n = cycle[c].result, n > 0,
           Continue(c, "evaluating", "claimDeliveries"),
           UNCHANGED <<revision, signalled, channel, history>>,
           SettingsSound(settings', left'), settings'.strategy = settings.strategy,
           NEW k, k = cycle[c].current, evaluation[k].status = "PROCESSING",
           NEW w, Leasable(w), w.status = "SUCCEEDED", evaluation' = [evaluation EXCEPT ![k] = w],
           NEW row, row \in DeliveryRow, Sendable(row, channel), row.work.status = "PENDING", row.content = n,
           delivery[k].work.status = "ABSENT", delivery' = [delivery EXCEPT ![k] = row]
    PROVE  UpdatesInv'
  <1>1. /\ Moves(c, cycle, cycle') /\ CycleShape(cycle'[c], revision)
        /\ Evaluating(cycle'[c]) = cycle[c].batch /\ Sending(cycle'[c]) = {}
        /\ cycle'[c].phase \notin {"loaded", "sent"} /\ k \in Keys /\ k \notin cycle[c].batch
        /\ Evaluating(cycle[c]) = cycle[c].batch \cup {k} /\ Sending(cycle[c]) = {}
    BY ContinueIs DEF Sending
  <1>2. n \in Nat /\ n <= revision
    BY InvariantParts DEF CycleShape
  <1>3. /\ evaluation' \in [Keys -> WorkRow] /\ evaluation'[k] = w
        /\ \A j \in Keys : j # k => evaluation'[j] = evaluation[j]
    BY <1>1, InvariantParts DEF Leasable
  <1>4. /\ delivery' \in [Keys -> DeliveryRow] /\ delivery'[k] = row
        /\ \A j \in Keys : j # k => delivery'[j] = delivery[j]
    BY <1>1, InvariantParts
  <1>5. \A j \in Keys : Stands(evaluation[j], evaluation'[j]) /\ Leasable(evaluation'[j])
    <2>1. Stands(evaluation[k], w)
      BY DEF Stands, Live, Begun, Over
    <2>2. \A j \in Keys : Leasable(evaluation[j])
      BY DEF UpdatesInv, RowsSound, EvaluationsSound
    <2> HIDE DEF Stands, Leasable
    <2> QED
      BY <1>3, <2>1, <2>2, NothingStands
  <1>6. DeliveriesSound(delivery', evaluation', channel', revision')
    <2>1. DeliveriesSound(delivery, evaluation', channel, revision)
      <3>1. \A j \in Keys : evaluation[j].status = "SUCCEEDED" => evaluation'[j].status = "SUCCEEDED"
        BY <1>5 DEF Stands
      <3>2. DeliveriesSound(delivery, evaluation, channel, revision) /\ revision \in Nat /\ revision <= revision
        BY InvariantParts DEF UpdatesInv, RowsSound
      <3> HIDE DEF Sendable
      <3> QED
        BY <3>1, <3>2 DEF DeliveriesSound
    <2> HIDE DEF Sendable
    <2> QED
      BY <1>2, <1>3, <1>4, <2>1 DEF DeliveriesSound
  <1>7. RowsSound'
    BY <1>3, <1>5, <1>6 DEF RowsSound, UpdatesInv, EvaluationsSound
  <1>8. CyclesSound(cycle', revision', evaluation', delivery', channel')
    <2>1. CycleSound(cycle'[c], revision, evaluation', delivery', channel)
      <3>1. \A j \in cycle[c].batch : j \in Keys /\ evaluation[j].status # "ABSENT"
        BY <1>1, InvariantParts, InHandIs DEF CycleSound
      <3>2. \A j \in cycle[c].batch : evaluation'[j].status # "ABSENT"
        BY <1>5, <3>1 DEF Stands
      <3> QED
        BY <1>1, <3>2 DEF CycleSound
    <2>2. Onwards(revision, evaluation, delivery, channel, revision, evaluation', delivery', channel)
      <3>1. \A j \in Keys : evaluation'[j].status = "ABSENT" => evaluation[j].status = "ABSENT"
        BY <1>5 DEF Stands
      <3> QED
        BY <1>4, <3>1, InvariantParts DEF Onwards
    <2>3. CyclesSound(cycle, revision, evaluation, delivery, channel)
      BY DEF UpdatesInv
    <2>4. CyclesSound(cycle', revision, evaluation', delivery', channel)
      BY <1>1, <2>1, <2>2, <2>3, CyclesStand, InvariantParts
    <2> QED
      BY <2>4
  <1>9. \A o \in Cycles : /\ \A j \in Sending(cycle[o]) : j \in Keys /\ j # k /\ delivery[j].work.status # "ABSENT"
                          /\ Sending(cycle'[o]) = Sending(cycle[o])
                          /\ Sending(cycle'[o]) # {} => cycle'[o].aim = cycle[o].aim
    BY <1>1, InHandIs, InvariantParts, ZenonT(30) DEF CycleSound, Moves
  <1>10. ASSUME history.inOrder, NEW j \in Keys, delivery[j].work.status # "ABSENT"
         PROVE  /\ k \notin Earlier(j)
                /\ \A p \in Earlier(j) : p \in Keys /\ delivery'[p] = delivery[p]
    <2>1. ~(k.source < j.source)
      BY <1>1, <1>10, NothingLater DEF Live
    <2> QED
      BY <1>4, <2>1 DEF Earlier
  <1>11. history'.inOrder => EvaluatedInOrder(evaluation') /\ DeliveredInOrder(delivery', cycle')
    <2>1. ASSUME history.inOrder PROVE DeliveredInOrder(delivery', cycle')
      <3>1. DeliveredInOrder(delivery, cycle)
        BY <2>1 DEF UpdatesInv
      <3>2. ASSUME NEW j \in Keys, delivery'[j].work.status = "PROCESSING"
            PROVE  \A p \in Earlier(j) : delivery'[p].work.status \notin Live
        <4>1. delivery[j].work.status = "PROCESSING"
          BY <1>4, <3>2
        <4> QED
          BY <1>10, <2>1, <3>1, <4>1 DEF DeliveredInOrder
      <3>3. ASSUME NEW o \in Cycles, NEW j \in Sending(cycle'[o])
            PROVE  \A p \in Earlier(j) : delivery'[p].work.status \notin Live
        BY <1>9, <1>10, <2>1, <3>1, <3>3 DEF DeliveredInOrder
      <3> QED
        BY <3>2, <3>3 DEF DeliveredInOrder
    <2>2. history.inOrder => EvaluatedInOrder(evaluation')
      BY <1>5, OrderOfEvaluationsStands DEF UpdatesInv
    <2> QED
      BY <2>1, <2>2
  <1>12. history'.inOrder /\ settings'.strategy = "EDIT_LIVE_MESSAGE" => CreatesFirst(delivery', channel', cycle')
    <2>1. ASSUME history.inOrder, settings.strategy = "EDIT_LIVE_MESSAGE" PROVE CreatesFirst(delivery', channel, cycle')
      <3>1. CreatesFirst(delivery, channel, cycle)
        BY <2>1 DEF UpdatesInv
      <3>2. ASSUME NEW j \in Keys, delivery[j].work.status # "ABSENT", Fruitless(j, delivery)
            PROVE  Fruitless(j, delivery')
        BY <1>10, <2>1, <3>2 DEF Fruitless
      <3>3. \A m \in Keys : channel[m] > 0 => delivery[m].work.status # "ABSENT"
        BY DEF UpdatesInv, RowsSound, DeliveriesSound
      <3> HIDE DEF Fruitless
      <3> QED
        BY <1>9, <3>1, <3>2, <3>3 DEF CreatesFirst
    <2> QED
      BY <2>1
  <1>13. ASSUME history.inOrder, history.onTime
         PROVE  LeasesKept(evaluation', delivery', cycle') /\ ContentsAdvance(delivery', channel', cycle')
    <2>1. LeasesKept(evaluation, delivery, cycle) /\ ContentsAdvance(delivery, channel, cycle)
      BY <1>13 DEF UpdatesInv
    <2>2. \A o \in Cycles \ {c} : k \notin Evaluating(cycle[o])
      BY <1>1, <1>13, OneEvaluator
    <2>3. HandsStand
      <3>1. \A o \in Cycles : Evaluating(cycle'[o]) \subseteq Evaluating(cycle[o]) /\ Evaluating(cycle[o]) \subseteq Keys
        BY <1>1, InHandIs, InvariantParts DEF Moves
      <3>2. \A o \in Cycles : \A j \in Evaluating(cycle'[o]) : j \in Keys /\ j # k
        BY <1>1, <2>2, <3>1 DEF Moves
      <3> QED
        BY <1>3, <1>4, <1>9, <3>1, <3>2, SMTT(20) DEF HandsStand
    <2>4. LeasesKept(evaluation', delivery', cycle')
      BY <2>1, <2>3, LeasesGoOn, InvariantParts
    <2>5. ASSUME NEW o \in Cycles, cycle'[o].phase = "loaded"
          PROVE  FALSE
      <3>1. o # c /\ cycle[o].phase = "loaded"
        BY <1>1, <2>5 DEF Moves
      <3>2. PICK j : j = cycle[o].current
        OBVIOUS
      <3>3. j \in Evaluating(cycle[o]) /\ j \in Keys
        BY <3>1, <3>2, InvariantParts DEF CycleShape, Evaluating, InHand
      <3>4. j # k
        BY <2>2, <3>1, <3>3
      <3>5. evaluation[j].status = "PROCESSING"
        <4> DEFINE h == [q \in Cycles |-> Evaluating(cycle[q])]
        <4>1. \A q \in Cycles : \A i \in h[q] : evaluation[i].status = "PROCESSING"
          BY <2>1 DEF LeasesKept, LeasedOnce
        <4> QED
          BY <3>3, <4>1
      <3>6. ~(j.source < k.source) /\ ~(k.source < j.source) /\ j.source # k.source
        BY <1>1, <1>13, <3>3, <3>4, <3>5 DEF UpdatesInv, EvaluatedInOrder, Earlier, Live
      <3>7. j.source \in Int /\ k.source \in Int
        BY <1>1, <3>3, KeyFacts
      <3> QED
        BY <3>6, <3>7
    <2>6. /\ \A j \in Keys : delivery[j].content <= n /\ channel[j] <= n
      BY <2>1 DEF ContentsAdvance
    <2>7. ASSUME NEW i \in Keys, NEW j \in Keys, delivery'[i].work.status # "ABSENT",
                 delivery'[j].work.status # "ABSENT", i.source < j.source
          PROVE  delivery'[i].content <= delivery'[j].content
      <3>1. CASE i = k
        <4>1. j # k /\ delivery[j].work.status # "ABSENT"
          <5>1. k.source \in Int
            BY <1>1, KeyFacts
          <5> QED
            BY <1>4, <2>7, <3>1, <5>1
        <4> QED
          BY <1>10, <1>13, <2>7, <3>1, <4>1 DEF Earlier
      <3>2. CASE i # k /\ j = k
        BY <1>4, <2>6, <3>2
      <3>3. CASE i # k /\ j # k
        BY <1>4, <2>1, <2>7, <3>3 DEF ContentsAdvance
      <3> QED
        BY <3>1, <3>2, <3>3
    <2>8. \A j \in Keys : delivery'[j].work.status \in Live => \A m \in Keys : channel[m] <= delivery'[j].content
      BY <1>4, <2>1, <2>6 DEF ContentsAdvance
    <2>9. ContentsAdvance(delivery', channel', cycle')
      BY <2>5, <2>7, <2>8 DEF ContentsAdvance
    <2> QED
      BY <2>4, <2>9
  <1> QED
    BY <1>7, <1>8, <1>11, <1>12, <1>13 DEF UpdatesInv

LEMMA Evaluated ==
    ASSUME UpdatesInv, NEW c \in Cycles, CompleteEvaluation(c)
    PROVE  UpdatesInv'
  <1>1. PICK k : k = cycle[c].current
    OBVIOUS
  <1>2. PICK n : n = cycle[c].result
    OBVIOUS
  <1>3. /\ cycle[c].phase = "loaded" /\ n > 0 /\ Continue(c, "evaluating", "claimDeliveries")
        /\ UNCHANGED <<revision, signalled, channel, history, left>>
    BY <1>2 DEF CompleteEvaluation
  <1>4. k \in Keys /\ n \in Nat /\ n <= revision
    BY <1>1, <1>2, <1>3, ContinueIs, InvariantParts DEF CycleShape
  <1>5. Leasable(evaluation[k]) /\ evaluation[k] \in WorkRow
    BY <1>4 DEF UpdatesInv, RowsSound, EvaluationsSound
  <1>6. SettingsSound(settings, left)
    BY DEF UpdatesInv, RowsSound
  <1>7. SettingsSound([settings EXCEPT !.refresh = FALSE, !.slot = NextSlot(FALSE)], left)
    <2>1. PICK row \in SettingsRow : row = settings
      BY <1>6 DEF SettingsSound
    <2>2. PICK t \in {"none", "waiting", "due"} : t = NextSlot(FALSE)
      BY SettingsSlot
    <2>3. PICK new : new = [row EXCEPT !.refresh = FALSE, !.slot = t]
      OBVIOUS
    <2>4. new \in SettingsRow /\ new.revision = row.revision
      BY <2>1, <2>3 DEF SettingsRow
    <2>5. SettingsSound(new, left)
      BY <1>6, <2>1, <2>4 DEF SettingsSound
    <2> QED
      BY <2>1, <2>2, <2>3, <2>5
  <1> DEFINE operation == Operation(k.trigger, n, Latest(Keys) # {})
             planned(previous) ==
                [work |-> Work("PENDING"), operation |-> operation,
                 target |-> IF operation = "EDIT" THEN delivery[previous].message ELSE None,
                 message |-> None, content |-> n]
  <1>8. IF ~Holding(evaluation, k) THEN UNCHANGED <<evaluation, delivery, settings>>
        ELSE IF ~(settings.enabled /\ settings.revision = k.settings)
        THEN /\ evaluation' = [evaluation EXCEPT ![k].status = "CANCELLED", ![k].owner = None]
             /\ UNCHANGED <<delivery, settings>>
        ELSE /\ evaluation' = [evaluation EXCEPT
                    ![k].status = "SUCCEEDED", ![k].attempts = @ + 1, ![k].owner = None]
             /\ settings' = [settings EXCEPT !.refresh = FALSE, !.slot = NextSlot(FALSE)]
             /\ IF operation = "WAIT" \/ delivery[k].work.status # "ABSENT" THEN UNCHANGED delivery
                ELSE \E previous \in IF Latest(Keys) = {} THEN {k} ELSE Latest(Keys) :
                         delivery' = [delivery EXCEPT ![k] = planned(previous)]
    BY <1>1, <1>2 DEF CompleteEvaluation
  <1> HIDE DEF planned, operation
  <1>9. CASE ~Holding(evaluation, k)
    <2>1. UNCHANGED <<revision, signalled, delivery, channel, history>> /\ evaluation' = evaluation /\ settings' = settings /\ left' = left
      BY <1>3, <1>8, <1>9
    <2>2. SettingsSound(settings', left') /\ settings'.strategy = settings.strategy
      BY <1>6, <2>1
    <2> QED
      BY <1>1, <1>3, <1>5, <2>1, <2>2, AnsweredLoaded
  <1>10. CASE Holding(evaluation, k) /\ ~(settings.enabled /\ settings.revision = k.settings)
    <2>1. PICK w : w = [evaluation[k] EXCEPT !.status = "CANCELLED", !.owner = None]
      OBVIOUS
    <2>2. evaluation' = [evaluation EXCEPT ![k] = w] /\ settings' = settings /\ delivery' = delivery
      BY <1>8, <1>10, <2>1
    <2>3. w \in WorkRow /\ w.status = "CANCELLED" /\ w.owner = None
      BY <1>5, <2>1 DEF WorkRow, Statuses
    <2>4. Leasable(w) /\ Stands(evaluation[k], w)
      BY <1>10, <2>3 DEF Leasable, Stands, Holding, Live, Begun, Over
    <2>5. SettingsSound(settings', left') /\ settings'.strategy = settings.strategy
      BY <1>3, <1>6, <2>2
    <2>6. UNCHANGED <<revision, signalled, delivery, channel, history>>
      BY <1>3, <2>2
    <2> QED
      BY <1>1, <1>3, <2>2, <2>4, <2>5, <2>6, AnsweredLoaded
  <1>11. CASE Holding(evaluation, k) /\ settings.enabled /\ settings.revision = k.settings
    <2>1. PICK w : w = [evaluation[k] EXCEPT !.status = "SUCCEEDED", !.attempts = @ + 1, !.owner = None]
      OBVIOUS
    <2>2. /\ evaluation' = [evaluation EXCEPT ![k] = w]
          /\ settings' = [settings EXCEPT !.refresh = FALSE, !.slot = NextSlot(FALSE)]
      <3>1. /\ evaluation' = [evaluation EXCEPT
                    ![k].status = "SUCCEEDED", ![k].attempts = @ + 1, ![k].owner = None]
            /\ settings' = [settings EXCEPT !.refresh = FALSE, !.slot = NextSlot(FALSE)]
        BY Zenon, <1>8, <1>11
      <3> QED
        BY <2>1, <3>1
    <2>3. w \in WorkRow /\ w.status = "SUCCEEDED" /\ w.owner = None
      <3>1. evaluation[k].attempts + 1 \in 0 .. MaxAttempts
        BY <1>5, <1>11, DiscordAssumption DEF Leasable, WorkRow, Holding, Live
      <3> QED
        BY <1>5, <2>1, <3>1 DEF WorkRow, Statuses
    <2>4. Leasable(w) /\ Stands(evaluation[k], w) /\ evaluation[k].status = "PROCESSING"
      BY <1>11, <2>3 DEF Leasable, Stands, Holding, Live, Begun, Over
    <2>5. SettingsSound(settings', left')
      BY <1>3, <1>7, <2>2
    <2>6. settings'.strategy = settings.strategy
      BY <1>6, <2>2 DEF SettingsSound, SettingsRow
    <2>7. CASE operation = "WAIT" \/ delivery[k].work.status # "ABSENT"
      <3>1. UNCHANGED <<revision, signalled, delivery, channel, history>>
        BY <1>3, <1>8, <1>11, <2>7
      <3> QED
        BY <1>1, <1>3, <2>2, <2>4, <2>5, <2>6, <3>1, AnsweredLoaded
    <2>8. CASE operation # "WAIT" /\ delivery[k].work.status = "ABSENT"
      <3>1. PICK p \in IF Latest(Keys) = {} THEN {k} ELSE Latest(Keys) :
               delivery' = [delivery EXCEPT ![k] = planned(p)]
        BY <1>8, <1>11, <2>8
      <3>2. operation \in {"CREATE", "EDIT", "APPEND"} /\ (operation = "EDIT" => Latest(Keys) # {})
        BY <2>8 DEF operation, Operation
      <3>3. operation = "EDIT" => p \in Keys /\ delivery[p].work.status = "SUCCEEDED"
        BY <3>1, <3>2 DEF Latest
      <3>4. PICK row : row = planned(p)
        OBVIOUS
      <3>5. row \in DeliveryRow /\ Sendable(row, channel) /\ row.work.status = "PENDING" /\ row.content = n
        BY <1>3, <1>4, <3>2, <3>3, <3>4, PlannedIs DEF planned
      <3> HIDE DEF Sendable, Leasable, Stands, SettingsSound
      <3> QED
        BY <1>1, <1>2, <1>3, <2>2, <2>3, <2>4, <2>5, <2>6, <2>8, <3>1, <3>4, <3>5, Planning
    <2> QED
      BY <2>7, <2>8
  <1> QED
    BY <1>9, <1>10, <1>11

-----------------------------------------------------------------------------
(* What is enqueued *)

\* Rows that wait may be cancelled and one row may be new: when it is in order, later than
\* every row there is.
IsNew(key, e, f) ==
    /\ e[key].status = "ABSENT" /\ f[key].status = "PENDING"
LaterThanAll(key, e) == \A j \in Keys : e[j].status # "ABSENT" => j.source < key.source

LEMMA Enqueueing ==
    ASSUME UpdatesInv, UNCHANGED <<revision, delivery, channel>>, signalled' \subseteq Signals,
           SettingsSound(settings', left'), settings'.strategy = settings.strategy,
           NEW c, Moves(c, cycle, cycle'),
           c \in Cycles => /\ CycleShape(cycle'[c], revision) /\ cycle'[c].phase \notin {"loaded", "sent"}
                           /\ Evaluating(cycle'[c]) = {} /\ Sending(cycle'[c]) = {},
           history' \in [inOrder : BOOLEAN, onTime : BOOLEAN], history'.onTime => history.onTime,
           history'.inOrder => history.inOrder,
           evaluation' \in [Keys -> WorkRow], \A k \in Keys : Leasable(evaluation'[k]),
           NEW key,
           \A k \in Keys : \/ Stands(evaluation[k], evaluation'[k])
                           \/ /\ k = key /\ IsNew(k, evaluation, evaluation')
                              /\ history'.inOrder => LaterThanAll(k, evaluation),
           \A k \in Keys : evaluation[k].status = "PROCESSING" => evaluation'[k] = evaluation[k]
    PROVE  UpdatesInv'
  <1>1. \A k \in Keys : /\ evaluation[k].status = "SUCCEEDED" => evaluation'[k].status = "SUCCEEDED"
                        /\ evaluation'[k].status = "ABSENT" => evaluation[k].status = "ABSENT"
    BY DEF Stands, IsNew
  <1>2. DeliveriesSound(delivery', evaluation', channel', revision')
    <2>1. DeliveriesSound(delivery, evaluation, channel, revision)
      BY DEF UpdatesInv, RowsSound
    <2> HIDE DEF Sendable
    <2> QED
      BY <1>1, <2>1 DEF DeliveriesSound
  <1>3. RowsSound'
    BY <1>2 DEF RowsSound, UpdatesInv, EvaluationsSound
  <1>4. CyclesSound(cycle', revision', evaluation', delivery', channel')
    <2>1. CyclesSound(cycle, revision, evaluation, delivery, channel)
      BY DEF UpdatesInv
    <2>2. Onwards(revision, evaluation, delivery, channel, revision, evaluation', delivery, channel)
      BY <1>1, InvariantParts DEF Onwards
    <2>3. c \in Cycles => CycleSound(cycle'[c], revision, evaluation', delivery, channel)
      BY DEF CycleSound
    <2>4. CyclesSound(cycle', revision, evaluation', delivery, channel)
      BY <2>1, <2>2, <2>3, CyclesStand, InvariantParts
    <2> QED
      BY <2>4
  <1>5. Smaller(cycle, cycle')
    BY DEF Smaller, Moves
  <1>6. history'.inOrder => EvaluatedInOrder(evaluation') /\ DeliveredInOrder(delivery', cycle')
    <2>1. ASSUME history'.inOrder PROVE EvaluatedInOrder(evaluation')
      <3>1. EvaluatedInOrder(evaluation)
        BY <2>1 DEF UpdatesInv
      <3>2. \A k \in Keys : k.source \in Int
        BY KeyFacts
      <3>3. \A k \in Keys : \/ Stands(evaluation[k], evaluation'[k])
                            \/ k = key /\ IsNew(k, evaluation, evaluation') /\ LaterThanAll(k, evaluation)
        BY <2>1
      <3>4. ASSUME NEW j \in Keys, NEW k \in Keys, evaluation'[j].status # "ABSENT",
                   evaluation'[k].status # "ABSENT", j.source = k.source
            PROVE  j = k
        <4>1. CASE Stands(evaluation[j], evaluation'[j]) /\ Stands(evaluation[k], evaluation'[k])
          BY <3>1, <3>4, <4>1 DEF EvaluatedInOrder, Stands
        <4>2. CASE ~Stands(evaluation[j], evaluation'[j]) /\ Stands(evaluation[k], evaluation'[k])
          <5>1. j = key /\ LaterThanAll(j, evaluation) /\ evaluation[k].status # "ABSENT"
            BY <3>3, <3>4, <4>2 DEF Stands
          <5> QED
            BY <3>2, <3>4, <5>1 DEF LaterThanAll
        <4>3. CASE Stands(evaluation[j], evaluation'[j]) /\ ~Stands(evaluation[k], evaluation'[k])
          <5>1. k = key /\ LaterThanAll(k, evaluation) /\ evaluation[j].status # "ABSENT"
            BY <3>3, <3>4, <4>3 DEF Stands
          <5> QED
            BY <3>2, <3>4, <5>1 DEF LaterThanAll
        <4>4. CASE ~Stands(evaluation[j], evaluation'[j]) /\ ~Stands(evaluation[k], evaluation'[k])
          <5> HIDE DEF Stands
          <5> QED
            BY <3>3, <4>4
        <4> QED
          BY <4>1, <4>2, <4>3, <4>4
      <3>5. ASSUME NEW k \in Keys, evaluation'[k].status \in {"PROCESSING", "SUCCEEDED", "DEAD_LETTER"},
                   NEW p \in Earlier(k)
            PROVE  evaluation'[p].status \notin Live
        <4>1. p \in Keys /\ p.source < k.source
          BY <3>5 DEF Earlier
        <4>2. Stands(evaluation[k], evaluation'[k]) /\ evaluation[k].status \in Begun
          BY <3>3, <3>5 DEF IsNew, Stands, Begun
        <4>3. evaluation[p].status \notin Live
          BY <3>1, <3>5, <4>2 DEF EvaluatedInOrder, Begun
        <4>4. Stands(evaluation[p], evaluation'[p])
          <5>1. SUFFICES ASSUME ~Stands(evaluation[p], evaluation'[p]) PROVE FALSE
            OBVIOUS
          <5>2. LaterThanAll(p, evaluation)
            BY <3>3, <4>1, <5>1
          <5>3. evaluation[k].status # "ABSENT"
            BY <4>2 DEF Begun
          <5> QED
            BY <3>2, <4>1, <5>2, <5>3 DEF LaterThanAll
        <4> QED
          BY <4>3, <4>4 DEF Stands
      <3> QED
        BY <3>4, <3>5 DEF EvaluatedInOrder
    <2>2. history.inOrder => DeliveredInOrder(delivery, cycle')
      BY <1>5, NothingStands, OrderOfDeliveriesStands DEF UpdatesInv
    <2> QED
      BY <2>1, <2>2
  <1>7. history'.inOrder /\ settings'.strategy = "EDIT_LIVE_MESSAGE" => CreatesFirst(delivery', channel', cycle')
    <2>1. history.inOrder /\ settings.strategy = "EDIT_LIVE_MESSAGE" => CreatesFirst(delivery, channel, cycle')
      BY <1>5, NothingStands, CreationsStand DEF UpdatesInv
    <2> QED
      BY <2>1
  <1>8. ASSUME history'.inOrder, history'.onTime
        PROVE  LeasesKept(evaluation', delivery', cycle') /\ ContentsAdvance(delivery', channel', cycle')
    <2>1. LeasesKept(evaluation, delivery, cycle) /\ ContentsAdvance(delivery, channel, cycle)
      BY <1>8 DEF UpdatesInv
    <2>2. \A o \in Cycles : \A j \in Evaluating(cycle[o]) : j \in Keys /\ evaluation[j].status = "PROCESSING"
      <3> DEFINE h == [q \in Cycles |-> Evaluating(cycle[q])]
      <3>1. \A q \in Cycles : \A i \in h[q] : evaluation[i].status = "PROCESSING"
        BY <2>1 DEF LeasesKept, LeasedOnce
      <3>2. \A q \in Cycles : Evaluating(cycle[q]) \subseteq Keys
        BY InHandIs, InvariantParts
      <3> QED
        BY <3>1, <3>2
    <2>3. HandsStand
      <3>1. \A o \in Cycles : Evaluating(cycle'[o]) \subseteq Evaluating(cycle[o]) /\ Sending(cycle'[o]) \subseteq Sending(cycle[o])
        BY DEF Moves
      <3> QED
        BY <2>2, <3>1 DEF HandsStand
    <2>4. LeasesKept(evaluation', delivery', cycle')
      BY <2>1, <2>3, LeasesGoOn, InvariantParts
    <2>5. ContentsAdvance(delivery', channel', cycle')
      <3>1. \A o \in Cycles : cycle'[o].phase = "loaded" /\ cycle'[o].result > 0 =>
                cycle[o].phase = "loaded" /\ cycle[o].result = cycle'[o].result
        BY DEF Moves
      <3>2. ContentsAdvance(delivery, channel, cycle')
        BY <2>1, <3>1, NothingStands, ContentsStand
      <3> QED
        BY <3>2
    <2> QED
      BY <2>4, <2>5
  <1> QED
    BY <1>3, <1>4, <1>6, <1>7, <1>8 DEF UpdatesInv

LEMMA RecordedIs ==
    ASSUME UpdatesInv, NEW key, RecordOrder(key)
    PROVE  /\ history' \in [inOrder : BOOLEAN, onTime : BOOLEAN] /\ history'.onTime = history.onTime
           /\ history'.inOrder => history.inOrder
           /\ history'.inOrder /\ evaluation[key].status = "ABSENT" => LaterThanAll(key, evaluation)
  <1>1. PICK b \in BOOLEAN : b <=> history.inOrder /\ (evaluation[key].status = "ABSENT" =>
            \A k \in Keys : evaluation[k].status # "ABSENT" => k.source < key.source)
    OBVIOUS
  <1>2. history \in [inOrder : BOOLEAN, onTime : BOOLEAN]
    BY DEF UpdatesInv, RowsSound
  <1>3. history' = [history EXCEPT !.inOrder = b]
    <2>1. (history.inOrder /\ (evaluation[key].status = "ABSENT" =>
            \A k \in Keys : evaluation[k].status # "ABSENT" => k.source < key.source)) = b
      BY <1>1
    <2> QED
      BY <2>1, Zenon DEF RecordOrder
  <1>4. history' \in [inOrder : BOOLEAN, onTime : BOOLEAN] /\ history'.inOrder = b /\ history'.onTime = history.onTime
    BY <1>2, <1>3
  <1> QED
    BY <1>1, <1>4 DEF LaterThanAll

LEMMA EnqueuedIs ==
    ASSUME UpdatesInv, NEW key \in Keys, NEW due \in BOOLEAN, NEW kept \in [Keys -> WorkRow],
           \A k \in Keys : \/ kept[k] = evaluation[k]
                           \/ /\ Leasable(kept[k]) /\ Stands(evaluation[k], kept[k])
                              /\ evaluation[k].status # "PROCESSING",
           NEW f, f = Enqueue(kept, key, due)
    PROVE  /\ f \in [Keys -> WorkRow] /\ \A k \in Keys : Leasable(f[k])
           /\ \A k \in Keys : \/ Stands(evaluation[k], f[k])
                              \/ k = key /\ IsNew(k, evaluation, f)
           /\ \A k \in Keys : evaluation[k].status = "PROCESSING" => f[k] = evaluation[k]
  <1>1. \A k \in Keys : /\ Leasable(kept[k]) /\ Stands(evaluation[k], kept[k])
                        /\ evaluation[k].status = "PROCESSING" => kept[k] = evaluation[k]
    <2>1. \A k \in Keys : Leasable(evaluation[k])
      BY DEF UpdatesInv, RowsSound, EvaluationsSound
    <2> HIDE DEF Leasable, Stands
    <2> QED
      BY <2>1, NothingStands
  <1>2. CASE kept[key].status # "ABSENT"
    <2>1. f = kept
      BY <1>2 DEF Enqueue
    <2> HIDE DEF Leasable, Stands
    <2> QED
      BY <1>1, <2>1
  <1>3. CASE kept[key].status = "ABSENT"
    <2>1. PICK w : w = [Work("PENDING") EXCEPT !.due = due]
      OBVIOUS
    <2>2. f = [kept EXCEPT ![key] = w]
      BY <1>3, <2>1 DEF Enqueue
    <2>3. w = [status |-> "PENDING", attempts |-> 0, owner |-> None, due |-> due]
      BY <2>1 DEF Work
    <2>4. w \in WorkRow /\ w.status = "PENDING" /\ Leasable(w)
      BY <2>3, DiscordAssumption DEF Leasable, WorkRow, Statuses
    <2>5. evaluation[key].status = "ABSENT"
      BY <1>1, <1>3 DEF Stands
    <2>6. f \in [Keys -> WorkRow] /\ f[key] = w /\ \A k \in Keys : k # key => f[k] = kept[k]
      BY <2>2, <2>4
    <2>7. IsNew(key, evaluation, f)
      BY <2>4, <2>5, <2>6 DEF IsNew
    <2> HIDE DEF Leasable, Stands, IsNew
    <2> QED
      BY <1>1, <2>4, <2>5, <2>6, <2>7
  <1> QED
    BY <1>2, <1>3

LEMMA Signalling ==
    ASSUME UpdatesInv, NEW g \in Signals, Signal(g)
    PROVE  UpdatesInv'
  <1>1. PICK key : key = [settings |-> settings.revision, source |-> g.source, trigger |-> g.trigger]
    OBVIOUS
  <1>2. key \in Keys
    <2>1. settings.revision \in 1 .. 1 + MaxChanges
      <3>1. /\ settings.revision \in Nat /\ 1 <= settings.revision /\ left["changes"] \in Nat
            /\ settings.revision + left["changes"] <= 1 + MaxChanges /\ MaxChanges \in Nat
        BY DiscordAssumption DEF UpdatesInv, RowsSound, SettingsSound, SettingsRow, Faults
      <3> QED
        BY <3>1
    <2> QED
      BY <1>1, <2>1, KeyFacts
  <1> DEFINE latestOnly == settings.cadence # "EVENT_DRIVEN" \/ settings.strategy = "PERIODIC_SUMMARY"
             kept == [k \in Keys |-> IF latestOnly /\ evaluation[k].status = "PENDING" /\ k.source < g.source
                                     THEN [evaluation[k] EXCEPT !.status = "CANCELLED"] ELSE evaluation[k]]
             due == settings.cadence = "EVENT_DRIVEN" \/ settings.slot = "due" \/ (settings.slot = "none" /\ settings.refresh)
  <1>3. /\ UNCHANGED <<revision, settings, delivery, channel, cycle, left>>
        /\ signalled' \subseteq Signals
        /\ \/ evaluation' = Enqueue(kept, key, due) /\ RecordOrder(key)
           \/ UNCHANGED <<evaluation, history>>
    BY <1>1 DEF Signal, UpdatesInv, RowsSound
  <1>4. SettingsSound(settings', left') /\ settings'.strategy = settings.strategy
    BY <1>3 DEF UpdatesInv, RowsSound
  <1>5. CASE UNCHANGED <<evaluation, history>>
    <2>1. revision' \in 0 .. MaxRevision /\ revision <= revision'
      BY <1>3, InvariantParts DEF UpdatesInv, RowsSound
    <2> QED
      BY <1>3, <1>4, <1>5, <2>1, BesidesRows
  <1>6. CASE evaluation' = Enqueue(kept, key, due) /\ RecordOrder(key)
    <2>1. \A k \in Keys : /\ kept[k] \in WorkRow
                          /\ \/ kept[k] = evaluation[k]
                             \/ /\ Leasable(kept[k]) /\ Stands(evaluation[k], kept[k])
                                /\ evaluation[k].status # "PROCESSING"
      <3>1. ASSUME NEW k \in Keys, latestOnly /\ evaluation[k].status = "PENDING" /\ k.source < g.source
            PROVE  /\ kept[k] \in WorkRow /\ Leasable(kept[k]) /\ Stands(evaluation[k], kept[k])
                   /\ evaluation[k].status # "PROCESSING"
        <4>1. PICK row \in WorkRow : row = evaluation[k]
          BY InvariantParts
        <4>2. Leasable(row) /\ row.status = "PENDING"
          BY <3>1, <4>1 DEF UpdatesInv, RowsSound, EvaluationsSound
        <4>3. PICK w : w = [row EXCEPT !.status = "CANCELLED"]
          OBVIOUS
        <4>4. w \in WorkRow /\ w.status = "CANCELLED" /\ w.owner = row.owner
          BY <4>1, <4>3 DEF WorkRow, Statuses
        <4>5. Leasable(w) /\ Stands(row, w)
          BY <4>2, <4>4 DEF Leasable, Stands, Live, Begun, Over
        <4>6. kept[k] = w
          BY <3>1, <4>1, <4>3
        <4> QED
          BY <4>1, <4>2, <4>4, <4>5, <4>6
      <3>2. ASSUME NEW k \in Keys, ~(latestOnly /\ evaluation[k].status = "PENDING" /\ k.source < g.source)
            PROVE  kept[k] = evaluation[k] /\ kept[k] \in WorkRow
        BY <3>2, InvariantParts
      <3> HIDE DEF kept, latestOnly, Leasable, Stands
      <3> QED
        BY <3>1, <3>2
    <2>2. kept = [k \in Keys |-> kept[k]]
      OBVIOUS
    <2>3. due \in BOOLEAN
      BY DEF UpdatesInv, RowsSound, SettingsSound, SettingsRow
    <2> HIDE DEF kept, due, latestOnly, Leasable, Stands, IsNew
    <2>4. kept \in [Keys -> WorkRow]
      BY <2>1, <2>2
    <2>5. /\ evaluation' \in [Keys -> WorkRow] /\ \A k \in Keys : Leasable(evaluation'[k])
          /\ \A k \in Keys : \/ Stands(evaluation[k], evaluation'[k])
                             \/ k = key /\ IsNew(k, evaluation, evaluation')
          /\ \A k \in Keys : evaluation[k].status = "PROCESSING" => evaluation'[k] = evaluation[k]
      BY <1>2, <1>6, <2>1, <2>3, <2>4, EnqueuedIs
    <2>6. /\ history' \in [inOrder : BOOLEAN, onTime : BOOLEAN] /\ history'.onTime = history.onTime
          /\ history'.inOrder => history.inOrder
          /\ history'.inOrder /\ evaluation[key].status = "ABSENT" => LaterThanAll(key, evaluation)
      BY <1>6, RecordedIs
    <2>7. \A k \in Keys : \/ Stands(evaluation[k], evaluation'[k])
                          \/ /\ k = key /\ IsNew(k, evaluation, evaluation')
                             /\ history'.inOrder => LaterThanAll(k, evaluation)
      BY <2>5, <2>6 DEF IsNew
    <2>8. Moves(0, cycle, cycle') /\ 0 \notin Cycles
      BY <1>3, InvariantParts, DiscordAssumption DEF Moves, Cycles
    <2> QED
      BY <1>3, <1>4, <2>5, <2>6, <2>7, <2>8, Enqueueing
  <1> QED
    BY <1>3, <1>5, <1>6

LEMMA Starting ==
    ASSUME UpdatesInv, NEW c \in Cycles, StartCycle(c)
    PROVE  UpdatesInv'
  <1>1. PICK key : key = [settings |-> settings.revision, source |-> revision,
                          trigger |-> ScheduledTrigger(revision)]
    OBVIOUS
  <1>2. /\ cycle[c].phase = "idle" /\ cycle' = [cycle EXCEPT ![c].phase = "claimEvaluations"]
        /\ UNCHANGED <<revision, signalled, delivery, channel>>
        /\ \/ UNCHANGED <<evaluation, history>>
           \/ revision # 0 /\ evaluation' = Enqueue(evaluation, key, TRUE) /\ RecordOrder(key)
        /\ settings' = settings \/ settings' = [settings EXCEPT !.refresh = FALSE, !.slot = NextSlot(FALSE)]
        /\ left' = left \/ Spend("overlaps")
    BY <1>1 DEF StartCycle, Step
  <1>3. SettingsSound(settings, left') /\ SettingsSound(settings, left)
    BY <1>2, Spending DEF Faults, UpdatesInv, RowsSound
  <1>4. SettingsSound(settings', left') /\ settings'.strategy = settings.strategy
    <2>1. CASE settings' = settings
      BY <1>3, <2>1
    <2>2. CASE settings' = [settings EXCEPT !.refresh = FALSE, !.slot = NextSlot(FALSE)]
      <3>1. PICK row \in SettingsRow : row = settings
        BY <1>3 DEF SettingsSound
      <3>2. PICK t \in {"none", "waiting", "due"} : t = NextSlot(FALSE)
        BY SettingsSlot
      <3>3. settings' = [row EXCEPT !.refresh = FALSE, !.slot = t]
        BY <2>2, <3>1, <3>2
      <3>4. settings' \in SettingsRow /\ settings'.revision = row.revision /\ settings'.strategy = row.strategy
        BY <3>1, <3>3 DEF SettingsRow
      <3> QED
        BY <1>3, <3>1, <3>4 DEF SettingsSound
    <2> QED
      BY <1>2, <2>1, <2>2
  <1>5. /\ Moves(c, cycle, cycle') /\ CycleShape(cycle'[c], revision) /\ cycle'[c].phase \notin {"loaded", "sent"}
        /\ Evaluating(cycle'[c]) = {} /\ Sending(cycle'[c]) = {}
    <2>1. CycleShape(cycle[c], revision)
      BY InvariantParts
    <2>2. PICK z : z = [cycle[c] EXCEPT !.phase = "claimEvaluations"]
      OBVIOUS
    <2>3. Moves(c, cycle, cycle') /\ cycle'[c] = z
      <3>1. cycle' = [cycle EXCEPT ![c] = z]
        BY <1>2, <2>2
      <3> QED
        BY <3>1, CycleWritten
    <2>4. /\ z.phase = "claimEvaluations" /\ z.current = None /\ z.batch = {}
          /\ z \in [phase : Phases, batch : SUBSET Keys, current : Keys \cup {None}, result : {z.result},
                    aborted : BOOLEAN, aim : {z.aim}]
      BY <1>2, <2>1, <2>2 DEF CycleShape, Phases
    <2>5. CycleShape(z, revision) /\ Evaluating(z) = {} /\ Sending(z) = {}
      BY <2>4 DEF CycleShape, Evaluating, Sending
    <2> QED
      BY <2>3, <2>4, <2>5
  <1>6. signalled' \subseteq Signals /\ history \in [inOrder : BOOLEAN, onTime : BOOLEAN]
    BY <1>2 DEF UpdatesInv, RowsSound
  <1>9. UNCHANGED <<revision, delivery, channel>>
    BY <1>2
  <1>7. CASE UNCHANGED <<evaluation, history>>
    <2>1. \A k \in Keys : Stands(evaluation[k], evaluation'[k]) /\ evaluation'[k] = evaluation[k]
      BY <1>7, NothingStands
    <2>2. evaluation' \in [Keys -> WorkRow] /\ \A k \in Keys : Leasable(evaluation'[k])
      BY <1>7 DEF UpdatesInv, RowsSound, EvaluationsSound
    <2>3. history' = history
      BY <1>7
    <2> HIDE DEF Stands, Leasable
    <2> QED
      BY <1>2, <1>4, <1>5, <1>6, <2>1, <2>2, <2>3, Enqueueing
  <1>8. CASE revision # 0 /\ evaluation' = Enqueue(evaluation, key, TRUE) /\ RecordOrder(key)
    <2>1. key \in Keys
      <3>1. settings.revision \in 1 .. 1 + MaxChanges
        <4>1. /\ settings.revision \in Nat /\ 1 <= settings.revision /\ left["changes"] \in Nat
              /\ settings.revision + left["changes"] <= 1 + MaxChanges /\ MaxChanges \in Nat
          BY <1>3, DiscordAssumption DEF SettingsSound, SettingsRow, Faults
        <4> QED
          BY <4>1
      <3>2. revision \in 1 .. MaxRevision
        BY <1>8, InvariantParts
      <3> QED
        BY <1>1, <3>1, <3>2, KeyFacts
    <2>2. /\ evaluation \in [Keys -> WorkRow] /\ TRUE \in BOOLEAN
          /\ \A k \in Keys : \/ evaluation[k] = evaluation[k]
                             \/ /\ Leasable(evaluation[k]) /\ Stands(evaluation[k], evaluation[k])
                                /\ evaluation[k].status # "PROCESSING"
      BY InvariantParts
    <2> HIDE DEF Stands, Leasable, IsNew
    <2>3. /\ evaluation' \in [Keys -> WorkRow] /\ \A k \in Keys : Leasable(evaluation'[k])
          /\ \A k \in Keys : \/ Stands(evaluation[k], evaluation'[k])
                             \/ k = key /\ IsNew(k, evaluation, evaluation')
          /\ \A k \in Keys : evaluation[k].status = "PROCESSING" => evaluation'[k] = evaluation[k]
      <3>1. PICK kept, due, f : kept = evaluation /\ due = TRUE /\ f = evaluation'
        OBVIOUS
      <3>2. f = Enqueue(kept, key, due)
        BY Zenon, <1>8, <3>1
      <3>3. kept \in [Keys -> WorkRow] /\ due \in BOOLEAN
        BY <2>2, <3>1
      <3>4. \A k \in Keys : kept[k] = evaluation[k]
        BY <3>1
      <3>5. /\ f \in [Keys -> WorkRow] /\ \A k \in Keys : Leasable(f[k])
            /\ \A k \in Keys : \/ Stands(evaluation[k], f[k])
                               \/ k = key /\ IsNew(k, evaluation, f)
            /\ \A k \in Keys : evaluation[k].status = "PROCESSING" => f[k] = evaluation[k]
        BY <2>1, <3>2, <3>3, <3>4, EnqueuedIs
      <3> QED
        BY <3>1, <3>5
    <2>4. /\ history' \in [inOrder : BOOLEAN, onTime : BOOLEAN] /\ history'.onTime = history.onTime
          /\ history'.inOrder => history.inOrder
          /\ history'.inOrder /\ evaluation[key].status = "ABSENT" => LaterThanAll(key, evaluation)
      BY <1>8, RecordedIs
    <2>5. \A k \in Keys : \/ Stands(evaluation[k], evaluation'[k])
                          \/ /\ k = key /\ IsNew(k, evaluation, evaluation')
                             /\ history'.inOrder => LaterThanAll(k, evaluation)
      BY <2>3, <2>4 DEF IsNew
    <2> QED
      BY <1>4, <1>5, <1>6, <1>9, <2>3, <2>4, <2>5, Enqueueing
  <1> QED
    BY <1>2, <1>7, <1>8

-----------------------------------------------------------------------------
(* The invariant holds *)

LEMMA Initially ==
    Init => UpdatesInv
  <1> SUFFICES ASSUME Init PROVE UpdatesInv
    OBVIOUS
  <1>1. PICK s \in Scenarios :
           /\ settings = [revision |-> 1, enabled |-> TRUE, refresh |-> FALSE,
                  strategy |-> s.strategy, cadence |-> s.cadence,
                  slot |-> IF s.cadence = "FIXED_INTERVAL" THEN "waiting" ELSE "none"]
           /\ left = s.bound
    BY DEF Init
  <1>2. /\ revision = 0 /\ signalled = {}
        /\ evaluation = [k \in Keys |-> Work("ABSENT")] /\ delivery = [k \in Keys |-> NoDelivery]
        /\ cycle = [c \in Cycles |-> Idle] /\ channel = [k \in Keys |-> 0]
        /\ history = [inOrder |-> TRUE, onTime |-> TRUE]
    BY DEF Init
  <1>3. SettingsSound(settings, left)
    <2>1. /\ s.strategy \in Strategies /\ s.cadence \in {"EVENT_DRIVEN", "FIXED_INTERVAL", "MANUAL_ONLY"}
          /\ s.bound \in [Faults -> Nat]
          /\ s.bound["changes"] <= MaxChanges /\ MaxChanges \in Nat
      BY DiscordAssumption DEF Strategies
    <2>2. settings \in SettingsRow /\ settings.revision = 1
      BY <1>1, <2>1 DEF SettingsRow
    <2>3. s.bound["changes"] \in Nat
      BY <2>1 DEF Faults
    <2> QED
      BY <1>1, <2>1, <2>2, <2>3 DEF SettingsSound
  <1>4. Leasable(Work("ABSENT")) /\ Work("ABSENT") \in WorkRow /\ Work("ABSENT").status = "ABSENT"
    <2>1. PICK w : w = Work("ABSENT")
      OBVIOUS
    <2>2. w.status = "ABSENT" /\ w.owner = None /\ w \in WorkRow
      BY <2>1, DiscordAssumption DEF Work, WorkRow, Statuses
    <2> QED
      BY <2>1, <2>2 DEF Leasable, Live
  <1>5. /\ NoDelivery \in DeliveryRow /\ Sendable(NoDelivery, channel) /\ NoDelivery.work.status = "ABSENT"
        /\ NoDelivery.content = 0
    BY <1>4, DiscordAssumption DEF NoDelivery, DeliveryRow, Sendable
  <1>6. EvaluationsSound(evaluation)
    BY <1>2, <1>4 DEF EvaluationsSound
  <1>7. DeliveriesSound(delivery, evaluation, channel, revision)
    BY <1>2, <1>5 DEF DeliveriesSound
  <1>8. RowsSound
    BY <1>2, <1>3, <1>6, <1>7, DiscordAssumption DEF RowsSound
  <1>9. \A c \in Cycles : /\ CycleShape(cycle[c], revision) /\ Evaluating(cycle[c]) = {} /\ Sending(cycle[c]) = {}
                          /\ cycle[c].phase = "idle"
    BY <1>2, IdleIs
  <1>10. CyclesSound(cycle, revision, evaluation, delivery, channel)
    BY <1>2, <1>9 DEF CyclesSound, CycleSound
  <1>11. /\ \A k \in Keys : evaluation[k].status = "ABSENT" /\ delivery[k].work.status = "ABSENT" /\ channel[k] = 0
    BY <1>2, <1>4, <1>5
  <1>12. EvaluatedInOrder(evaluation) /\ DeliveredInOrder(delivery, cycle)
    BY <1>9, <1>11 DEF EvaluatedInOrder, DeliveredInOrder
  <1>13. CreatesFirst(delivery, channel, cycle)
    BY <1>9, <1>11 DEF CreatesFirst
  <1>14. LeasesKept(evaluation, delivery, cycle)
    BY <1>9 DEF LeasesKept, LeasedOnce
  <1>15. ContentsAdvance(delivery, channel, cycle)
    BY <1>9, <1>11 DEF ContentsAdvance, Live
  <1> QED
    BY <1>8, <1>10, <1>12, <1>13, <1>14, <1>15 DEF UpdatesInv

\* Only Send posts.
LEMMA Unposted ==
    ASSUME UpdatesInv, channel' = channel
    PROVE  Advancing(channel, channel')
  <1>1. \A k \in Keys : channel[k] \in Nat
    BY InvariantParts
  <1> QED
    BY <1>1 DEF Advancing

\* What a step of the worker, or of anything around it, keeps.
Keeps == UpdatesInv' /\ (history.inOrder /\ history.onTime => Advancing(channel, channel'))

LEMMA Proceeding ==
    ASSUME UpdatesInv, NEW c \in Cycles, Proceed(c)
    PROVE  Keeps
  <1>1. CASE StartCycle(c)
    BY <1>1, Starting, Unposted DEF StartCycle, Keeps
  <1>2. CASE ClaimEvaluations(c)
    BY <1>2, ClaimingEvaluations, Unposted DEF ClaimEvaluations, Keeps
  <1>3. CASE LoadGame(c)
    BY <1>3, Loading, Unposted DEF LoadGame, Keeps
  <1>4. CASE FailEvaluation(c)
    BY <1>4, Failing, Unposted DEF FailEvaluation, Keeps
  <1>5. CASE CompleteEvaluation(c)
    BY <1>5, Evaluated, Unposted DEF CompleteEvaluation, Keeps
  <1>6. CASE ClaimDeliveries(c)
    BY <1>6, ClaimingDeliveries, Unposted DEF ClaimDeliveries, Keeps
  <1>7. CASE CheckDelivery(c)
    BY <1>7, Checking, Unposted DEF CheckDelivery, Keeps
  <1>8. CASE CancelDelivery(c)
    BY <1>8, Cancelling, Unposted DEF CancelDelivery, Keeps
  <1>9. CASE Send(c)
    BY <1>9, Posting DEF Keeps
  <1>10. CASE CompleteAttempt(c)
    BY <1>10, Completing, Unposted DEF CompleteAttempt, Keeps
  <1>11. CASE Release(c)
    BY <1>11, Releasing, Unposted DEF Release, Keeps
  <1> QED
    BY <1>1, <1>2, <1>3, <1>4, <1>5, <1>6, <1>7, <1>8, <1>9, <1>10, <1>11 DEF Proceed

LEMMA EveryStep ==
    ASSUME UpdatesInv, [Next]_vars
    PROVE  Keeps
  <1>1. CASE UNCHANGED vars
    <2>1. UNCHANGED <<revision, signalled, settings, evaluation, delivery, cycle, channel, history, left>>
      BY <1>1 DEF vars, rows
    <2>2. /\ SettingsSound(settings', left') /\ settings'.strategy = settings.strategy
          /\ revision' \in 0 .. MaxRevision /\ revision <= revision' /\ signalled' \subseteq Signals
      BY <2>1, InvariantParts DEF UpdatesInv, RowsSound
    <2> QED
      BY <2>1, <2>2, BesidesRows, Unposted DEF Keeps
  <1>2. CASE Accept
    BY <1>2, Accepting, Unposted DEF Accept, Keeps
  <1>3. ASSUME NEW g \in Signals, Signal(g) PROVE Keeps
    BY <1>3, Signalling, Unposted DEF Signal, Keeps
  <1>4. CASE WriteSettings
    BY <1>4, WritingSettings, Unposted DEF WriteSettings, Keeps
  <1>5. CASE RequestRefresh
    BY <1>5, RequestingRefresh, Unposted DEF RequestRefresh, Keeps
  <1>6. ASSUME NEW c \in Cycles, Proceed(c) PROVE Keeps
    BY <1>6, Proceeding
  <1>7. ASSUME NEW c \in Cycles, Abort(c) PROVE Keeps
    BY <1>7, Aborting, Unposted DEF Abort, Keeps
  <1>8. ASSUME NEW c \in Cycles, Crash(c) PROVE Keeps
    BY <1>8, Dying, Unposted DEF Crash, Keeps
  <1>9. CASE RipenSlot
    BY <1>9, RipeningSlot, Unposted DEF RipenSlot, Keeps
  <1>10. ASSUME NEW k \in Keys, RipenEvaluation(k) PROVE Keeps
    BY <1>10, Ripening, Unposted DEF RipenEvaluation, Keeps
  <1>11. ASSUME NEW k \in Keys, RipenDelivery(k) PROVE Keeps
    BY <1>11, RipeningDelivery, Unposted DEF RipenDelivery, Keeps
  <1> QED
    BY <1>1, <1>2, <1>3, <1>4, <1>5, <1>6, <1>7, <1>8, <1>9, <1>10, <1>11 DEF Next

LEMMA TypesAreCorrect ==
    UpdatesInv => TypeOK
  <1> SUFFICES ASSUME UpdatesInv PROVE TypeOK
    OBVIOUS
  <1>1. revision \in 0 .. MaxRevision /\ signalled \subseteq Signals
    BY DEF UpdatesInv, RowsSound
  <1>2. \A k \in Keys : Leasable(evaluation[k]) /\ Leasable(delivery[k].work)
    BY DEF UpdatesInv, RowsSound, EvaluationsSound, DeliveriesSound, Sendable
  <1>3. ASSUME NEW work, Leasable(work)
        PROVE  /\ work.status \in Live \cup {"SUCCEEDED", "DEAD_LETTER", "CANCELLED", "ABSENT"}
               /\ work.attempts \in 0 .. MaxAttempts
               /\ work.status = "PROCESSING" <=> work.owner # None
    BY <1>3 DEF Leasable, WorkRow, Statuses, Live
  <1>4. \A k \in Keys :
          /\ delivery[k].operation = "EDIT" <=> delivery[k].target # None
          /\ delivery[k].work.status = "SUCCEEDED" <=> delivery[k].message # None
          /\ delivery[k].work.status # "ABSENT" => evaluation[k].status = "SUCCEEDED"
    BY DEF UpdatesInv, RowsSound, DeliveriesSound, Sendable
  <1>5. channel \in [Keys -> 0 .. MaxRevision]
    <2>1. \A k \in Keys : channel[k] <= revision
      BY DEF UpdatesInv, RowsSound, DeliveriesSound
    <2>2. \A k \in Keys : channel[k] \in 0 .. MaxRevision
      BY <2>1, InvariantParts
    <2> QED
      BY <2>2, InvariantParts
  <1>6. \A k \in Keys : \A work \in {evaluation[k], delivery[k].work} :
          /\ work.status \in Live \cup {"SUCCEEDED", "DEAD_LETTER", "CANCELLED", "ABSENT"}
          /\ work.attempts \in 0 .. MaxAttempts
          /\ work.status = "PROCESSING" <=> work.owner # None
    <2> HIDE DEF Leasable
    <2> QED
      BY <1>2, <1>3
  <1> QED
    BY <1>1, <1>4, <1>5, <1>6 DEF TypeOK

LEMMA MessagesAreOne ==
    UpdatesInv => OneLiveMessage
  <1> SUFFICES ASSUME UpdatesInv, settings.strategy = "EDIT_LIVE_MESSAGE", history.inOrder
               PROVE  Cardinality({k \in Messages : ~Forgotten(k)}) <= 1
    BY DEF OneLiveMessage
  <1> DEFINE S == {k \in Messages : ~Forgotten(k)}
  <1>1. ASSUME NEW j \in S, NEW k \in S PROVE j = k
    <2>1. j \in Keys /\ k \in Keys /\ channel[j] > 0 /\ channel[k] > 0
      BY DEF Messages
    <2>2. /\ delivery[j].work.status \notin {"ABSENT", "DEAD_LETTER", "CANCELLED"}
          /\ delivery[k].work.status \notin {"ABSENT", "DEAD_LETTER", "CANCELLED"}
      BY <2>1 DEF Forgotten, UpdatesInv, RowsSound, DeliveriesSound
    <2>3. Fruitless(j, delivery) /\ Fruitless(k, delivery)
      BY <2>1 DEF UpdatesInv, CreatesFirst
    <2>4. ~(j.source < k.source) /\ ~(k.source < j.source)
      BY <2>1, <2>2, <2>3 DEF Fruitless, Earlier
    <2>5. j.source = k.source
      BY <2>1, <2>4, KeyFacts
    <2>6. evaluation[j].status = "SUCCEEDED" /\ evaluation[k].status = "SUCCEEDED"
      BY <2>1, <2>2 DEF UpdatesInv, RowsSound, DeliveriesSound
    <2> QED
      BY <2>1, <2>5, <2>6 DEF UpdatesInv, EvaluatedInOrder
  <1>2. CASE S = {}
    BY <1>2, FS_EmptySet
  <1>3. CASE S # {}
    <2>1. PICK k \in S : TRUE
      BY <1>3
    <2>2. S = {k}
      BY <1>1, <2>1
    <2>3. Cardinality(S) = 1
      <3> HIDE DEF S
      <3> QED
        BY <2>2, FS_Singleton
    <2> QED
      BY <2>3
  <1> QED
    BY <1>2, <1>3

-----------------------------------------------------------------------------
(* The theorems *)

\* Always: rows are well formed and claimed in turn, what is created has nothing before it
\* that could have made a message, and leases that are kept keep the contents in order.
THEOREM UpdatesInvariant ==
    Spec => []UpdatesInv
  <1>1. Init => UpdatesInv
    BY Initially
  <1>2. UpdatesInv /\ [Next]_vars => UpdatesInv'
    BY EveryStep DEF Keeps
  <1> HIDE DEF UpdatesInv, Init, Next, vars
  <1> QED
    BY <1>1, <1>2, PTL DEF Spec

\* Whatever overlaps, dies, is given up or loses its answer, the rows fit the checks of the
\* migration, and a game edited live has one message that is not forgotten.
THEOREM MessagesCorrect ==
    Spec => []MessagesHold
  <1>1. UpdatesInv => MessagesHold
    BY TypesAreCorrect, MessagesAreOne DEF MessagesHold
  <1> HIDE DEF UpdatesInv, MessagesHold
  <1> QED
    BY <1>1, UpdatesInvariant, PTL

\* While no lease expires under a working holder, what a message shows never goes back, and
\* a later message never shows an earlier state than one before it.
THEOREM ContentsCorrect ==
    Spec => ContentAdvances
  <1> DEFINE Step1 == history.onTime /\ history.inOrder => \A k \in Keys :
                  /\ channel'[k] >= channel[k]
                  /\ channel'[k] # channel[k] => \A m \in Messages : channel[m] <= channel'[k]
  <1>1. UpdatesInv /\ [Next]_vars => Step1
    <2> SUFFICES ASSUME UpdatesInv, [Next]_vars PROVE Step1
      OBVIOUS
    <2>1. Keeps
      BY EveryStep
    <2> QED
      BY <2>1 DEF Keeps, Advancing, Messages
  <1>2. UpdatesInv /\ [Next]_vars => [Step1]_vars
    BY <1>1
  <1> HIDE DEF UpdatesInv, Next, vars, Step1
  <1>3. Spec => [][Step1]_vars
    BY <1>2, UpdatesInvariant, PTL DEF Spec
  <1> QED
    BY <1>3 DEF ContentAdvances, Step1
=============================================================================
