-------------------------- MODULE FantasyLeague ----------------------------
(***************************************************************************)
(* A fantasy league: the transactions that move players between teams      *)
(* (src/domain/fantasy-transactions.ts, the roster snapshots of            *)
(* fantasy-domain.ts) and the workspace row that stores their state        *)
(* (src/server/data/fantasy-experience-repository.ts).                     *)
(*                                                                         *)
(* A command is a function from the stored state to the next one.  Here it *)
(* is an operator whose value is the set with the next state, or the empty *)
(* set when the command is denied.  Requests are sent once and delivered   *)
(* any number of times, in any order.                                      *)
(***************************************************************************)
EXTENDS Integers, Sequences, FiniteSets

CONSTANTS
    Teams, Players, Active, Bench,  \* teams, players and the roster slots of each team
    Fits,               \* pairs of a player and an active slot it is eligible for
    StartSlots,         \* the rosters the league starts from
    FirstPriority,      \* the waiver priority, a sequence of the teams
    MaxTime,            \* bound: instants are 0 .. MaxTime
    AssignmentDeadline, WaiverInstants, TradeInstants, TradeDeadline, Locked, \* the sealed policy
    Scripts,            \* bound: each behaviour sends the commands of one of these sets
    MaxControls,        \* bound: pauses, resumptions, preference updates
    None

Slots == Active \cup Bench
Time == 0 .. MaxTime
Slotted(f, p) == \E s \in Slots : f[s] = p

Lineups == [Slots -> Players \cup {None}]

\* commandSchema
Commands ==
    [action : {"ADD_PLAYER"}, team : Teams, player : Players, slot : Slots]
    \cup [action : {"DROP_PLAYER"}, team : Teams, player : Players]
    \cup [action : {"TRADE"}, team : Teams, player : Players, slot : Slots,
          partner : Teams, other : Players, partnerSlot : Slots]
    \cup [action : {"LINEUP_CHANGE"}, team : Teams, slots : Lineups, commissioner : BOOLEAN]
    \cup [action : {"SUBMIT_WAIVER_CLAIM"}, id : Nat, team : Teams, player : Players,
          drop : Players \cup {None}, slot : Slots, at : Time]
    \cup [action : {"CANCEL_WAIVER_CLAIM"}, id : Nat]
    \cup [action : {"PROCESS_WAIVERS"}, at : Time]

Covers(priority) == \A t \in Teams : \E i \in DOMAIN priority : priority[i] = t

\* A player stands in one slot at most.
OncePerLeague(slots) ==
    \A t, u \in Teams : \A x, y \in Slots :
        slots[t][x] # None /\ slots[t][x] = slots[u][y] => t = u /\ x = y

\* What the sealed policy, the first rosters and the commands are.
FantasyAssumption ==
    /\ {MaxTime, MaxControls, AssignmentDeadline, TradeDeadline} \subseteq Nat
    /\ WaiverInstants \cup TradeInstants \cup Locked \subseteq Time
    /\ None \notin Teams \cup Players /\ Fits \subseteq Players \X Active
    /\ StartSlots \in [Teams -> Lineups] /\ OncePerLeague(StartSlots)
    /\ IsFiniteSet(Teams) /\ FirstPriority \in [1 .. Cardinality(Teams) -> Teams]
    /\ Covers(FirstPriority)
    /\ Scripts \subseteq SUBSET Commands

VARIABLES
    now,
    league,     \* FantasyTransactionState: what the snapshot of the workspace stores
    status,     \* status of the workspace
    revision,   \* revision of the workspace row, which every update advances
    script,     \* commands still to be sent
    requests,   \* requests sent: a command and the revision it expects
    update,     \* revision read by an update of notification settings, or None
    controls    \* controls and updates left

vars == <<now, league, status, revision, script, requests, update, controls>>
-----------------------------------------------------------------------------
(* The domain: one operator per command.                                   *)

Owned(s, p) == s.owner[p] # None

\* slotsWithAssignment and slotsWithoutPlayer.
Assign(f, slot, p) == IF f[slot] = None THEN {[f EXCEPT ![slot] = p]} ELSE {}
Without(f, p) == [x \in Slots |-> IF f[x] = p THEN None ELSE f[x]]

\* createFantasyRosterSnapshot with the previous snapshot of the team.
ValidSnapshot(s, t, f, owner) ==
    /\ now > s.effective[t]
    /\ \A x, y \in Slots : f[x] # None /\ x # y => f[x] # f[y]
    /\ \A x \in Slots : f[x] # None => owner[f[x]] = t /\ (x \in Active => <<f[x], x>> \in Fits)

\* (Mutant: a lineup may leave out a player of the team.)
AnyProjection(owner, slots) == TRUE

\* assertOwnershipProjection.
ProjectionsAgree(owner, slots) ==
    \A p \in Players : \A t \in Teams : owner[p] = t <=> Slotted(slots[t], p)

\* New owners and rosters of the teams in fs, if they are valid.
Successor(s, owner, fs) ==
    LET slots == [t \in Teams |-> IF t \in DOMAIN fs THEN fs[t] ELSE s.slots[t]]
    IN  IF \A t \in DOMAIN fs : ValidSnapshot(s, t, fs[t], owner)
        THEN {[s EXCEPT !.owner = owner, !.slots = slots,
                  !.effective = [t \in Teams |-> IF t \in DOMAIN fs THEN now ELSE @[t]]]}
        ELSE {}

One(t, f) == [x \in {t} |-> f]

AddPlayer(s, c) ==
    IF now < AssignmentDeadline /\ ~Owned(s, c.player)
    THEN UNION {Successor(s, [s.owner EXCEPT ![c.player] = c.team], One(c.team, f)) :
                    f \in Assign(s.slots[c.team], c.slot, c.player)}
    ELSE {}

DropPlayer(s, c) ==
    IF s.owner[c.player] = c.team
    THEN Successor(s, [s.owner EXCEPT ![c.player] = None],
                   One(c.team, Without(s.slots[c.team], c.player)))
    ELSE {}

\* A trade both owners have accepted, at its sealed instant.
TradePlayers(s, c) ==
    IF /\ now \in TradeInstants /\ now < TradeDeadline
       /\ s.owner[c.player] = c.team /\ s.owner[c.other] = c.partner /\ c.team # c.partner
    THEN UNION {Successor(s, [s.owner EXCEPT ![c.player] = c.partner, ![c.other] = c.team],
                          [x \in {c.team, c.partner} |-> IF x = c.team THEN fs[1] ELSE fs[2]]) :
                    fs \in Assign(Without(s.slots[c.team], c.player), c.slot, c.other)
                           \X Assign(Without(s.slots[c.partner], c.other), c.partnerSlot, c.player)}
    ELSE {}

\* The complete slots of a team, by its manager or as a commissioner's correction.
ChangeLineup(s, c) ==
    IF now \notin Locked \/ c.commissioner
    THEN Successor(s, s.owner, One(c.team, c.slots))
    ELSE {}

SubmitWaiver(s, c) ==
    LET claim == [id |-> c.id, team |-> c.team, player |-> c.player, drop |-> c.drop,
                  slot |-> c.slot, at |-> c.at, submitted |-> now, status |-> "PENDING"]
    IN  IF /\ c.at \in WaiverInstants /\ now < c.at /\ ~Owned(s, c.player)
           /\ c.drop # None => s.owner[c.drop] = c.team
           /\ \A d \in s.claims : /\ d.id # c.id
                                  /\ d.status = "PENDING" /\ d.at = c.at /\ d.team = c.team
                                     => d.player # c.player
        THEN {[s EXCEPT !.claims = @ \cup {claim}]}
        ELSE {}

CancelWaiver(s, c) ==
    {[s EXCEPT !.claims = (@ \ {d}) \cup {[d EXCEPT !.status = "CANCELLED"]}] :
        d \in {d \in s.claims : d.id = c.id /\ d.status = "PENDING"}}

Rank(priority, t) == CHOOSE i \in DOMAIN priority : priority[i] = t

\* (Mutant: the claims of a batch are taken in the order they came in.)
FirstCome(s, c, d) == c.submitted < d.submitted \/ (c.submitted = d.submitted /\ c.id < d.id)

\* waiverClaimOrder: by the priority of the team, then by submission, then by id.
Before(s, c, d) ==
    LET i == Rank(s.priority, c.team)  j == Rank(s.priority, d.team)
    IN  i < j \/ (i = j /\ (c.submitted < d.submitted \/ (c.submitted = d.submitted /\ c.id < d.id)))

\* One claim of a batch: the drop and the acquisition, or neither.
Award(s, c) ==
    LET freed == IF c.drop = None THEN s.slots[c.team] ELSE Without(s.slots[c.team], c.drop)
        owner == [p \in Players |-> CASE p = c.player -> c.team
                                      [] p = c.drop /\ p # c.player -> None
                                      [] OTHER -> s.owner[p]]
    IN  IF ~Owned(s, c.player) /\ (c.drop # None => s.owner[c.drop] = c.team)
        THEN UNION {Successor(s, owner, One(c.team, f)) : f \in Assign(freed, c.slot, c.player)}
        ELSE {}

\* The team that was awarded a player goes to the end.
ToTheEnd(priority, t) ==
    [i \in DOMAIN priority |->
        IF i = Len(priority) THEN t
        ELSE priority[IF i < Rank(priority, t) THEN i ELSE i + 1]]

Resolve(s, c) ==
    LET won == Award(s, c)
        settled(result) == (s.claims \ {c}) \cup {[c EXCEPT !.status = result]}
    IN  IF won = {} THEN [s EXCEPT !.claims = settled("REJECTED")]
        ELSE [(CHOOSE x \in won : TRUE) EXCEPT
                 !.claims = settled("APPLIED"), !.priority = ToTheEnd(s.priority, c.team)]

\* The claim of a batch that comes next, in the order fixed before the first award.
NextClaim(s, left) == CHOOSE c \in left : \A d \in left \ {c} : Before(s, c, d)

ResolveNext(start, batch) ==
    LET c == NextClaim(start.state, batch.left)
    IN  [state |-> Resolve(batch.state, c), left |-> batch.left \ {c}]

\* A batch after each of its first n claims: the state, and the claims left.
Batch(start, n) ==
    LET batch[i \in 0 .. n] == IF i = 0 THEN start ELSE ResolveNext(start, batch[i - 1])
    IN  batch

Due(s, at) == {d \in s.claims : d.status = "PENDING" /\ d.at = at}

ProcessWaivers(s, c) ==
    LET due == Due(s, c.at)
        n   == Cardinality(due)
    IN  IF c.at \in WaiverInstants /\ c.at = now
        THEN {Batch([state |-> s, left |-> due], n)[n].state}
        ELSE {}

Mutate(s, c) ==
    CASE c.action = "ADD_PLAYER" -> AddPlayer(s, c)
      [] c.action = "DROP_PLAYER" -> DropPlayer(s, c)
      [] c.action = "TRADE" -> TradePlayers(s, c)
      [] c.action = "LINEUP_CHANGE" -> ChangeLineup(s, c)
      [] c.action = "SUBMIT_WAIVER_CLAIM" -> SubmitWaiver(s, c)
      [] c.action = "CANCEL_WAIVER_CLAIM" -> CancelWaiver(s, c)
      [] c.action = "PROCESS_WAIVERS" -> ProcessWaivers(s, c)

\* The operation id of a request stands for its command: no two of a script are alike.
Record(s, r, outcome) ==
    [operation |-> r.command, outcome |-> outcome,
     before |-> s.revision, after |-> IF outcome = "DENIED" THEN s.revision ELSE s.revision + 1]

\* (Mutant: the revision a request expects is not compared.)
AnyRevision(s, r) == TRUE

Expected(s, r) == r.expected = s.revision

\* applyFantasyTransaction, for an operation it does not know: a denial is recorded too.
Apply(s, r) ==
    LET next == IF ~Expected(s, r) THEN {}
                ELSE {x \in Mutate(s, r.command) : ProjectionsAgree(x.owner, x.slots)}
    IN  IF next = {} THEN [s EXCEPT !.log = Append(@, Record(s, r, "DENIED"))]
        ELSE [(CHOOSE x \in next : TRUE) EXCEPT !.revision = @ + 1,
                 !.log = Append(@, Record(s, r, "ACCEPTED"))]
-----------------------------------------------------------------------------
(* The workspace.                                                          *)

Send(c) ==
    /\ c \in script /\ script' = script \ {c}
    /\ requests' = requests \cup {[expected |-> league.revision, command |-> c]}
    /\ UNCHANGED <<now, league, status, revision, update, controls>>

\* (Mutant: a request delivered again is applied again.)
NeverKnown(r) == FALSE

\* FantasyLeagueEvent has the operation: the stored answer is given again.
Known(r) == \E i \in DOMAIN league.log : league.log[i].operation = r.command

\* applyUiTransaction, which holds the row lock of the workspace throughout.
Deliver(r) ==
    /\ status = "ACTIVE" /\ ~Known(r)
    /\ league' = Apply(league, r)
    /\ revision' = revision + 1
    /\ UNCHANGED <<now, status, script, requests, update, controls>>

\* applyControl: who pauses, resumes, archives or asks for deletion.
ControlStep ==
    {<<"ACTIVE", "PAUSED">>, <<"PAUSED", "ACTIVE">>, <<"ACTIVE", "ARCHIVED">>,
     <<"PAUSED", "ARCHIVED">>, <<"ARCHIVED", "ARCHIVED">>}
    \cup ({"ACTIVE", "PAUSED", "ARCHIVED", "PENDING_DELETION"} \X {"PENDING_DELETION"})

Control(to) ==
    /\ controls > 0 /\ <<status, to>> \in ControlStep
    /\ status' = to /\ revision' = revision + 1 /\ controls' = controls - 1
    /\ UNCHANGED <<now, league, script, requests, update>>

\* updateOwnNotificationPreference reads the revision without the lock, ...
ReadRevision ==
    /\ update = None /\ controls > 0
    /\ update' = revision /\ controls' = controls - 1
    /\ UNCHANGED <<now, league, status, revision, script, requests>>

\* (Mutant: no trigger.)
NextRevisionAny(from) == TRUE

\* protect_fantasy_workspace_identity refuses an update that does not advance by one.
NextRevision(from) == from = revision

\* ... and writes its successor, unless the trigger refuses.
WriteRevision ==
    /\ update # None
    /\ revision' = IF NextRevision(update) THEN update + 1 ELSE revision
    /\ update' = None
    /\ UNCHANGED <<now, league, status, script, requests, controls>>

Tick ==
    /\ now < MaxTime /\ now' = now + 1
    /\ UNCHANGED <<league, status, revision, script, requests, update, controls>>
-----------------------------------------------------------------------------
\* createFantasyTransactionState, after the initial assignment: the players of a team
\* stand in its slots.
FantasyInit ==
    /\ now = 0
    /\ league = [revision |-> 0, slots |-> StartSlots, priority |-> FirstPriority,
                 owner |-> [p \in Players |-> LET ts == {t \in Teams : Slotted(StartSlots[t], p)}
                                              IN  IF ts = {} THEN None ELSE CHOOSE t \in ts : TRUE],
                 effective |-> [t \in Teams |-> -1], claims |-> {}, log |-> <<>>]
    /\ status = "ACTIVE" /\ revision = 0
    /\ script \in Scripts /\ requests = {} /\ update = None /\ controls = MaxControls

FantasyNext ==
    \/ \E c \in script : Send(c)
    \/ \E r \in requests : Deliver(r)
    \/ \E to \in {"ACTIVE", "PAUSED", "ARCHIVED", "PENDING_DELETION"} : Control(to)
    \/ ReadRevision \/ WriteRevision \/ Tick

-----------------------------------------------------------------------------
\* docs/FANTASY_TRANSACTIONS.md: "Ownership and current roster projections agree before
\* and after every commit", after trades, awards, drops and lineups of every kind.
OwnershipAgrees ==
    /\ \A p \in Players : \A t \in Teams : league.owner[p] = t <=> Slotted(league.slots[t], p)
    /\ \A p \in Players : Cardinality({x \in Teams \X Slots : league.slots[x[1]][x[2]] = p}) <= 1

\* An operation is recorded once however often it is delivered, and the accepted ones
\* are exactly the revisions of the league, in order, each made on the one before it.
AppliedOnce ==
    LET accepted == {i \in DOMAIN league.log : league.log[i].outcome = "ACCEPTED"}
    IN  /\ \A i, j \in DOMAIN league.log :
               league.log[i].operation = league.log[j].operation => i = j
        /\ {league.log[i].before : i \in accepted} = 0 .. league.revision - 1
        /\ \A i, j \in accepted : i < j => league.log[i].before < league.log[j].before

NewlyApplied(c) ==
    /\ c \in league.claims /\ c.status = "PENDING"
    /\ [c EXCEPT !.status = "APPLIED"] \in league.claims'

\* A waiver goes past the team with the better priority only when that team could not
\* have taken the player, or has been awarded another one in the same batch.
BestClaimWins ==
    [][\A c, d \in league.claims :
          /\ NewlyApplied(d) /\ c.status = "PENDING" /\ c.player = d.player /\ c.at = d.at
          /\ Rank(league.priority, c.team) < Rank(league.priority, d.team)
          => Award(league, c) = {} \/ \E e \in league.claims : e.team = c.team /\ NewlyApplied(e)]_vars

\* The revision of the workspace moves by one and never back, also when the settings
\* of a recipient are written from a revision read before a transaction committed.
RevisionAdvances == [][revision' \in {revision, revision + 1} /\
                       (league' # league \/ status' # status => revision' = revision + 1)]_vars
=============================================================================
