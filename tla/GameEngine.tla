----------------------------- MODULE GameEngine -----------------------------
(***************************************************************************)
(* One game scored event by event: the state machine of applyBody          *)
(* (src/domain/events/game-engine.ts) over the events a scorer submits,    *)
(* without corrections.  The handlers are the operators of GameReducer.    *)
(***************************************************************************)
EXTENDS GameReducer

CONSTANTS
    MaxHalves,        \* bound: no event is explored that passes this half inning
    MaxScore,         \* bound: no event is explored that passes this score
    Outcomes,         \* plate-appearance outcomes scorers submit
    PlayTypes,        \* kinds of standalone runner play scorers submit
    EventTypes,       \* event types scorers submit
    PassingRecorded   \* may a scorer record a run by a runner who leaves a
                      \* leading runner behind on a base?  (see ScoresInOrder)

ASSUME BoundAssumption ==
    /\ MaxHalves \in Nat
    /\ MaxScore \in Nat
    /\ PassingRecorded \in BOOLEAN
ASSUME SubmissionAssumption ==
    /\ Outcomes \subseteq DOMAIN BatterDestination
    /\ PlayTypes \subseteq AllPlayTypes

VARIABLES
    game,    \* the GameState record
    ledger   \* history variable: how many of the batters who came up in this
             \* half inning have not crossed home plate

vars == <<game, ledger>>

-----------------------------------------------------------------------------
(* The state machine *)

\* How a play is entered: which origins move, and where each ends.
RunnerMovements(origins) ==
    {to \in [origins -> Destinations] :
        \A o \in origins : to[o] = "OUT" \/ Rank[to[o]] > Rank[o]}
Movements(s) == UNION {RunnerMovements(origins) : origins \in SUBSET Occupied(s)}
\* An out is numbered three, and then labelled force or not, only if it is the last.
ThirdOutLabels(s, to) == IF s.outs + Cardinality(Outs(to)) = 3 THEN BOOLEAN ELSE {FALSE}
WithBatter(runners, goal) ==
    [o \in DOMAIN runners \cup {"BATTER"} |-> IF o = "BATTER" THEN goal ELSE runners[o]]

\* Assumption on the scorer, not a rule of the reducer: nobody is recorded
\* across home plate while a runner who was ahead of him stays on his base.
ScoresInOrder(s, to) ==
    \A o \in Home(to) : \A b \in Occupied(s) :
        Rank[b] > Rank[o] => b \in Home(to) \cup Outs(to)

HalvesBegun(s) == IF s.half = "TOP" THEN 2 * s.inning - 1 ELSE 2 * s.inning

WithinBounds(s) ==
    /\ HalvesBegun(s) <= MaxHalves
    /\ \A side \in Sides : s.score[side] <= MaxScore

SameHalf(s, t) == s.inning = t.inning /\ s.half = t.half

Enter(s, pa, home) ==
    /\ WithinBounds(s)
    /\ game' = s
    /\ ledger' = IF SameHalf(s, game) THEN ledger + pa - home ELSE 0

Init == /\ \E setup \in Setups : ValidSetup(setup) /\ game = InitialState(setup)
        /\ ledger = 0

GameStarted   == game.status = "READY" /\ Enter(StartGame(game), 0, 0)
GameSuspended == Live(game) /\ Enter([game EXCEPT !.status = "SUSPENDED"], 0, 0)
GameResumed   == /\ CanResume(game)
                 /\ Enter([game EXCEPT !.status = "IN_PROGRESS"], 0, 0)
GameCompleted == \E ending \in Endings :
                    /\ CanComplete(game, ending)
                    /\ Enter([game EXCEPT !.status = "COMPLETED"], 0, 0)
GameVerified  == /\ CanVerify(game)
                 /\ Enter([game EXCEPT !.status = "VERIFIED"], 0, 0)
GameReopened  == /\ game.status = "VERIFIED"
                 /\ Enter([game EXCEPT !.status = "CORRECTED"], 0, 0)
GameAbandoned == /\ CanAbandon(game)
                 /\ Enter([game EXCEPT !.status = "ABANDONED"], 0, 0)
GameCancelled == /\ game.status = "READY"
                 /\ Enter([game EXCEPT !.status = "CANCELLED"], 0, 0)

PlateAppearanceRecorded ==
    \E batter \in {p \in Players : BatterAt(game, p)},
       outcome \in Outcomes, runners \in Movements(game) :
      LET to == WithBatter(runners, BatterDestination[outcome])
      IN  \E counts \in SUBSET Home(to), thirdForce \in ThirdOutLabels(game, to) :
            /\ CanRecordPlateAppearance(game, batter, outcome, to, counts, thirdForce)
            /\ PassingRecorded \/ ScoresInOrder(game, to)
            /\ Enter(AfterPlateAppearance(game, batter, to, counts),
                     1, Cardinality(Home(to)))

RunnerPlayRecorded ==
    \E playType \in PlayTypes, to \in Movements(game) :
      \E counts \in SUBSET Home(to), thirdForce \in ThirdOutLabels(game, to) :
        /\ CanRecordRunnerPlay(game, playType, to, counts, thirdForce)
        /\ PassingRecorded \/ ScoresInOrder(game, to)
        /\ Enter(AfterRunnerPlay(game, to, counts), 0, Cardinality(Home(to)))

\* The older single-runner events: one origin, and one kind of destination.
RunnerAdvanceRecorded ==
    \E origin \in Occupied(game), goal \in Destinations \ {"OUT"} :
      LET to == [o \in {origin} |-> goal]
      IN  \E counts \in SUBSET Home(to) :
            /\ CanMoveRunners(game, to, counts, FALSE)
            /\ PassingRecorded \/ ScoresInOrder(game, to)
            /\ Enter(AfterRunnerPlay(game, to, counts), 0, Cardinality(Home(to)))

RunnerOutRecorded ==
    \E origin \in Occupied(game), force \in BOOLEAN :
      LET to == [o \in {origin} |-> "OUT"]
      IN  /\ CanMoveRunners(game, to, {}, force)
          /\ Enter(AfterRunnerPlay(game, to, {}), 0, 0)

StolenBaseAttemptRecorded ==
    \E origin \in Occupied(game), goal \in {"SECOND", "THIRD", "HOME", "OUT"} :
      LET to == [o \in {origin} |-> goal]
      IN  /\ CanMoveRunners(game, to, Home(to), FALSE)
          /\ PassingRecorded \/ ScoresInOrder(game, to)
          /\ Enter(AfterRunnerPlay(game, to, Home(to)), 0, Cardinality(Home(to)))

DefensiveSubstitutionMade ==
    \E side \in Sides, out, in \in Players, pos \in Positions :
        /\ CanSubstitute(game, side, out, in, pos)
        /\ Enter(AfterSubstitution(game, side, out, in, pos), 0, 0)

DefensiveAlignmentChanged ==
    \E side \in {FieldingSide(game)} :
      \E movers \in SUBSET {p \in game.active : Team[p] = side} :
      \E assign \in [movers -> Positions] :
        /\ CanAlign(game, side, assign)
        /\ Enter(AfterAlignment(game, side, assign), 0, 0)

PitchingChangeMade ==
    \E side \in Sides, in \in Players :
        /\ CanChangePitcher(game, side, in)
        /\ Enter(AfterPitchingChange(game, side, in), 0, 0)

Submitted(type) == type \in EventTypes

Next ==
    \/ Submitted("GameStarted") /\ GameStarted
    \/ Submitted("GameSuspended") /\ GameSuspended
    \/ Submitted("GameResumed") /\ GameResumed
    \/ Submitted("GameCompleted") /\ GameCompleted
    \/ Submitted("GameVerified") /\ GameVerified
    \/ Submitted("GameReopened") /\ GameReopened
    \/ Submitted("GameAbandoned") /\ GameAbandoned
    \/ Submitted("GameCancelled") /\ GameCancelled
    \/ Submitted("PlateAppearanceRecorded") /\ PlateAppearanceRecorded
    \/ Submitted("RunnerPlayRecorded") /\ RunnerPlayRecorded
    \/ Submitted("RunnerAdvanceRecorded") /\ RunnerAdvanceRecorded
    \/ Submitted("RunnerOutRecorded") /\ RunnerOutRecorded
    \/ Submitted("StolenBaseAttemptRecorded") /\ StolenBaseAttemptRecorded
    \/ Submitted("DefensiveSubstitutionMade") /\ DefensiveSubstitutionMade
    \/ Submitted("DefensiveAlignmentChanged") /\ DefensiveAlignmentChanged
    \/ Submitted("PitchingChangeMade") /\ PitchingChangeMade

Spec == Init /\ [][Next]_vars

-----------------------------------------------------------------------------
(* Properties *)

\* Type invariant of the reducer state and of the history variable.
TypeOK == game \in State /\ ledger \in Int

\* The defense, the lineup, the pitcher and the batting order agree: a position is held by p
\* exactly when p is an active player of that side recorded at that position, the pitcher to
\* whom runners are charged is the one who stands at PITCHER, nobody shares a slot, and nobody
\* is in the game without a slot or a position.  Three handlers update them by different code.
LineupsAgree ==
    /\ DefenseMatches(game) /\ Standing(game)
    /\ SlotsDistinct(game) /\ EverybodyPlays(game)

\* No substitution or pitching change opens or closes a batting slot: the
\* cursor, an index into the sorted order, keeps pointing at the next hitter.
BattingOrderKept ==
    [][\A side \in Sides : Slots(game', side) = Slots(game, side)]_vars

\* A player who has left the game never comes back.
NoReentry ==
    [][(game.participated \ game.active) \cap game'.active = {}]_vars

\* A box score proves: in the half inning being played, every batter who came
\* up has scored, is out or is on base.
BoxScoreBalances ==
    Live(game) =>
        ledger = game.outs + Cardinality(Occupied(game))

\* Responsibility is only kept for somebody on base, and names a player of
\* the other side who has been in the game.
ResponsibilityNamesOpponent ==
    \A p \in Players : game.resp[p] # None =>
        /\ p \in Runners(game)
        /\ Team[p] = BattingSide(game)
        /\ game.resp[p] \in game.participated
        /\ Team[game.resp[p]] = FieldingSide(game)

\* A live half inning can always be brought to its end: the hitter due up can
\* be struck out.
HalfCanEnd ==
    Live(game) =>
        \E p \in Players :
            CanRecordPlateAppearance(game, p, "STRIKEOUT_SWINGING",
                                     [o \in {"BATTER"} |-> "OUT"], {}, FALSE)

\* docs/SCORING_SEMANTICS.md:83 "One runner may not appear on multiple bases".
OneBasePerRunner ==
    \A b, c \in Occupied(game) : game.bases[b] = game.bases[c] => b = c

\* Every runner is an active player of the batting side, and some pitcher is
\* responsible for him (a runner without one can never be moved again).
RunnersAccountedFor ==
    \A r \in Runners(game) :
        /\ r \in game.active
        /\ Team[r] = BattingSide(game)
        /\ game.resp[r] # None

\* The hitter due up is not standing on a base.
HitterNotOnBase ==
    Live(game) => \A p \in Runners(game) : ~BatterAt(game, p)

\* Every runner stands on one base, for one responsible pitcher of the side he
\* bats against, and none of them is due up.
RunnersAreSound ==
    OneBasePerRunner /\ RunnersAccountedFor /\ ResponsibilityNamesOpponent /\ HitterNotOnBase

\* Suspension, completion, review and abandonment lose nothing: the baseball
\* situation only changes while the game is live.
FrozenUnlessLive ==
    [][game.status # "IN_PROGRESS" => Situation(game') = Situation(game)]_vars

\* A game that was completed is never played on, and a verified one is not
\* touched before it is reopened, not even to abandon it (a plain history,
\* without corrections; compare CorrectionHistory).
ClosedGameStaysClosed ==
    [][/\ game.status \in {"COMPLETED", "VERIFIED", "CORRECTED", "ABANDONED"}
            => ~Live(game') /\ game'.status # "SUSPENDED"
       /\ game.status = "VERIFIED" => game'.status = "CORRECTED"]_game

\* Nothing of a game is lost or revived outside its live phases.
LifecycleHolds == FrozenUnlessLive /\ ClosedGameStaysClosed
=============================================================================
