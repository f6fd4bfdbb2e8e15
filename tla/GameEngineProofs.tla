-------------------------- MODULE GameEngineProofs --------------------------
(***************************************************************************)
(* What scoring a game guarantees for every lineup, setup and bound.  The  *)
(* inductive invariant is the conjunction of the type invariant and the    *)
(* lineup invariants; what each handler does is in GameReducerProofs.      *)
(* After it, what holds around the game: the season and its set-up, and    *)
(* the drafts of the scorer's browser (MCScoringDesk).                     *)
(***************************************************************************)
EXTENDS MCScoringDesk, LineupPanel, GameReducerProofs, FunctionTheorems, Sequences

\* The inductive invariant.
IInv == TypeOK /\ SoundLineup(game)

-----------------------------------------------------------------------------
\* What every event does to the lineup: it stays sound, no batting slot opens
\* or closes, and nobody who left comes back.
SlotsKept     == \A side \in Sides : Slots(game', side) = Slots(game, side)
NobodyReturns == (game.participated \ game.active) \cap game'.active = {}
Sound         == IInv' /\ SlotsKept /\ NobodyReturns

LEMMA EnterPlay ==
  ASSUME IInv, NEW s \in State, Lineup(s) = Lineup(game),
         NEW pa \in Int, NEW crossed \in Int, Enter(s, pa, crossed)
  PROVE  Sound
<1>1. game' = s /\ ledger' \in Int BY DEF Enter, IInv, TypeOK
<1>2. SoundLineup(s) BY SameLineup DEF IInv, TypeOK
<1>3. SlotsKept BY <1>1 DEF SlotsKept, Slots, Batters, Lineup
<1>4. NobodyReturns BY <1>1 DEF NobodyReturns, Lineup
<1> QED BY <1>1, <1>2, <1>3, <1>4 DEF Sound, IInv, TypeOK

LEMMA EnterLifecycle ==
  ASSUME IInv, NEW status \in Statuses, Enter([game EXCEPT !.status = status], 0, 0)
  PROVE  Sound
<1>1. /\ [game EXCEPT !.status = status] \in State
      /\ Lineup([game EXCEPT !.status = status]) = Lineup(game)
  BY DEF IInv, TypeOK, State, Lineup
<1> QED BY <1>1, EnterPlay

\* A runner play: origins that are bases, and a legal set of movements.
LEMMA EnterRunnerPlay ==
  ASSUME IInv, NEW to, DOMAIN to \subseteq Bases, NEW counts, NEW thirdForce,
         LegalMovements(game, None, to, counts, thirdForce),
         Enter(AfterRunnerPlay(game, to, counts), 0, Cardinality(Home(to)))
  PROVE  Sound
<1>1. Entered(game, None, to, counts)
  BY DEF Entered, LegalMovements, Home, Bases
<1>2. Cardinality(Home(to)) \in Int
  BY OriginsFinite DEF Home
<1> QED BY <1>1, <1>2, RunnerPlayType, EnterPlay DEF IInv, TypeOK

LEMMA MovementOrigins ==
  ASSUME NEW s, NEW to \in Movements(s)
  PROVE  DOMAIN to \subseteq Bases
BY DEF Movements, RunnerMovements, Occupied

LEMMA NextSound == IInv /\ Next => Sound
<1> SUFFICES ASSUME IInv, Next PROVE Sound OBVIOUS
<1> USE DEF Statuses
<1>1. CASE GameStarted
  <2>1. StartGame(game) \in State /\ Lineup(StartGame(game)) = Lineup(game)
    BY DEF StartGame, IInv, TypeOK, State, Halves, Lineup
  <2> QED BY <1>1, <2>1, EnterPlay DEF GameStarted
<1>2. CASE GameSuspended BY <1>2, EnterLifecycle DEF GameSuspended
<1>3. CASE GameResumed   BY <1>3, EnterLifecycle DEF GameResumed
<1>4. CASE GameCompleted BY <1>4, EnterLifecycle DEF GameCompleted
<1>5. CASE GameVerified  BY <1>5, EnterLifecycle DEF GameVerified
<1>6. CASE GameReopened  BY <1>6, EnterLifecycle DEF GameReopened
<1>7. CASE GameAbandoned BY <1>7, EnterLifecycle DEF GameAbandoned
<1>8. CASE GameCancelled BY <1>8, EnterLifecycle DEF GameCancelled
<1>9. CASE PlateAppearanceRecorded
  <2>1. PICK batter \in {p \in Players : BatterAt(game, p)},
             outcome \in Outcomes, runners \in Movements(game) :
          LET to == WithBatter(runners, BatterDestination[outcome])
          IN  \E counts \in SUBSET Home(to), thirdForce \in ThirdOutLabels(game, to) :
                /\ CanRecordPlateAppearance(game, batter, outcome, to, counts, thirdForce)
                /\ Enter(AfterPlateAppearance(game, batter, to, counts),
                         1, Cardinality(Home(to)))
    BY <1>9 DEF PlateAppearanceRecorded
  <2> DEFINE to == WithBatter(runners, BatterDestination[outcome])
  <2>2. PICK counts \in SUBSET Home(to), thirdForce \in ThirdOutLabels(game, to) :
          /\ CanRecordPlateAppearance(game, batter, outcome, to, counts, thirdForce)
          /\ Enter(AfterPlateAppearance(game, batter, to, counts),
                   1, Cardinality(Home(to)))
    BY <2>1
  <2>3. DOMAIN to \subseteq Bases \cup {"BATTER"}
    BY MovementOrigins DEF WithBatter
  <2> HIDE DEF to
  <2>4. Entered(game, batter, to, counts)
    BY <2>2, <2>3 DEF Entered, CanRecordPlateAppearance, LegalMovements, Home
  <2>5. Batters(game, BattingSide(game)) # {}
    BY DEF BatterAt
  <2>6. Cardinality(Home(to)) \in Int BY <2>3, OriginsFinite DEF Home
  <2>7. /\ AfterPlateAppearance(game, batter, to, counts) \in State
        /\ Lineup(AfterPlateAppearance(game, batter, to, counts)) = Lineup(game)
    BY <2>4, <2>5, PlateAppearanceType DEF IInv, TypeOK
  <2> QED BY <2>2, <2>6, <2>7, EnterPlay
<1>10. CASE RunnerPlayRecorded
  BY <1>10, EnterRunnerPlay, MovementOrigins
     DEF RunnerPlayRecorded, CanRecordRunnerPlay, CanMoveRunners
<1>11. CASE RunnerAdvanceRecorded
  <2>1. PICK origin \in Occupied(game), goal \in Destinations \ {"OUT"} :
          LET to == [o \in {origin} |-> goal]
          IN  \E counts \in SUBSET Home(to) :
                /\ CanMoveRunners(game, to, counts, FALSE)
                /\ Enter(AfterRunnerPlay(game, to, counts), 0, Cardinality(Home(to)))
    BY <1>11 DEF RunnerAdvanceRecorded
  <2> DEFINE to == [o \in {origin} |-> goal]
  <2>2. DOMAIN to \subseteq Bases BY DEF Occupied
  <2> HIDE DEF to
  <2> QED BY <2>1, <2>2, EnterRunnerPlay DEF CanMoveRunners, to
<1>12. CASE RunnerOutRecorded
  <2>1. PICK origin \in Occupied(game), force \in BOOLEAN :
          LET to == [o \in {origin} |-> "OUT"]
          IN  /\ CanMoveRunners(game, to, {}, force)
              /\ Enter(AfterRunnerPlay(game, to, {}), 0, 0)
    BY <1>12 DEF RunnerOutRecorded
  <2> DEFINE to == [o \in {origin} |-> "OUT"]
  <2>2. DOMAIN to \subseteq Bases BY DEF Occupied
  <2>3. Cardinality(Home(to)) = 0
    <3>1. Home(to) = {} BY DEF Home
    <3> QED BY <3>1, FS_EmptySet
  <2> HIDE DEF to
  <2> QED BY <2>1, <2>2, <2>3, EnterRunnerPlay DEF CanMoveRunners, to
<1>13. CASE StolenBaseAttemptRecorded
  <2>1. PICK origin \in Occupied(game), goal \in {"SECOND", "THIRD", "HOME", "OUT"} :
          LET to == [o \in {origin} |-> goal]
          IN  /\ CanMoveRunners(game, to, Home(to), FALSE)
              /\ Enter(AfterRunnerPlay(game, to, Home(to)), 0, Cardinality(Home(to)))
    BY <1>13 DEF StolenBaseAttemptRecorded
  <2> DEFINE to == [o \in {origin} |-> goal]
  <2>2. DOMAIN to \subseteq Bases BY DEF Occupied
  <2> HIDE DEF to
  <2> QED BY <2>1, <2>2, EnterRunnerPlay DEF CanMoveRunners, to
<1>14. CASE DefensiveSubstitutionMade
  <2>1. PICK side \in Sides, out \in Players, in \in Players, pos \in Positions :
          /\ CanSubstitute(game, side, out, in, pos)
          /\ Enter(AfterSubstitution(game, side, out, in, pos), 0, 0)
    BY <1>14 DEF DefensiveSubstitutionMade
  <2>2. game' = AfterSubstitution(game, side, out, in, pos) /\ ledger' \in Int
    BY <2>1 DEF Enter, IInv, TypeOK
  <2>3. Substituted(game', game, side, out, in, pos)
    BY <2>2, SubstitutionEffect DEF IInv, TypeOK
  <2>4. SoundLineup(game')
    BY <2>1, <2>3, SubstitutionSound DEF IInv, TypeOK
  <2>5. /\ out \in game.active /\ Team[out] = side /\ Team[in] = side
        /\ in \notin game.active /\ in \notin game.participated
    BY <2>1 DEF CanSubstitute, MayLeave, MayEnter
  <2>6. SlotsKept
    BY <2>3, <2>5 DEF SlotsKept, Slots, Batters, Substituted, IInv, TypeOK, State
  <2>7. NobodyReturns
    BY <2>3, <2>5 DEF NobodyReturns, Substituted
  <2> QED BY <2>2, <2>3, <2>4, <2>6, <2>7 DEF Sound, IInv, TypeOK, Substituted
<1>15. CASE DefensiveAlignmentChanged
  <2> DEFINE side == FieldingSide(game)
  <2>1. PICK movers \in SUBSET {p \in game.active : Team[p] = side} :
          \E assign \in [movers -> Positions] :
            CanAlign(game, side, assign) /\ Enter(AfterAlignment(game, side, assign), 0, 0)
    BY <1>15 DEF DefensiveAlignmentChanged
  <2>2. PICK assign \in [movers -> Positions] :
          CanAlign(game, side, assign) /\ Enter(AfterAlignment(game, side, assign), 0, 0)
    BY <2>1
  <2>3. side \in Sides BY DEF FieldingSide, Other, Sides
  <2>4. game \in State /\ SoundLineup(game) /\ movers \in SUBSET Players
    BY DEF IInv, TypeOK, State
  <2> HIDE DEF side
  <2>5. game' = AfterAlignment(game, side, assign) /\ ledger' \in Int
    BY <2>2 DEF Enter, IInv, TypeOK
  <2>6. Aligned(game', game, side, assign)
    BY <2>3, <2>4, <2>5, AlignmentEffect
  <2>7. SoundLineup(game')
    BY <2>2, <2>3, <2>4, <2>6, AlignmentSound
  <2>8. SlotsKept /\ NobodyReturns
    BY <2>6 DEF SlotsKept, NobodyReturns, Slots, Batters, Aligned
  <2> QED BY <2>5, <2>6, <2>7, <2>8 DEF Sound, IInv, TypeOK, Aligned
<1>16. CASE PitchingChangeMade
  <2>1. PICK side \in Sides, in \in Players :
          /\ CanChangePitcher(game, side, in)
          /\ Enter(AfterPitchingChange(game, side, in), 0, 0)
    BY <1>16 DEF PitchingChangeMade
  <2>2. game \in State /\ SoundLineup(game) BY DEF IInv, TypeOK
  <2>3. game' = AfterPitchingChange(game, side, in) /\ ledger' \in Int
    BY <2>1 DEF Enter, IInv, TypeOK
  <2>4. Relieved(game', game, side, in)
    BY <2>2, <2>3, PitchingChangeEffect
  <2>5. SoundLineup(game')
    BY <2>1, <2>2, <2>4, PitchingChangeSound
  <2> DEFINE out == game.pitcher[side]
  <2>6. /\ out \in game.active /\ Team[out] = side /\ out \in Players
        /\ Team[in] = side /\ in # out
        /\ in \in game.active \/ in \notin game.participated
        /\ ~LeavesSlotEmpty(game, out, in)
    BY <2>1, <2>2 DEF CanChangePitcher, SoundLineup, Standing, State, Mounds
  <2>7. /\ game'.active = (IF Trades(game, in) THEN game.active
                            ELSE game.active \ {out}) \cup {in}
        /\ \A p \in Players : game'.order[p] =
              IF p = in /\ in \notin game.active THEN game.order[out] ELSE game.order[p]
    BY <2>4 DEF Relieved
  <2>8. game.active \subseteq Players BY <2>2 DEF State
  <2>9. NobodyReturns BY <2>6, <2>7 DEF NobodyReturns
  <2>10. in \in game.active => game.order[in] # 0 \/ game.position[in] # None
    BY <2>2 DEF SoundLineup, EverybodyPlays
  <2> HIDE DEF out
  <2>11. SlotsKept
    <3>1. CASE Trades(game, in)
      BY <2>7, <2>8, <3>1 DEF SlotsKept, Slots, Batters, Trades
    <3>2. CASE ~Trades(game, in) /\ in \in game.active
      <4>1. game.order[out] = 0
        BY <2>6, <2>10, <3>2 DEF LeavesSlotEmpty, Trades
      <4> QED BY <2>7, <2>8, <3>2, <4>1 DEF SlotsKept, Slots, Batters
    <3>3. CASE in \notin game.active
      BY <2>6, <2>7, <2>8, <3>3 DEF SlotsKept, Slots, Batters, Trades
    <3> QED BY <3>1, <3>2, <3>3 DEF Trades
  <2> QED BY <2>3, <2>4, <2>5, <2>9, <2>11 DEF Sound, IInv, TypeOK, Relieved
<1> QED BY <1>1, <1>2, <1>3, <1>4, <1>5, <1>6, <1>7, <1>8, <1>9, <1>10, <1>11,
           <1>12, <1>13, <1>14, <1>15, <1>16 DEF Next

-----------------------------------------------------------------------------
(* The kinds of step *)

\* A play, from the state s and the ledger l to t and m.
PlayOf(t, s, m, l, batter, to, counts) ==
    /\ Live(s) /\ Moves(s, batter, to, counts)
    /\ "BATTER" \in DOMAIN to => BatterAt(s, batter)
    /\ "BATTER" \notin DOMAIN to => batter = None
    /\ PassingRecorded \/ InOrder(s, to)
    /\ t = AfterPlay(s, batter, to, counts)
    /\ m = IF SameHalf(t, s)
           THEN l + (IF "BATTER" \in DOMAIN to THEN 1 ELSE 0) - Cardinality(Home(to))
           ELSE 0

\* Which status follows which without a play.
StatusSteps ==
    {<<"IN_PROGRESS", "SUSPENDED">>, <<"SUSPENDED", "IN_PROGRESS">>,
     <<"IN_PROGRESS", "COMPLETED">>, <<"COMPLETED", "VERIFIED">>, <<"CORRECTED", "VERIFIED">>,
     <<"VERIFIED", "CORRECTED">>, <<"READY", "CANCELLED">>, <<"IN_PROGRESS", "ABANDONED">>,
     <<"SUSPENDED", "ABANDONED">>, <<"COMPLETED", "ABANDONED">>, <<"CORRECTED", "ABANDONED">>}

LifecycleStep(t, s, m, l) ==
    \E status \in Statuses \ {"READY"} :
        <<s.status, status>> \in StatusSteps /\ t = [s EXCEPT !.status = status] /\ m = l
StartStep(t, s, m, l) ==
    s.status = "READY" /\ t = StartGame(s) /\ m = IF SameHalf(t, s) THEN l ELSE 0
PlayStep(t, s, m, l) == \E batter, to, counts : PlayOf(t, s, m, l, batter, to, counts)
SubstitutionStep(t, s, m, l) ==
    \E side \in Sides, out, in \in Players, pos \in Positions :
        CanSubstitute(s, side, out, in, pos) /\ t = AfterSubstitution(s, side, out, in, pos)
        /\ m = l
AlignmentStep(t, s, m, l) ==
    \E side \in Sides : \E movers \in SUBSET Players : \E assign \in [movers -> Positions] :
        CanAlign(s, side, assign) /\ t = AfterAlignment(s, side, assign) /\ m = l
PitchingStep(t, s, m, l) ==
    \E side \in Sides, in \in Players :
        CanChangePitcher(s, side, in) /\ t = AfterPitchingChange(s, side, in) /\ m = l

LEMMA LifecycleKind ==
  ASSUME IInv, NEW status \in Statuses \ {"READY"}, <<game.status, status>> \in StatusSteps,
         Enter([game EXCEPT !.status = status], 0, 0)
  PROVE  LifecycleStep(game', game, ledger', ledger)
<1>1. SameHalf([game EXCEPT !.status = status], game) BY DEF SameHalf, IInv, TypeOK, State
<1>2. game' = [game EXCEPT !.status = status] /\ ledger' = ledger + 0 - 0
  BY <1>1 DEF Enter
<1>3. ledger' = ledger BY <1>2 DEF IInv, TypeOK
<1> QED BY <1>2, <1>3 DEF LifecycleStep

\* A runner play is a play without a batter.
LEMMA RunnerPlayKind ==
  ASSUME IInv, NEW to, DOMAIN to \subseteq Occupied(game), \A o \in DOMAIN to : to[o] \in Destinations,
         NEW counts, NEW thirdForce \in BOOLEAN,
         CanMoveRunners(game, to, counts, thirdForce),
         PassingRecorded \/ InOrder(game, to),
         Enter(AfterRunnerPlay(game, to, counts), 0, Cardinality(Home(to)))
  PROVE  PlayStep(game', game, ledger', ledger)
<1>1. "BATTER" \notin DOMAIN to BY DEF Occupied, Bases
<1>2. Moves(game, None, to, counts)
  BY <1>1 DEF Moves, CanMoveRunners
<1>3. game' = AfterPlay(game, None, to, counts)
  BY <1>1 DEF Enter, AfterPlay
<1>4. ledger' = IF SameHalf(game', game) THEN ledger + 0 - Cardinality(Home(to)) ELSE 0
  BY DEF Enter
<1>5. Live(game) BY DEF CanMoveRunners
<1>6. PlayOf(game', game, ledger', ledger, None, to, counts)
  BY <1>1, <1>2, <1>3, <1>4, <1>5 DEF PlayOf
<1> QED BY <1>6 DEF PlayStep

LEMMA DestinationsOfOutcomes ==
  ASSUME NEW outcome \in DOMAIN BatterDestination
  PROVE  BatterDestination[outcome] \in Destinations
BY DEF BatterDestination, Destinations, Bases

LEMMA SubmittedMovements ==
  ASSUME NEW s, NEW to \in Movements(s)
  PROVE  DOMAIN to \subseteq Occupied(s) /\ \A o \in DOMAIN to : to[o] \in Destinations
BY DEF Movements, RunnerMovements

LEMMA LabelsBoolean ==
  ASSUME NEW s, NEW to
  PROVE  ThirdOutLabels(s, to) \subseteq BOOLEAN
BY DEF ThirdOutLabels

LEMMA ScoredInOrder ==
  ASSUME NEW s, NEW to, PassingRecorded \/ ScoresInOrder(s, to)
  PROVE  PassingRecorded \/ InOrder(s, to)
BY DEF ScoresInOrder, InOrder

LEMMA StepKinds ==
  ASSUME IInv, Next
  PROVE  \/ LifecycleStep(game', game, ledger', ledger)
         \/ StartStep(game', game, ledger', ledger)
         \/ PlayStep(game', game, ledger', ledger)
         \/ SubstitutionStep(game', game, ledger', ledger)
         \/ AlignmentStep(game', game, ledger', ledger)
         \/ PitchingStep(game', game, ledger', ledger)
<1> USE DEF Statuses
<1>0. game \in State /\ ledger \in Int BY DEF IInv, TypeOK
<1>1. CASE GameStarted
  <2>1. /\ game.status = "READY" /\ game' = StartGame(game)
        /\ ledger' = IF SameHalf(game', game) THEN ledger + 0 - 0 ELSE 0
    BY <1>1 DEF GameStarted, Enter
  <2>2. ledger' = IF SameHalf(game', game) THEN ledger ELSE 0 BY <1>0, <2>1
  <2> QED BY <2>1, <2>2 DEF StartStep
<1>2. CASE GameSuspended BY <1>2, LifecycleKind DEF GameSuspended, StatusSteps, Live
<1>3. CASE GameResumed   BY <1>3, LifecycleKind DEF GameResumed, StatusSteps, CanResume
<1>4. CASE GameCompleted BY <1>4, LifecycleKind DEF GameCompleted, StatusSteps, CanComplete, Live
<1>5. CASE GameVerified  BY <1>5, LifecycleKind DEF GameVerified, StatusSteps, CanVerify
<1>6. CASE GameReopened  BY <1>6, LifecycleKind DEF GameReopened, StatusSteps
<1>7. CASE GameAbandoned BY <1>7, LifecycleKind DEF GameAbandoned, StatusSteps, CanAbandon
<1>8. CASE GameCancelled BY <1>8, LifecycleKind DEF GameCancelled, StatusSteps
<1>9. CASE PlateAppearanceRecorded
  <2>1. PICK batter \in {p \in Players : BatterAt(game, p)},
             outcome \in Outcomes, runners \in Movements(game) :
          LET to == WithBatter(runners, BatterDestination[outcome])
          IN  \E counts \in SUBSET Home(to), thirdForce \in ThirdOutLabels(game, to) :
                /\ CanRecordPlateAppearance(game, batter, outcome, to, counts, thirdForce)
                /\ PassingRecorded \/ ScoresInOrder(game, to)
                /\ Enter(AfterPlateAppearance(game, batter, to, counts),
                         1, Cardinality(Home(to)))
    BY <1>9 DEF PlateAppearanceRecorded
  <2> DEFINE to == WithBatter(runners, BatterDestination[outcome])
  <2>2. PICK counts \in SUBSET Home(to), thirdForce \in ThirdOutLabels(game, to) :
          /\ CanRecordPlateAppearance(game, batter, outcome, to, counts, thirdForce)
          /\ PassingRecorded \/ ScoresInOrder(game, to)
          /\ Enter(AfterPlateAppearance(game, batter, to, counts),
                   1, Cardinality(Home(to)))
    BY <2>1
  <2>3. /\ DOMAIN to \subseteq Occupied(game) \cup {"BATTER"} /\ "BATTER" \in DOMAIN to
        /\ \A o \in DOMAIN to : to[o] \in Destinations
    <3>1. outcome \in DOMAIN BatterDestination BY SubmissionAssumption
    <3>2. BatterDestination[outcome] \in Destinations BY <3>1, DestinationsOfOutcomes
    <3>3. /\ DOMAIN runners \subseteq Occupied(game)
          /\ \A o \in DOMAIN runners : runners[o] \in Destinations
      BY SubmittedMovements
    <3> QED BY <3>2, <3>3 DEF WithBatter
  <2> HIDE DEF to
  <2>4. Moves(game, batter, to, counts)
    <3>1. thirdForce \in BOOLEAN BY LabelsBoolean
    <3> QED BY <2>2, <2>3, <3>1 DEF Moves, CanRecordPlateAppearance
  <2>5. Live(game) /\ BatterAt(game, batter) BY <2>2 DEF CanRecordPlateAppearance
  <2>6. game' = AfterPlay(game, batter, to, counts) BY <2>2, <2>3 DEF Enter, AfterPlay
  <2>7. ledger' = IF SameHalf(game', game) THEN ledger + 1 - Cardinality(Home(to)) ELSE 0
    BY <2>2 DEF Enter
  <2>8. PassingRecorded \/ InOrder(game, to) BY <2>2, ScoredInOrder
  <2>9. PlayOf(game', game, ledger', ledger, batter, to, counts)
    BY <2>3, <2>4, <2>5, <2>6, <2>7, <2>8 DEF PlayOf
  <2> QED BY <2>9 DEF PlayStep
<1>10. CASE RunnerPlayRecorded
  <2>1. PICK playType \in PlayTypes, to \in Movements(game) :
          \E counts \in SUBSET Home(to), thirdForce \in ThirdOutLabels(game, to) :
            /\ CanRecordRunnerPlay(game, playType, to, counts, thirdForce)
            /\ PassingRecorded \/ ScoresInOrder(game, to)
            /\ Enter(AfterRunnerPlay(game, to, counts), 0, Cardinality(Home(to)))
    BY <1>10 DEF RunnerPlayRecorded
  <2>2. PICK counts \in SUBSET Home(to), thirdForce \in ThirdOutLabels(game, to) :
            /\ CanRecordRunnerPlay(game, playType, to, counts, thirdForce)
            /\ PassingRecorded \/ ScoresInOrder(game, to)
            /\ Enter(AfterRunnerPlay(game, to, counts), 0, Cardinality(Home(to)))
    BY <2>1
  <2>3. thirdForce \in BOOLEAN BY LabelsBoolean
  <2>4. PassingRecorded \/ InOrder(game, to) BY <2>2, ScoredInOrder
  <2>5. /\ CanMoveRunners(game, to, counts, thirdForce)
        /\ DOMAIN to \subseteq Occupied(game) /\ \A o \in DOMAIN to : to[o] \in Destinations
    BY <2>2, SubmittedMovements DEF CanRecordRunnerPlay
  <2> QED BY <2>2, <2>3, <2>4, <2>5, RunnerPlayKind
<1>11. CASE RunnerAdvanceRecorded
  <2>1. PICK origin \in Occupied(game), goal \in Destinations \ {"OUT"} :
          LET to == [o \in {origin} |-> goal]
          IN  \E counts \in SUBSET Home(to) :
                /\ CanMoveRunners(game, to, counts, FALSE)
                /\ PassingRecorded \/ ScoresInOrder(game, to)
                /\ Enter(AfterRunnerPlay(game, to, counts), 0, Cardinality(Home(to)))
    BY <1>11 DEF RunnerAdvanceRecorded
  <2> DEFINE to == [o \in {origin} |-> goal]
  <2>2. DOMAIN to \subseteq Occupied(game) /\ \A o \in DOMAIN to : to[o] \in Destinations
    OBVIOUS
  <2>3. PICK counts \in SUBSET Home(to) :
                /\ CanMoveRunners(game, to, counts, FALSE)
                /\ PassingRecorded \/ ScoresInOrder(game, to)
                /\ Enter(AfterRunnerPlay(game, to, counts), 0, Cardinality(Home(to)))
    BY <2>1
  <2> HIDE DEF to
  <2>4. PassingRecorded \/ InOrder(game, to) BY <2>3, ScoredInOrder
  <2> QED BY <2>2, <2>3, <2>4, RunnerPlayKind
<1>12. CASE RunnerOutRecorded
  <2>1. PICK origin \in Occupied(game), force \in BOOLEAN :
          LET to == [o \in {origin} |-> "OUT"]
          IN  /\ CanMoveRunners(game, to, {}, force)
              /\ Enter(AfterRunnerPlay(game, to, {}), 0, 0)
    BY <1>12 DEF RunnerOutRecorded
  <2> DEFINE to == [o \in {origin} |-> "OUT"]
  <2>2. DOMAIN to \subseteq Occupied(game) /\ \A o \in DOMAIN to : to[o] \in Destinations
    BY DEF Destinations
  <2>3. Cardinality(Home(to)) = 0 /\ InOrder(game, to)
    <3>1. Home(to) = {} BY DEF Home
    <3> QED BY <3>1, FS_EmptySet DEF InOrder
  <2>4. CanMoveRunners(game, to, {}, force) /\ Enter(AfterRunnerPlay(game, to, {}), 0, 0)
    BY <2>1
  <2> HIDE DEF to
  <2> QED BY <2>2, <2>3, <2>4, RunnerPlayKind
<1>13. CASE StolenBaseAttemptRecorded
  <2>1. PICK origin \in Occupied(game), goal \in {"SECOND", "THIRD", "HOME", "OUT"} :
          LET to == [o \in {origin} |-> goal]
          IN  /\ CanMoveRunners(game, to, Home(to), FALSE)
              /\ PassingRecorded \/ ScoresInOrder(game, to)
              /\ Enter(AfterRunnerPlay(game, to, Home(to)), 0, Cardinality(Home(to)))
    BY <1>13 DEF StolenBaseAttemptRecorded
  <2> DEFINE to == [o \in {origin} |-> goal]
  <2>2. DOMAIN to \subseteq Occupied(game) /\ \A o \in DOMAIN to : to[o] \in Destinations
    BY DEF Destinations, Bases
  <2>3. /\ CanMoveRunners(game, to, Home(to), FALSE)
        /\ PassingRecorded \/ ScoresInOrder(game, to)
        /\ Enter(AfterRunnerPlay(game, to, Home(to)), 0, Cardinality(Home(to)))
    BY <2>1
  <2> HIDE DEF to
  <2>4. PassingRecorded \/ InOrder(game, to) BY <2>3, ScoredInOrder
  <2> QED BY <2>2, <2>3, <2>4, RunnerPlayKind
<1>14. CASE DefensiveSubstitutionMade
  <2>1. PICK side \in Sides, out \in Players, in \in Players, pos \in Positions :
          /\ CanSubstitute(game, side, out, in, pos)
          /\ Enter(AfterSubstitution(game, side, out, in, pos), 0, 0)
    BY <1>14 DEF DefensiveSubstitutionMade
  <2>2. in # out BY <2>1 DEF CanSubstitute, MayLeave, MayEnter
  <2>3. Clock(AfterSubstitution(game, side, out, in, pos)) = Clock(game)
    BY <1>0, <2>2, SubstitutionReplaces DEF Replaced
  <2>4. game' = AfterSubstitution(game, side, out, in, pos) /\ ledger' = ledger + 0 - 0
    BY <2>1, <2>3 DEF Enter, SameHalf, Clock
  <2>5. ledger' = ledger BY <1>0, <2>4
  <2> QED BY <2>1, <2>4, <2>5 DEF SubstitutionStep
<1>15. CASE DefensiveAlignmentChanged
  <2> DEFINE side == FieldingSide(game)
  <2>1. PICK movers \in SUBSET {p \in game.active : Team[p] = side} :
          \E assign \in [movers -> Positions] :
            CanAlign(game, side, assign) /\ Enter(AfterAlignment(game, side, assign), 0, 0)
    BY <1>15 DEF DefensiveAlignmentChanged
  <2>2. PICK assign \in [movers -> Positions] :
          CanAlign(game, side, assign) /\ Enter(AfterAlignment(game, side, assign), 0, 0)
    BY <2>1
  <2>3. side \in Sides BY DEF FieldingSide, Other, Sides
  <2>4. movers \in SUBSET Players BY <1>0 DEF State
  <2> HIDE DEF side
  <2>5. Clock(AfterAlignment(game, side, assign)) = Clock(game)
    BY <1>0, AlignmentLeaves
  <2>6. game' = AfterAlignment(game, side, assign) /\ ledger' = ledger + 0 - 0
    BY <2>2, <2>5 DEF Enter, SameHalf, Clock
  <2>7. ledger' = ledger BY <1>0, <2>6
  <2> QED BY <2>2, <2>3, <2>4, <2>6, <2>7 DEF AlignmentStep
<1>16. CASE PitchingChangeMade
  <2>1. PICK side \in Sides, in \in Players :
          /\ CanChangePitcher(game, side, in)
          /\ Enter(AfterPitchingChange(game, side, in), 0, 0)
    BY <1>16 DEF PitchingChangeMade
  <2>2. Clock(AfterPitchingChange(game, side, in)) = Clock(game)
    BY <1>0, PitchingChangeLeaves
  <2>3. game' = AfterPitchingChange(game, side, in) /\ ledger' = ledger + 0 - 0
    BY <2>1, <2>2 DEF Enter, SameHalf, Clock
  <2>4. ledger' = ledger BY <1>0, <2>3
  <2> QED BY <2>1, <2>3, <2>4 DEF PitchingStep
<1> QED BY <1>1, <1>2, <1>3, <1>4, <1>5, <1>6, <1>7, <1>8, <1>9, <1>10, <1>11,
           <1>12, <1>13, <1>14, <1>15, <1>16 DEF Next

\* Nothing but the status changes outside live play, and a closed game only moves on
\* along the review statuses.
LEMMA StepOutsidePlay ==
  ASSUME IInv, Next
  PROVE  /\ game.status # "IN_PROGRESS" => Situation(game') = Situation(game)
         /\ game.status \in {"COMPLETED", "VERIFIED", "CORRECTED", "ABANDONED"}
              => ~Live(game') /\ game'.status # "SUSPENDED"
         /\ game.status = "VERIFIED" => game'.status = "CORRECTED"
<1>0. game \in State BY DEF IInv, TypeOK
<1>1. CASE LifecycleStep(game', game, ledger', ledger)
  <2>1. PICK status \in Statuses \ {"READY"} :
          <<game.status, status>> \in StatusSteps /\ game' = [game EXCEPT !.status = status]
    BY <1>1 DEF LifecycleStep
  <2>2. game'.status = status /\ Situation(game') = Situation(game)
    BY <1>0, <2>1 DEF State, Situation
  <2>3. /\ game.status \in {"COMPLETED", "VERIFIED", "CORRECTED", "ABANDONED"}
             => status \in {"VERIFIED", "CORRECTED", "ABANDONED"}
        /\ game.status = "VERIFIED" => status = "CORRECTED"
    BY <2>1 DEF StatusSteps
  <2> QED BY <2>2, <2>3 DEF Live
<1>2. CASE StartStep(game', game, ledger', ledger)
  <2>1. game.status = "READY" /\ game' = StartGame(game) BY <1>2 DEF StartStep
  <2>2. Situation(game') = Situation(game) BY <1>0, <2>1 DEF StartGame, State, Situation
  <2> QED BY <2>1, <2>2
<1>3. CASE PlayStep(game', game, ledger', ledger)
  BY <1>3 DEF PlayStep, PlayOf, Live
<1>4. CASE SubstitutionStep(game', game, ledger', ledger)
  BY <1>4 DEF SubstitutionStep, CanSubstitute, Live
<1>5. CASE AlignmentStep(game', game, ledger', ledger)
  BY <1>5 DEF AlignmentStep, CanAlign, Live
<1>6. CASE PitchingStep(game', game, ledger', ledger)
  BY <1>6 DEF PitchingStep, CanChangePitcher, Live
<1> QED BY <1>1, <1>2, <1>3, <1>4, <1>5, <1>6, StepKinds

-----------------------------------------------------------------------------
(* The box score proves *)

\* What keeps the box score: every batter who came up and did not score is out or
\* on base, whatever the status, and a game that has not begun has nobody on.
BalancedAt(s, l) ==
    /\ l = s.outs + Cardinality(Occupied(s))
    /\ s.status = "READY" => s.outs = 0 /\ Occupied(s) = {}

LEMMA PlayKeepsBalance ==
  ASSUME NEW s \in State, NEW t, NEW l \in Int, NEW m, PlayStep(t, s, m, l), BalancedAt(s, l)
  PROVE  BalancedAt(t, m)
<1>1. PICK batter, to, counts : PlayOf(t, s, m, l, batter, to, counts)
  BY DEF PlayStep
<1> DEFINE pa == IF "BATTER" \in DOMAIN to THEN 1 ELSE 0
           outs == Cardinality(Outs(to))
           crossed == Cardinality(Home(to))
<1>2. /\ Moves(s, batter, to, counts) /\ t = AfterPlay(s, batter, to, counts) /\ Live(s)
      /\ m = IF SameHalf(t, s) THEN l + pa - crossed ELSE 0
  BY <1>1 DEF PlayOf
<1>3. Played(t, s, batter, to)
  BY <1>1, PlayEffect DEF PlayOf, BatterAt
<1>4. t.status # "READY" BY <1>2, <1>3 DEF Played, Live
<1>5. /\ outs \in Nat /\ crossed \in Nat /\ Cardinality(Occupied(s)) \in Nat
      /\ Cardinality(Occupied(AfterMovements(s, batter, to, counts)))
           = Cardinality(Occupied(s)) + pa - outs - crossed
  BY <1>2, PlayKeepsCount
<1>6. CASE s.outs + outs < 3
  <2>1. /\ t.outs = s.outs + outs /\ t.bases = BasesAfter(s, batter, to)
        /\ SameHalf(t, s)
    BY <1>3, <1>6 DEF Played, SameHalf
  <2>2. AfterMovements(s, batter, to, counts).bases = BasesAfter(s, batter, to)
    BY DEF AfterMovements, State
  <2>3. Occupied(t) = Occupied(AfterMovements(s, batter, to, counts))
    BY <2>1, <2>2 DEF Occupied
  <2>4. m = l + pa - crossed BY <1>2, <2>1
  <2>5. s.outs \in Nat BY DEF State, OutCounts
  <2>6. l = s.outs + Cardinality(Occupied(s)) BY DEF BalancedAt
  <2> HIDE DEF pa, outs, crossed
  <2>7. m = t.outs + Cardinality(Occupied(t))
    <3>1. pa \in Int BY DEF pa
    <3> QED BY <1>5, <2>1, <2>3, <2>4, <2>5, <2>6, <3>1
  <2> QED BY <1>4, <2>7 DEF BalancedAt
<1>7. CASE s.outs + outs = 3
  <2>1. t.outs = 0 /\ t.bases = [b \in Bases |-> None] /\ ~SameHalf(t, s)
    BY <1>3, <1>7 DEF Played, SameHalf
  <2>2. Occupied(t) = {} BY <2>1 DEF Occupied
  <2> QED BY <1>2, <1>4, <2>1, <2>2, FS_EmptySet DEF BalancedAt
<1> QED BY <1>3, <1>6, <1>7 DEF Played

\* A substitution puts the new runner on the base of the old one.
LEMMA ReplacedOccupied ==
  ASSUME NEW s \in State, NEW t, NEW out \in Players, NEW in \in Players, Replaced(t, s, out, in)
  PROVE  Occupied(t) = Occupied(s)
<1>1. in # None /\ out # None BY LineupAssumption
<1> DEFINE held == {b \in Bases : s.bases[b] = out}
<1>2. CASE held = {} BY <1>2 DEF Replaced, Occupied
<1>3. CASE held # {}
  <2>1. PICK base \in held : t.bases = [s.bases EXCEPT ![base] = in] BY <1>3 DEF Replaced
  <2> QED BY <1>1, <2>1 DEF Occupied, State, Diamonds
<1> QED BY <1>2, <1>3

LEMMA StepKeepsBalance ==
  ASSUME IInv, BalancedAt(game, ledger), Next
  PROVE  BalancedAt(game', ledger')
<1>0. game \in State /\ ledger \in Int BY DEF IInv, TypeOK
<1>1. CASE LifecycleStep(game', game, ledger', ledger)
  <2>1. PICK status \in Statuses \ {"READY"} :
          game' = [game EXCEPT !.status = status] /\ ledger' = ledger
    BY <1>1 DEF LifecycleStep
  <2>2. /\ game'.status = status /\ game'.outs = game.outs /\ game'.bases = game.bases
    BY <1>0, <2>1 DEF State
  <2> QED BY <2>1, <2>2 DEF BalancedAt, Occupied
<1>2. CASE StartStep(game', game, ledger', ledger)
  <2>1. /\ game'.status = "IN_PROGRESS" /\ game'.outs = game.outs /\ game'.bases = game.bases
        /\ game.status = "READY"
    BY <1>0, <1>2 DEF StartStep, StartGame, State
  <2>2. ledger' = 0 /\ ledger = 0
    BY <1>2, <2>1, FS_EmptySet DEF StartStep, BalancedAt
  <2>3. Occupied(game') = Occupied(game) BY <2>1 DEF Occupied
  <2> QED BY <2>1, <2>2, <2>3 DEF BalancedAt
<1>3. CASE PlayStep(game', game, ledger', ledger) BY <1>0, <1>3, PlayKeepsBalance
<1>4. CASE SubstitutionStep(game', game, ledger', ledger)
  <2>1. PICK side \in Sides, out \in Players, in \in Players, pos \in Positions :
          CanSubstitute(game, side, out, in, pos)
          /\ game' = AfterSubstitution(game, side, out, in, pos) /\ ledger' = ledger
    BY <1>4 DEF SubstitutionStep
  <2>2. Replaced(game', game, out, in)
    BY <1>0, <2>1, SubstitutionReplaces DEF CanSubstitute, MayLeave, MayEnter
  <2>3. game'.status = game.status /\ game'.outs = game.outs
    BY <2>2 DEF Replaced, Clock
  <2>4. Occupied(game') = Occupied(game) BY <1>0, <2>2, ReplacedOccupied
  <2> QED BY <2>1, <2>3, <2>4 DEF BalancedAt
<1>5. CASE AlignmentStep(game', game, ledger', ledger)
  <2>1. PICK side \in Sides, movers \in SUBSET Players :
          \E assign \in [movers -> Positions] :
            game' = AfterAlignment(game, side, assign) /\ ledger' = ledger
    BY <1>5 DEF AlignmentStep
  <2>2. Clock(game') = Clock(game) /\ game'.bases = game.bases /\ ledger' = ledger
    BY <1>0, <2>1, AlignmentLeaves
  <2> QED BY <2>2 DEF Clock, Occupied, BalancedAt
<1>6. CASE PitchingStep(game', game, ledger', ledger)
  <2>1. PICK side \in Sides, in \in Players :
          game' = AfterPitchingChange(game, side, in) /\ ledger' = ledger
    BY <1>6 DEF PitchingStep
  <2>2. Clock(game') = Clock(game) /\ game'.bases = game.bases
    BY <1>0, <2>1, PitchingChangeLeaves
  <2> QED BY <2>1, <2>2 DEF Clock, Occupied, BalancedAt
<1> QED BY <1>1, <1>2, <1>3, <1>4, <1>5, <1>6, StepKinds

-----------------------------------------------------------------------------
(* Runners are sound *)

\* Assumptions of the two theorems on runners: both orders have at least six places
\* (with four, a runner's turn comes round while he is on base), and nobody scores
\* past a runner who stays on base, which the reducer itself does not refuse.
SixInEachOrder ==
    \A setup \in Setups : ValidSetup(setup) =>
        \A side \in Sides :
            Cardinality({p \in Players : Team[p] = side /\ setup.order[p] # 0}) >= 6

LEMMA InitialRunners ==
  ASSUME SixInEachOrder, NEW setup \in Setups, ValidSetup(setup)
  PROVE  SoundRunners(InitialState(setup))
<1> DEFINE s == InitialState(setup)
<1>0. s \in State BY InitialSound
<1>1. /\ s.bases = [b \in Bases |-> None] /\ s.resp = [p \in Players |-> None]
      /\ s.active = InitiallyActive(setup) /\ s.participated = InitiallyActive(setup)
      /\ s.order = setup.order /\ s.cursor = [d \in Sides |-> 0]
  BY DEF InitialState
<1> HIDE DEF s
<1>2. Occupied(s) = {} /\ \A p \in Players : s.resp[p] = None BY <1>1 DEF Occupied
<1>3. ASSUME NEW side \in Sides
      PROVE  /\ Slots(s, side) = 1 .. Turns(s, side)
             /\ Turns(s, side) \in Nat /\ Turns(s, side) >= 6
  <2> DEFINE batters == Batters(s, side)
             n == Cardinality(batters)
             f == [p \in batters |-> s.order[p]]
  <2>1. /\ batters = {p \in {q \in InitiallyActive(setup) : Team[q] = side} : setup.order[p] # 0}
        /\ batters = {p \in Players : Team[p] = side /\ setup.order[p] # 0}
    BY <1>1 DEF Batters, InitiallyActive
  <2>2. ValidSide(setup, side) BY DEF ValidSetup
  <2>3. /\ \A p, q \in batters : setup.order[p] = setup.order[q] => p = q
        /\ \A p \in batters : setup.order[p] <= n
    BY <2>1, <2>2 DEF ValidSide
  <2>4. n >= 6 BY <2>1 DEF SixInEachOrder
  <2>5. IsFiniteSet(batters) /\ n \in Nat /\ \A p \in batters : s.order[p] \in Nat
    BY <1>0, BattersFinite, FS_CardinalityType
  <2>6. \A p \in batters : s.order[p] \in 1 .. n
    BY <1>1, <2>1, <2>3, <2>5
  <2>7. f \in Injection(batters, 1 .. n)
    BY <1>1, <2>3, <2>6 DEF Injection, IsInjective
  <2>8. IsFiniteSet(1 .. n) /\ Cardinality(1 .. n) = n
    <3> HIDE DEF n
    <3>1. Cardinality(1 .. n) = IF 1 > n THEN 0 ELSE n - 1 + 1 BY <2>5, FS_Interval
    <3>2. IsFiniteSet(1 .. n) BY <2>5, FS_Interval
    <3> QED BY <2>4, <2>5, <3>1, <3>2
  <2>9. f \in Surjection(batters, 1 .. n)
    <3> HIDE DEF f, batters
    <3> QED BY <2>5, <2>7, <2>8, FS_Injection
  <2>10. Slots(s, side) = 1 .. n
    BY <2>6, <2>9 DEF Slots, Surjection
  <2>11. Turns(s, side) = n BY <2>8, <2>10 DEF Turns
  <2> QED BY <2>4, <2>5, <2>10, <2>11
<1>4. FullOrders(s)
  BY <1>1, <1>3 DEF FullOrders
<1> QED BY <1>1, <1>2, <1>4
        DEF SoundRunners, OneBase, RunnersCharged, ChargedAcross, BattedBehind, s

LEMMA StepKeepsRunners ==
  ASSUME ~PassingRecorded, IInv, SoundRunners(game), Next
  PROVE  SoundRunners(game')
<1>0. game \in State /\ SoundLineup(game) /\ game' \in State BY NextSound DEF IInv, TypeOK, Sound
<1>1. CASE LifecycleStep(game', game, ledger', ledger)
  <2>1. PICK status \in Statuses \ {"READY"} : game' = [game EXCEPT !.status = status]
    BY <1>1 DEF LifecycleStep
  <2>2. /\ game'.status = status /\ game'.outs = game.outs /\ game'.bases = game.bases
        /\ game'.half = game.half /\ game'.cursor = game.cursor /\ game'.active = game.active
        /\ game'.order = game.order /\ game'.participated = game.participated
        /\ game'.resp = game.resp
    BY <1>0, <2>1 DEF State
  <2>3. /\ Occupied(game') = Occupied(game) /\ Runners(game') = Runners(game)
        /\ BattingSide(game') = BattingSide(game) /\ FieldingSide(game') = FieldingSide(game)
    BY <2>2 DEF Occupied, Runners, BattingSide, FieldingSide
  <2>4. \A side \in Sides : Batters(game', side) = Batters(game, side) BY <2>2 DEF Batters
  <2>5. \A side \in Sides : Slots(game', side) = Slots(game, side) BY <2>2, <2>4 DEF Slots
  <2>6. \A side \in Sides : Turns(game', side) = Turns(game, side) BY <2>5 DEF Turns
  <2>7. BattingSide(game) \in Sides BY DEF BattingSide, Sides
  <2>8. FullOrders(game') BY <2>2, <2>5, <2>6 DEF SoundRunners, FullOrders
  <2>9. OneBase(game') /\ RunnersCharged(game') /\ ChargedAcross(game')
    BY <2>2, <2>3, <2>4, <2>7 DEF SoundRunners, OneBase, RunnersCharged, ChargedAcross
  <2>10. BattedBehind(game')
    BY <2>2, <2>3, <2>6, <2>7 DEF SoundRunners, BattedBehind, TurnOf
  <2> QED BY <2>2, <2>3, <2>8, <2>9, <2>10 DEF SoundRunners
<1>2. CASE StartStep(game', game, ledger', ledger)
  <2>1. /\ game.status = "READY" /\ game' = StartGame(game)
    BY <1>2 DEF StartStep
  <2>2. /\ game'.outs = game.outs /\ game'.bases = game.bases
        /\ game'.cursor = game.cursor /\ game'.active = game.active
        /\ game'.order = game.order /\ game'.participated = game.participated
        /\ game'.resp = game.resp
    BY <1>0, <2>1 DEF StartGame, State
  <2>3. Occupied(game) = {} BY <2>1 DEF SoundRunners
  <2>4. Occupied(game') = {} BY <2>2, <2>3 DEF Occupied
  <2>5. \A p \in Players : game'.resp[p] = None
    BY <2>2, <2>3 DEF SoundRunners, ChargedAcross, Runners
  <2>6. FullOrders(game') /\ game'.active \subseteq game'.participated
    <3>1. \A side \in Sides : Batters(game', side) = Batters(game, side) BY <2>2 DEF Batters
    <3>2. \A side \in Sides : Slots(game', side) = Slots(game, side) BY <2>2, <3>1 DEF Slots
    <3>3. \A side \in Sides : Turns(game', side) = Turns(game, side) BY <3>2 DEF Turns
    <3> QED BY <2>2, <3>2, <3>3 DEF SoundRunners, FullOrders
  <2> QED BY <2>4, <2>5, <2>6
          DEF SoundRunners, OneBase, RunnersCharged, ChargedAcross, BattedBehind
<1>3. CASE PlayStep(game', game, ledger', ledger)
  <2>1. PICK batter, to, counts : PlayOf(game', game, ledger', ledger, batter, to, counts)
    BY <1>3 DEF PlayStep
  <2>2. /\ Moves(game, batter, to, counts) /\ game' = AfterPlay(game, batter, to, counts)
        /\ Live(game) /\ InOrder(game, to)
        /\ "BATTER" \in DOMAIN to => BatterAt(game, batter)
        /\ "BATTER" \notin DOMAIN to => batter = None
    BY <2>1 DEF PlayOf
  <2>3. Played(game', game, batter, to)
    BY <1>0, <2>2, PlayEffect DEF BatterAt
  <2>4. FullOrders(game') BY <1>0, <2>3, TurnsAfterPlay DEF SoundRunners
  <2>5. game'.active \subseteq game'.participated /\ game'.status # "READY"
    BY <2>2, <2>3 DEF Played, Lineup, Live, SoundRunners
  <2>6. CASE game.outs + Cardinality(Outs(to)) < 3
    <3>1. OneBase(game') /\ RunnersCharged(game') /\ ChargedAcross(game') /\ BattedBehind(game')
      BY <1>0, <2>2, <2>3, <2>6, PlayKeepsRunners
    <3> QED BY <2>4, <2>5, <3>1 DEF SoundRunners
  <2>7. CASE game.outs + Cardinality(Outs(to)) = 3
    <3>1. game'.bases = [b \in Bases |-> None] /\ game'.resp = [p \in Players |-> None]
      BY <2>3, <2>7 DEF Played
    <3>2. Occupied(game') = {} /\ \A p \in Players : game'.resp[p] = None
      BY <3>1 DEF Occupied
    <3> QED BY <2>4, <2>5, <3>2
            DEF SoundRunners, OneBase, RunnersCharged, ChargedAcross, BattedBehind
  <2> QED BY <2>3, <2>6, <2>7 DEF Played
<1>4. CASE SubstitutionStep(game', game, ledger', ledger)
  BY <1>0, <1>4, SubstitutionKeepsRunners DEF SubstitutionStep
<1>5. CASE AlignmentStep(game', game, ledger', ledger)
  BY <1>0, <1>5, AlignmentKeepsRunners DEF AlignmentStep
<1>6. CASE PitchingStep(game', game, ledger', ledger)
  <2>1. \A side \in Sides : Slots(game', side) = Slots(game, side)
    BY NextSound DEF Sound, SlotsKept
  <2> QED BY <1>0, <1>6, <2>1, PitchingChangeKeepsRunners DEF PitchingStep
<1> QED BY <1>1, <1>2, <1>3, <1>4, <1>5, <1>6, StepKinds

\* With sound runners, somebody is due up and can be struck out.
LEMMA StrikeoutPossible ==
  ASSUME NEW s \in State, SoundLineup(s), SoundRunners(s), Live(s)
  PROVE  \E p \in Players :
            CanRecordPlateAppearance(s, p, "STRIKEOUT_SWINGING", [o \in {"BATTER"} |-> "OUT"], {}, FALSE)
<1> DEFINE side == BattingSide(s)
           to   == [o \in {"BATTER"} |-> "OUT"]
<1>1. side \in Sides BY DEF BattingSide, Sides
<1>2. /\ Slots(s, side) = 1 .. Turns(s, side) /\ Turns(s, side) \in Nat
      /\ s.cursor[side] \in Nat /\ s.cursor[side] < Turns(s, side)
  BY <1>1 DEF SoundRunners, FullOrders
<1>3. s.cursor[side] + 1 \in Slots(s, side) BY <1>2
<1>4. PICK p \in Batters(s, side) : s.cursor[side] + 1 = s.order[p] BY <1>3 DEF Slots
<1>5. BatterAt(s, p) /\ p \in Players
  BY <1>1, <1>4, DueUp, BattersFinite DEF SoundLineup, SoundRunners
<1>6. p \notin Runners(s) BY <1>5, RunnerNotDueUp DEF Runners
<1> HIDE DEF side
<1>7. Outs(to) = {"BATTER"} /\ Home(to) = {} /\ Safe(to) = {} /\ DOMAIN to = {"BATTER"}
  BY DEF Outs, Home, Safe, Bases
<1>8. to["BATTER"] = "OUT" OBVIOUS
<1> HIDE DEF to
<1>9. Cardinality(Outs(to)) = 1 BY <1>7, FS_Singleton
<1>10. BasesAfter(s, p, to) = s.bases
  <2>1. BasesAfter(s, p, to) = [b \in Bases |-> s.bases[b]]
    BY <1>7 DEF BasesAfter, LeftBehind, Bases
  <2> QED BY <2>1 DEF State, Diamonds
<1>11. NobodyPassed(s, p, to)
  <2> DEFINE start(r) == IF "BATTER" \in DOMAIN to /\ r = p THEN 0 ELSE RankOn(s.bases, r)
             known == Runners(s) \cup (IF "BATTER" \in DOMAIN to THEN {p} ELSE {})
             left  == {r \in known : \E b \in Bases : s.bases[b] = r}
  <2>1. \A r \in left : r # p
    BY <1>5, <1>6, LineupAssumption DEF Runners, Occupied
  <2>2. \A r \in left : start(r) = RankOn(s.bases, r) BY <2>1
  <2> HIDE DEF left
  <2>3. \A trail, lead \in left :
          start(trail) < start(lead) => RankOn(s.bases, trail) < RankOn(s.bases, lead)
    BY <2>2
  <2> QED BY <1>10, <2>3 DEF NobodyPassed, left
<1>12. LegalMovements(s, p, to, {}, FALSE)
  BY <1>7, <1>9, <1>11 DEF LegalMovements, DestinationsFree, State, OutCounts
<1>13. CanRecordPlateAppearance(s, p, "STRIKEOUT_SWINGING", to, {}, FALSE)
  BY <1>5, <1>7, <1>8, <1>12 DEF CanRecordPlateAppearance, BatterDestination
<1> QED BY <1>5, <1>13 DEF to

-----------------------------------------------------------------------------
(* Theorems *)

\* The inductive invariant: it holds of every accepted setup, every event keeps
\* it, and so it holds of every reachable state of createInitialState/applyBody.
THEOREM EngineInvariant == Spec => []IInv
<1>1. Init => IInv
  BY InitialSound DEF Init, IInv, TypeOK
<1>2. IInv /\ [Next]_vars => IInv'
  <2> SUFFICES ASSUME IInv, [Next]_vars PROVE IInv' OBVIOUS
  <2>1. CASE Next BY <2>1, NextSound DEF Sound
  <2>2. CASE UNCHANGED vars
    BY <2>2 DEF vars, IInv, TypeOK, SoundLineup, DefenseMatches, Standing,
                SlotsDistinct, EverybodyPlays
  <2> QED BY <2>1, <2>2
<1> QED BY <1>1, <1>2, PTL DEF Spec

\* The reducer state is always well typed: no event leaves three outs on the
\* board, a negative score, or a pitcher who is not a player.
THEOREM TypeCorrect == Spec => []TypeOK
<1>1. IInv => TypeOK BY DEF IInv
<1> QED BY <1>1, EngineInvariant, PTL

\* Substitutions, alignments and pitching changes keep the defense map, the lineup entries,
\* the pitcher and the batting slots in agreement, for lineups of any size.
THEOREM LineupsCorrect == Spec => []LineupsAgree
<1>1. IInv => LineupsAgree BY DEF IInv, SoundLineup, LineupsAgree
<1> QED BY <1>1, EngineInvariant, PTL

\* No lineup change opens or closes a batting slot, so the cursor of the order
\* keeps naming the same turn at bat.
THEOREM SlotsKeptForever == Spec => BattingOrderKept
<1>1. IInv /\ [Next]_vars
        => [\A side \in Sides : Slots(game', side) = Slots(game, side)]_vars
  BY NextSound DEF Sound, SlotsKept
<1> QED BY <1>1, EngineInvariant, PTL DEF Spec, BattingOrderKept

\* A player who has left the game never plays in it again.
THEOREM NobodyReenters == Spec => NoReentry
<1>1. IInv /\ [Next]_vars
        => [(game.participated \ game.active) \cap game'.active = {}]_vars
  BY NextSound DEF Sound, NobodyReturns
<1> QED BY <1>1, EngineInvariant, PTL DEF Spec, NoReentry

\* The box score proves at every moment of a live half inning: each batter who came
\* up has scored, is out or is on base.  Whatever the plays, in whatever order runners
\* are sent, no route through applyMovements and finishOuts loses or invents one.
THEOREM BoxScoreCorrect == Spec => []BoxScoreBalances
<1>1. Init => BalancedAt(game, ledger)
  <2> SUFFICES ASSUME Init PROVE BalancedAt(game, ledger) OBVIOUS
  <2>1. game.outs = 0 /\ game.bases = [b \in Bases |-> None] /\ ledger = 0
    BY DEF Init, InitialState
  <2>2. Occupied(game) = {} BY <2>1 DEF Occupied
  <2> QED BY <2>1, <2>2, FS_EmptySet DEF BalancedAt
<1>2. IInv /\ BalancedAt(game, ledger) /\ [Next]_vars => BalancedAt(game', ledger')
  <2> SUFFICES ASSUME IInv, BalancedAt(game, ledger), [Next]_vars
               PROVE  BalancedAt(game', ledger')
    OBVIOUS
  <2>1. CASE Next BY <2>1, StepKeepsBalance
  <2>2. CASE UNCHANGED vars BY <2>2 DEF vars, BalancedAt, Occupied
  <2> QED BY <2>1, <2>2
<1>3. BalancedAt(game, ledger) => BoxScoreBalances
  BY DEF BalancedAt, BoxScoreBalances
<1> DEFINE Balanced == BalancedAt(game, ledger)
<1>4. Init => Balanced BY <1>1
<1>5. IInv /\ Balanced /\ [Next]_vars => Balanced' BY <1>2
<1>6. Balanced => BoxScoreBalances BY <1>3
<1> HIDE DEF Balanced
<1> QED BY <1>4, <1>5, <1>6, EngineInvariant, PTL DEF Spec

\* Under the two assumptions, what SoundRunners says holds of every reachable game.
THEOREM RunnersInvariant ==
  ASSUME SixInEachOrder, ~PassingRecorded
  PROVE  Spec => []SoundRunners(game)
<1> DEFINE Invariant == SoundRunners(game)
<1>1. Init => Invariant BY InitialRunners DEF Init
<1>2. IInv /\ Invariant /\ [Next]_vars => Invariant'
  <2> SUFFICES ASSUME IInv, SoundRunners(game), [Next]_vars PROVE SoundRunners(game')
    OBVIOUS
  <2>1. CASE Next BY <2>1, StepKeepsRunners
  <2>2. CASE UNCHANGED vars BY <2>2 DEF vars
  <2> QED BY <2>1, <2>2
<1>3. Spec => []Invariant
  <2> HIDE DEF Invariant
  <2> QED BY <1>1, <1>2, EngineInvariant, PTL DEF Spec
<1> QED BY <1>3

\* Every runner stands on one base, is an active player of the side at bat charged to
\* one pitcher of the other side who has been in the game, and is never due up: with
\* six in each order the turn of a runner does not come round while he is on base,
\* because everybody who batted since is out or on base behind him.
THEOREM RunnersCorrect ==
  ASSUME SixInEachOrder, ~PassingRecorded
  PROVE  Spec => []RunnersAreSound
<1>1. IInv /\ SoundRunners(game) => RunnersAreSound
  <2> SUFFICES ASSUME game \in State, SoundLineup(game), SoundRunners(game) PROVE RunnersAreSound
    BY DEF IInv, TypeOK
  <2>1. OneBasePerRunner BY DEF SoundRunners, OneBase, OneBasePerRunner
  <2>2. RunnersAccountedFor
    BY DEF SoundRunners, RunnersCharged, RunnersAccountedFor, Runners, Batters
  <2>3. ResponsibilityNamesOpponent
    BY DEF SoundRunners, ChargedAcross, ResponsibilityNamesOpponent
  <2>4. HitterNotOnBase BY RunnerNotDueUp DEF HitterNotOnBase, Runners
  <2> QED BY <2>1, <2>2, <2>3, <2>4 DEF RunnersAreSound
<1> DEFINE Invariant == SoundRunners(game)
<1>2. IInv /\ Invariant => RunnersAreSound BY <1>1
<1>3. Spec => []Invariant BY RunnersInvariant
<1> HIDE DEF Invariant
<1> QED BY <1>2, <1>3, EngineInvariant, PTL

\* No sequence of events leaves a live half inning that cannot be ended: somebody is
\* due up and can be struck out.
THEOREM HalfEndCorrect ==
  ASSUME SixInEachOrder, ~PassingRecorded
  PROVE  Spec => []HalfCanEnd
<1> DEFINE Invariant == SoundRunners(game)
<1>1. IInv /\ Invariant => HalfCanEnd
  BY StrikeoutPossible DEF IInv, TypeOK, HalfCanEnd
<1>2. Spec => []Invariant BY RunnersInvariant
<1> HIDE DEF Invariant
<1> QED BY <1>1, <1>2, EngineInvariant, PTL

\* Suspension, completion, review and abandonment lose nothing, a completed game is
\* never played on, and a verified one leaves that status only by being reopened.
THEOREM LifecycleCorrect == Spec => LifecycleHolds
<1>1. IInv /\ [Next]_vars
        => [game.status # "IN_PROGRESS" => Situation(game') = Situation(game)]_vars
  BY StepOutsidePlay
<1>2. IInv /\ [Next]_vars
        => [/\ game.status \in {"COMPLETED", "VERIFIED", "CORRECTED", "ABANDONED"}
                  => ~Live(game') /\ game'.status # "SUSPENDED"
            /\ game.status = "VERIFIED" => game'.status = "CORRECTED"]_game
  <2> SUFFICES ASSUME IInv, [Next]_vars, game' # game
               PROVE  /\ game.status \in {"COMPLETED", "VERIFIED", "CORRECTED", "ABANDONED"}
                            => ~Live(game') /\ game'.status # "SUSPENDED"
                      /\ game.status = "VERIFIED" => game'.status = "CORRECTED"
    OBVIOUS
  <2>1. Next BY DEF vars
  <2> QED BY <2>1, StepOutsidePlay
<1> QED BY <1>1, <1>2, EngineInvariant, PTL
        DEF Spec, LifecycleHolds, FrozenUnlessLive, ClosedGameStaysClosed

-----------------------------------------------------------------------------
(* The scorer's panels, beside the reducer *)

\* A play as a panel drafts it: runners who go forward or are out, and the hitter due up.
Drafted(s, batter, to) ==
    /\ DOMAIN to \subseteq Occupied(s) \cup {"BATTER"}
    /\ \A o \in DOMAIN to : to[o] \in Destinations
    /\ \A o \in DOMAIN to : to[o] = "OUT" \/ Rank[to[o]] > Rank[o]
    /\ "BATTER" \in DOMAIN to => batter \in Players /\ BatterAt(s, batter)
    /\ "BATTER" \notin DOMAIN to => batter = None

\* The batter the panel names is the one the server expects.
LEMMA BatterDueIsAt ==
  ASSUME NEW s \in State, SoundLineup(s), SoundRunners(s)
  PROVE  BatterAt(s, BatterDue(s, 0)) /\ BatterDue(s, 0) \in Players
<1> DEFINE side  == BattingSide(s)
           order == Batters(s, side)
           due(p) == Cardinality({q \in order : s.order[q] < s.order[p]})
<1>1. side \in Sides BY DEF BattingSide, Sides
<1>2. /\ Slots(s, side) = 1 .. Turns(s, side) /\ Turns(s, side) \in Nat
      /\ s.cursor[side] \in Nat /\ s.cursor[side] < Turns(s, side)
  BY <1>1 DEF SoundRunners, FullOrders
<1>3. s.cursor[side] + 1 \in Slots(s, side) BY <1>2
<1>4. PICK p \in order : s.cursor[side] + 1 = s.order[p] BY <1>3 DEF Slots
<1>5. BatterAt(s, p)
  BY <1>4, DueUp DEF SoundLineup, SoundRunners
<1>6. due(p) = s.cursor[side] BY <1>5 DEF BatterAt
<1>7. Cardinality(order) = Turns(s, side) BY <1>1, OneBatterPerSlot DEF SoundLineup
<1> HIDE DEF due
<1>8. (s.cursor[side] + 0) % Cardinality(order) = s.cursor[side]
  <2> HIDE DEF order
  <2> QED BY <1>2, <1>7
<1>9. BatterDue(s, 0) = CHOOSE r \in order : due(r) = (s.cursor[side] + 0) % Cardinality(order)
  BY DEF BatterDue, due
<1>10. BatterDue(s, 0) \in order /\ due(BatterDue(s, 0)) = s.cursor[side]
  <2> HIDE DEF order
  <2> QED BY <1>4, <1>6, <1>8, <1>9
<1> QED BY <1>1, <1>10, BattersFinite DEF due, BatterAt

\* The batter it announces is due up when the play has been entered.
LEMMA AnnouncedNext ==
  ASSUME NEW s \in State, SoundLineup(s), SoundRunners(s), NEW t \in State,
         Lineup(t) = Lineup(s), t.half = s.half,
         t.cursor = [s.cursor EXCEPT ![BattingSide(s)] = NextCursor(s, BattingSide(s))]
  PROVE  BatterDue(t, 0) = BatterDue(s, 1)
<1> DEFINE side  == BattingSide(s)
           order == Batters(s, side)
           due(p) == Cardinality({q \in order : s.order[q] < s.order[p]})
           n == Cardinality(order)
<1>1. side \in Sides BY DEF BattingSide, Sides
<1>2. /\ Turns(s, side) \in Nat /\ Turns(s, side) >= 6
      /\ s.cursor[side] \in Nat /\ s.cursor[side] < Turns(s, side)
  BY <1>1 DEF SoundRunners, FullOrders
<1>3. n = Turns(s, side) BY <1>1, OneBatterPerSlot DEF SoundLineup
<1>4. BattingSide(t) = side /\ t.active = s.active /\ t.order = s.order
  BY DEF BattingSide, Lineup
<1>5. Batters(t, side) = order BY <1>4 DEF Batters
<1>6. t.cursor[side] = (s.cursor[side] + 1) % n
  BY <1>1 DEF NextCursor, State, Tallies
<1>7. (t.cursor[side] + 0) % n = (s.cursor[side] + 1) % n
  <2> HIDE DEF n, side
  <2>1. CASE s.cursor[side] + 1 = n BY <1>2, <1>3, <1>6, <2>1
  <2>2. CASE s.cursor[side] + 1 # n
    <3>1. s.cursor[side] + 1 < n BY <1>2, <1>3, <2>2
    <3>2. (s.cursor[side] + 1) % n = s.cursor[side] + 1 BY <1>2, <1>3, <3>1
    <3> QED BY <1>2, <1>3, <1>6, <3>1, <3>2
  <2> QED BY <2>1, <2>2
<1>8. BatterDue(t, 0) = CHOOSE p \in order : due(p) = (t.cursor[side] + 0) % n
  BY <1>4, <1>5 DEF BatterDue
<1>9. BatterDue(s, 1) = CHOOSE p \in order : due(p) = (s.cursor[side] + 1) % n
  BY DEF BatterDue
<1> HIDE DEF order, due, n, side
<1> QED BY <1>7, <1>8, <1>9

\* A runner who is on a base stands on one whose rank is a number.
LEMMA RankOnNat ==
  ASSUME NEW bases, NEW r, \E b \in Bases : bases[b] = r
  PROVE  RankOn(bases, r) \in Nat
<1> DEFINE held == {b \in Bases : bases[b] = r}
           ranks == {Rank[b] : b \in held}
<1>1. \A b \in Bases : Rank[b] \in Nat BY DEF Rank, Bases
<1>2. PICK b \in held : \A c \in held : Rank[c] <= Rank[b]
  <2>1. CASE bases["THIRD"] = r
    <3>1. "THIRD" \in held /\ \A c \in held : Rank[c] <= Rank["THIRD"]
      BY <2>1 DEF Bases, Rank
    <3> QED BY <3>1
  <2>2. CASE bases["THIRD"] # r /\ bases["SECOND"] = r
    <3>1. "SECOND" \in held /\ \A c \in held : Rank[c] <= Rank["SECOND"]
      BY <2>2 DEF Bases, Rank
    <3> QED BY <3>1
  <2>3. CASE bases["THIRD"] # r /\ bases["SECOND"] # r
    <3>1. "FIRST" \in held /\ \A c \in held : Rank[c] <= Rank["FIRST"]
      BY <2>3 DEF Bases, Rank
    <3> QED BY <3>1
  <2> QED BY <2>1, <2>2, <2>3
<1>3. Rank[b] \in ranks /\ \A c \in held : Rank[c] <= Rank[b] BY <1>2
<1>4. RankOn(bases, r) = CHOOSE n \in ranks : \A c \in held : Rank[c] <= n BY DEF RankOn
<1>5. RankOn(bases, r) \in ranks
  <2> HIDE DEF held, ranks
  <2> QED BY <1>3, <1>4
<1> QED BY <1>1, <1>5

\* The panel puts the runners where the reducer does.
LEMMA SameBases ==
  ASSUME NEW s, NEW batter, NEW to
  PROVE  KeepsRunners(s, batter, to) = BasesAfter(s, batter, to)
BY DEF KeepsRunners, BasesAfter, LeftBehind

\* The panel's passing test is the reducer's.
LEMMA PassingSeen ==
  ASSUME NEW s, NEW batter, NEW to, "BATTER" \in DOMAIN to, ~Passing(s, batter, to)
  PROVE  NobodyPassed(s, batter, to)
<1> DEFINE after == BasesAfter(s, batter, to)
           origin(r) == IF r = batter THEN 0 ELSE RankOn(s.bases, r)
           left == {r \in Runners(s) \cup {batter} : \E b \in Bases : after[b] = r}
<1>1. ~ \E trail, lead \in left :
          origin(trail) < origin(lead) /\ RankOn(after, trail) >= RankOn(after, lead)
  BY SameBases DEF Passing
<1>2. \A r \in left : RankOn(after, r) \in Nat
  <2> SUFFICES ASSUME NEW r \in left PROVE RankOn(after, r) \in Nat OBVIOUS
  <2>1. \E b \in Bases : after[b] = r OBVIOUS
  <2> HIDE DEF after
  <2> QED BY <2>1, RankOnNat
<1>3. \A trail, lead \in left :
        origin(trail) < origin(lead) => RankOn(after, trail) < RankOn(after, lead)
  <2> HIDE DEF after, origin, left
  <2> QED BY <1>1, <1>2
<1>4. NobodyPassed(s, batter, to) <=>
        \A trail, lead \in left :
          origin(trail) < origin(lead) => RankOn(after, trail) < RankOn(after, lead)
  BY DEF NobodyPassed
<1> HIDE DEF after, origin, left
<1> QED BY <1>3, <1>4

\* What a panel has no objection to, and nobody is passed by, is a legal play.
LEMMA PanelLegal ==
  ASSUME NEW s \in State, SoundLineup(s), SoundRunners(s), NEW batter, NEW to,
         Drafted(s, batter, to), ~MovementErrors(s, to), NobodyPassed(s, batter, to),
         NEW force, s.outs + Cardinality(Outs(to)) = 3 /\ Outs(to) # {} /\ force => Home(to) = {}
  PROVE  LegalMovements(s, batter, to, Home(to), force)
<1>1. \A o \in Occupied(s) : o \in Bases /\ o # "BATTER" /\ s.bases[o] # None
  BY DEF Occupied, Bases
<1>2. "BATTER" \in DOMAIN to => batter \notin Runners(s)
  BY RunnerNotDueUp DEF Drafted, Runners
<1>3. \A o, q \in DOMAIN to : RunnerFrom(s, batter, o) = RunnerFrom(s, batter, q) => o = q
  BY <1>1, <1>2 DEF Drafted, RunnerFrom, SoundRunners, OneBase, Runners
<1>4. \A o, q \in Safe(to) : to[o] = to[q] => o = q
  BY DEF MovementErrors, Collide
<1>5. \A o \in DOMAIN to \ Outs(to) : Rank[to[o]] > Rank[o]
  BY DEF Drafted, Outs
<1>6. \A o \in DOMAIN to \ {"BATTER"} : s.bases[o] # None /\ s.resp[s.bases[o]] # None
  BY <1>1 DEF Drafted, MovementErrors, NoResponsibility
<1>7. DestinationsFree(s, to) BY DEF MovementErrors, Blocked, DestinationsFree
<1>8. s.outs + Cardinality(Outs(to)) <= 3
  <2>1. Cardinality(Outs(to)) \in Nat
    BY OriginsFinite, <1>1 DEF Drafted, Outs
  <2>2. s.outs \in Nat BY DEF State, OutCounts
  <2> QED BY <2>1, <2>2 DEF MovementErrors
<1> QED BY <1>3, <1>4, <1>5, <1>6, <1>7, <1>8 DEF LegalMovements

LEMMA DraftMoves ==
  ASSUME NEW s \in State, NEW batter, NEW to, NEW counts, NEW force \in BOOLEAN,
         Drafted(s, batter, to), LegalMovements(s, batter, to, counts, force)
  PROVE  Moves(s, batter, to, counts)
BY DEF Moves, Drafted

\* The score after a play: the runs of the play for the side at bat.
LEMMA ScoreAfterPlay ==
  ASSUME NEW s \in State, NEW batter, NEW to, NEW counts, Moves(s, batter, to, counts),
         "BATTER" \notin DOMAIN to => batter = None
  PROVE  AfterPlay(s, batter, to, counts).score[BattingSide(s)]
           = s.score[BattingSide(s)] + Cardinality(counts)
<1> DEFINE moved == AfterMovements(s, batter, to, counts)
           side  == BattingSide(s)
           turned == [moved EXCEPT !.cursor[side] = NextCursor(s, side)]
           n == Cardinality(Outs(to))
<1>1. moved \in State BY MovesOrigins, MovementsType
<1>2. side \in Sides BY DEF BattingSide, Sides
<1>3. moved.score[side] = s.score[side] + Cardinality(counts)
  BY <1>2 DEF AfterMovements, State, Tallies
<1> HIDE DEF moved
<1>4. turned.score = moved.score /\ DOMAIN turned = DOMAIN moved BY <1>1 DEF State
<1>5. \A t : DOMAIN t = DOMAIN moved => FinishOuts(t, n).score = t.score
  BY <1>1 DEF FinishOuts, State
<1>6. CASE "BATTER" \in DOMAIN to
  <2>1. AfterPlay(s, batter, to, counts) = FinishOuts(turned, n)
    BY <1>6 DEF AfterPlay, AfterPlateAppearance, moved
  <2> HIDE DEF turned, side, n
  <2> QED BY <1>3, <1>4, <1>5, <2>1 DEF side
<1>7. CASE "BATTER" \notin DOMAIN to /\ batter = None
  <2>1. AfterPlay(s, batter, to, counts) = FinishOuts(moved, n)
    BY <1>7 DEF AfterPlay, AfterRunnerPlay, moved
  <2> HIDE DEF side, n
  <2> QED BY <1>3, <1>5, <2>1 DEF side
<1> QED BY <1>6, <1>7

\* What the panel shows is the state after the play.
LEMMA PanelShows ==
  ASSUME NEW s \in State, SoundLineup(s), NEW batter, NEW to, Moves(s, batter, to, Home(to)),
         "BATTER" \in DOMAIN to => Batters(s, BattingSide(s)) # {},
         "BATTER" \notin DOMAIN to => batter = None
  PROVE  LET t == AfterPlay(s, batter, to, Home(to))
         IN  /\ Shows(s, batter, to, t) /\ Played(t, s, batter, to)
             /\ SameHalf(s, t) => t.half = s.half /\ t.outs = s.outs + Cardinality(Outs(to))
<1> DEFINE t == AfterPlay(s, batter, to, Home(to))
           n == Cardinality(Outs(to))
<1>1. Played(t, s, batter, to) BY PlayEffect
<1>2. t.score[BattingSide(s)] = s.score[BattingSide(s)] + Cardinality(Home(to))
  BY ScoreAfterPlay
<1>3. n \in Nat /\ Cardinality(Home(to)) \in Nat /\ s.outs \in Nat
  <2>1. DOMAIN to \subseteq Bases \cup {"BATTER"} BY MovesOrigins
  <2> QED BY <2>1, OriginsFinite DEF Outs, Home, State, OutCounts
<1>4. s.score[BattingSide(s)] \in Nat
  BY DEF State, Tallies, BattingSide, Sides
<1> HIDE DEF t
<1>5. ShownRuns(to) = t.score[BattingSide(s)] - s.score[BattingSide(s)]
  BY <1>2, <1>3, <1>4 DEF ShownRuns
<1>6. ShownBases(s, batter, to) = t.bases /\ ShownOuts(s, to) = t.outs
  <2>1. CASE s.outs + n < 3
    BY <1>1, <1>3, <2>1, SameBases DEF Played, ShownBases, ShownOuts
  <2>2. CASE s.outs + n = 3
    BY <1>1, <1>3, <2>2 DEF Played, ShownBases, ShownOuts
  <2> QED BY <1>1, <2>1, <2>2 DEF Played
<1>7. SameHalf(s, t) => t.half = s.half /\ t.outs = s.outs + n
  BY <1>1 DEF Played, SameHalf
<1> QED BY <1>1, <1>5, <1>6, <1>7 DEF Shows, t

\* The drafts of the two panels.
LEMMA PlateDraft ==
  ASSUME NEW s \in State, SoundLineup(s), SoundRunners(s), NEW moves \in Choices(s),
         NEW outcome \in DOMAIN BatterDestination,
         NEW to, to = WithBatter(Ledger(moves), BatterDestination[outcome])
  PROVE  /\ Drafted(s, BatterDue(s, 0), to)
         /\ "BATTER" \in DOMAIN to /\ to["BATTER"] = BatterDestination[outcome]
         /\ \A b \in Bases : b \in DOMAIN to <=> b \in Occupied(s) /\ moves[b] # "REMAINS"
         /\ \A b \in DOMAIN to \ {"BATTER"} : to[b] = moves[b]
<1>1. /\ DOMAIN moves = Occupied(s) /\ Occupied(s) \subseteq Bases /\ "BATTER" \notin Bases
      /\ \A b \in Occupied(s) : moves[b] \in {"REMAINS"} \cup Destinations /\ moves[b] \in Chosen(b)
  BY DEF Choices, Occupied, Bases
<1>2. /\ DOMAIN to = Moving(moves) \cup {"BATTER"}
      /\ \A o \in DOMAIN to :
            to[o] = IF o = "BATTER" THEN BatterDestination[outcome] ELSE moves[o]
  BY DEF WithBatter, Ledger
<1>3. /\ BatterDestination[outcome] \in Destinations
      /\ BatterDestination[outcome] # "OUT" => Rank[BatterDestination[outcome]] > Rank["BATTER"]
  BY DEF BatterDestination, Destinations, Bases, Rank
<1>4. Moving(moves) = {b \in Occupied(s) : moves[b] # "REMAINS"} BY <1>1 DEF Moving
<1>5. \A b \in Moving(moves) : moves[b] = "OUT" \/ Rank[moves[b]] > Rank[b]
  BY <1>1, <1>4 DEF Chosen
<1>6. Drafted(s, BatterDue(s, 0), to)
  BY <1>1, <1>2, <1>3, <1>4, <1>5, BatterDueIsAt DEF Drafted
<1> QED BY <1>1, <1>2, <1>4, <1>6

LEMMA RunnerDraft ==
  ASSUME NEW s \in State, NEW moves \in Choices(s), NEW to, to = Ledger(moves)
  PROVE  Drafted(s, None, to) /\ "BATTER" \notin DOMAIN to
<1>1. /\ DOMAIN moves = Occupied(s) /\ Occupied(s) \subseteq Bases /\ "BATTER" \notin Bases
      /\ \A b \in Occupied(s) : moves[b] \in {"REMAINS"} \cup Destinations /\ moves[b] \in Chosen(b)
  BY DEF Choices, Occupied, Bases
<1>2. /\ DOMAIN to = Moving(moves) /\ \A o \in DOMAIN to : to[o] = moves[o]
  BY DEF Ledger
<1>3. Moving(moves) = {b \in Occupied(s) : moves[b] # "REMAINS"} BY <1>1 DEF Moving
<1>4. \A b \in Moving(moves) : moves[b] = "OUT" \/ Rank[moves[b]] > Rank[b]
  BY <1>1, <1>3 DEF Chosen
<1> QED BY <1>1, <1>2, <1>3, <1>4 DEF Drafted

LEMMA PlatePanel ==
  ASSUME IInv, SoundRunners(game)
  PROVE  PlatePanelIsRight
<1>1. SUFFICES ASSUME Live(game), NEW d \in PlateDrafts(game), Offered(game, d),
                      NEW batter, batter = BatterDue(game, 0), NEW to, to = PlateTo(d),
                      NEW next, next = AfterPlateAppearance(game, batter, to, Home(to))
               PROVE  /\ Accepted(game, d) /\ Shows(game, batter, to, next)
                      /\ SameHalf(game, next) => BatterDue(next, 0) = BatterDue(game, 1)
  BY DEF PlatePanelIsRight
<1>2. game \in State /\ SoundLineup(game) BY DEF IInv, TypeOK
<1>3. PICK outcome \in Outcomes, moves \in Choices(game), force \in BOOLEAN :
        d = [outcome |-> outcome, moves |-> moves, force |-> force]
  BY DEF PlateDrafts
<1>4. /\ outcome \in DOMAIN BatterDestination /\ d.outcome = outcome /\ d.force = force
      /\ to = WithBatter(Ledger(moves), BatterDestination[outcome])
  BY <1>1, <1>3, SubmissionAssumption DEF PlateTo
<1>5. /\ Drafted(game, batter, to) /\ "BATTER" \in DOMAIN to
      /\ to["BATTER"] = BatterDestination[outcome]
  BY <1>1, <1>2, <1>4, PlateDraft
<1>6. PlateAppearanceOffered(game, batter, outcome, to, force)
  BY <1>1, <1>4 DEF Offered
<1>7. NobodyPassed(game, batter, to)
  BY <1>5, <1>6, PassingSeen DEF PlateAppearanceOffered
<1> DEFINE third == ThirdOutIsForce(game, to, force)
<1>8. third \in BOOLEAN /\ (third => Home(to) = {})
  BY <1>6 DEF ThirdOutIsForce, PlateAppearanceOffered
<1> HIDE DEF third
<1>9. LegalMovements(game, batter, to, Home(to), third)
  BY <1>2, <1>5, <1>6, <1>7, <1>8, PanelLegal DEF PlateAppearanceOffered
<1>10. Accepted(game, d)
  <2>1. BatterAt(game, batter) BY <1>5 DEF Drafted
  <2>2. CanRecordPlateAppearance(game, batter, outcome, to, Home(to), third)
    BY <1>5, <1>6, <1>9, <2>1 DEF CanRecordPlateAppearance, PlateAppearanceOffered
  <2> QED BY <1>1, <1>4, <2>2 DEF Accepted, third
<1>11. Moves(game, batter, to, Home(to)) BY <1>2, <1>5, <1>8, <1>9, DraftMoves
<1>12. /\ Batters(game, BattingSide(game)) # {}
       /\ AfterPlay(game, batter, to, Home(to)) = next
  BY <1>1, <1>5 DEF Drafted, BatterAt, AfterPlay
<1>13. /\ Shows(game, batter, to, next) /\ Played(next, game, batter, to)
       /\ SameHalf(game, next) => next.half = game.half
  BY <1>2, <1>5, <1>11, <1>12, PanelShows
<1>14. SameHalf(game, next) => BatterDue(next, 0) = BatterDue(game, 1)
  BY <1>2, <1>5, <1>13, AnnouncedNext DEF Played
<1> QED BY <1>10, <1>13, <1>14

LEMMA RunnerPanel ==
  ASSUME IInv, SoundRunners(game)
  PROVE  RunnerPanelIsRight
<1>1. SUFFICES ASSUME Live(game), NEW playType \in PlayTypes, NEW moves \in Choices(game),
                      NEW to, to = Ledger(moves), RunnerPlayOffered(game, playType, to),
                      NobodyPassed(game, None, to),
                      playType = "PASSED_BALL" => SomebodyCatches(game)
               PROVE  /\ CanRecordRunnerPlay(game, playType, to, Home(to), FALSE)
                      /\ Shows(game, None, to, AfterRunnerPlay(game, to, Home(to)))
  BY DEF RunnerPanelIsRight
<1>2. game \in State /\ SoundLineup(game) BY DEF IInv, TypeOK
<1>3. Drafted(game, None, to) /\ "BATTER" \notin DOMAIN to BY <1>1, <1>2, RunnerDraft
<1>4. LegalMovements(game, None, to, Home(to), FALSE)
  BY <1>1, <1>2, <1>3, PanelLegal DEF RunnerPlayOffered
<1>5. CanMoveRunners(game, to, Home(to), FALSE)
  BY <1>1, <1>3, <1>4 DEF CanMoveRunners, RunnerPlayOffered
<1>6. Cardinality(Outs(to)) \in OutsAllowed(playType)
  <2>1. Cardinality(Outs(to)) \in Nat /\ game.outs \in Nat
    BY <1>2, <1>3, OriginsFinite DEF Drafted, Outs, Occupied, State, OutCounts
  <2>2. game.outs + Cardinality(Outs(to)) <= 3
    BY <1>4 DEF LegalMovements
  <2>3. Cardinality(Outs(to)) <= 3 BY <2>1, <2>2
  <2> QED BY <1>1, <2>1, <2>3 DEF RunnerPlayOffered, OutsAllowed
<1>7. CanRecordRunnerPlay(game, playType, to, Home(to), FALSE)
  BY <1>1, <1>5, <1>6 DEF CanRecordRunnerPlay, SomebodyCatches
<1>8. Moves(game, None, to, Home(to)) BY <1>2, <1>3, <1>4, DraftMoves
<1>9. AfterPlay(game, None, to, Home(to)) = AfterRunnerPlay(game, to, Home(to))
  BY <1>3 DEF AfterPlay
<1>10. Shows(game, None, to, AfterRunnerPlay(game, to, Home(to)))
  BY <1>2, <1>3, <1>8, <1>9, PanelShows
<1> QED BY <1>7, <1>10

\* Runners who stay in order pass nobody, in the panel's test either.
LEMMA OrderPasses ==
  ASSUME NEW s \in State, NEW batter, NEW to, Lands(s, batter, to),
         OneBase(s), Apart(s, batter, to), "BATTER" \in DOMAIN to,
         \A o, q \in Keep(s, to) : Rank[o] < Rank[q] => Rank[Place(to, o)] < Rank[Place(to, q)]
  PROVE  ~Passing(s, batter, to)
<1> DEFINE after == BasesAfter(s, batter, to)
           origin(r) == IF r = batter THEN 0 ELSE RankOn(s.bases, r)
           left == {r \in Runners(s) \cup {batter} : \E b \in Bases : after[b] = r}
<1>1. ASSUME NEW r \in left
      PROVE  \E o \in Keep(s, to) : /\ origin(r) = Rank[o] /\ Rank[o] \in Nat
                                    /\ RankOn(after, r) = Rank[Place(to, o)]
                                    /\ Rank[Place(to, o)] \in Nat
  <2>1. PICK b \in Bases : after[b] = r OBVIOUS
  <2>2. r # None
    BY LineupAssumption DEF Runners, Occupied, State, Diamonds, Lands
  <2>3. PICK o \in Keep(s, to) : b = Place(to, o)
    <3> HIDE DEF left
    <3> QED BY <2>1, <2>2, LandedRunners
  <2>4. r = RunnerFrom(s, batter, o) BY <2>1, <2>3, LandedRunners
  <2>5. /\ (IF "BATTER" \in DOMAIN to /\ RunnerFrom(s, batter, o) = batter
            THEN 0 ELSE RankOn(s.bases, RunnerFrom(s, batter, o))) = Rank[o]
        /\ RankOn(after, RunnerFrom(s, batter, o)) = Rank[Place(to, o)]
    BY LandedRanks
  <2>6. origin(r) = Rank[o] /\ RankOn(after, r) = Rank[Place(to, o)]
    <3> HIDE DEF after
    <3> QED BY <2>4, <2>5
  <2>7. Rank[o] \in Nat /\ Rank[Place(to, o)] \in Nat
    BY LandedRunners, <2>1, <2>3 DEF Rank, Bases, Occupied
  <2> QED BY <2>6, <2>7
<1>2. Passing(s, batter, to) <=>
        \E trail, lead \in left :
          origin(trail) < origin(lead) /\ RankOn(after, trail) >= RankOn(after, lead)
  BY SameBases DEF Passing
<1> HIDE DEF after, origin, left
<1>3. ASSUME NEW trail \in left, NEW lead \in left, origin(trail) < origin(lead),
             RankOn(after, trail) >= RankOn(after, lead)
      PROVE  FALSE
  <2>1. PICK o \in Keep(s, to) : /\ origin(trail) = Rank[o] /\ Rank[o] \in Nat
                                 /\ RankOn(after, trail) = Rank[Place(to, o)]
                                 /\ Rank[Place(to, o)] \in Nat
    BY <1>1
  <2>2. PICK q \in Keep(s, to) : /\ origin(lead) = Rank[q] /\ Rank[q] \in Nat
                                 /\ RankOn(after, lead) = Rank[Place(to, q)]
                                 /\ Rank[Place(to, q)] \in Nat
    BY <1>1
  <2>3. Rank[Place(to, o)] < Rank[Place(to, q)] BY <1>3, <2>1, <2>2
  <2> QED BY <1>3, <2>1, <2>2, <2>3
<1> QED BY <1>2, <1>3

\* Where a default sends the batter and the runners, and where those who stay are.
EndOf(s, outcome, o) ==
    IF o = "BATTER" THEN BatterDestination[outcome]
    ELSE IF DefaultRunnerOutcomes(s, outcome)[o] = "REMAINS" THEN o
    ELSE DefaultRunnerOutcomes(s, outcome)[o]

\* A default keeps everybody in order, and is among the choices of his base.
LEMMA DefaultsInOrder ==
  ASSUME NEW s \in State, NEW outcome \in DOMAIN BatterDestination,
         outcome = "FIELDER_CHOICE" => "FIRST" \in Occupied(s),
         outcome = "INTERFERENCE" => "FIRST" \notin Occupied(s)
  PROVE  /\ DefaultRunnerOutcomes(s, outcome) \in Choices(s)
         /\ \A o, q \in Occupied(s) \cup {"BATTER"} :
              /\ EndOf(s, outcome, o) \in Bases /\ EndOf(s, outcome, q) \in Bases
              /\ Rank[o] < Rank[q]
              => Rank[EndOf(s, outcome, o)] < Rank[EndOf(s, outcome, q)]
<1> DEFINE m == DefaultRunnerOutcomes(s, outcome)
           held == Occupied(s)
           end(o) == EndOf(s, outcome, o)
           Offers == \A b \in held : m[b] \in {"REMAINS"} \cup Destinations /\ m[b] \in Chosen(b)
           InLine == \A o, q \in held \cup {"BATTER"} :
                       /\ end(o) \in Bases /\ end(q) \in Bases /\ Rank[o] < Rank[q]
                       => Rank[end(o)] < Rank[end(q)]
<1>1. held \subseteq {"FIRST", "SECOND", "THIRD"} BY DEF Occupied, Bases
<1>2. outcome \in {"WALK", "INTENTIONAL_WALK", "HIT_BY_PITCH", "STRIKEOUT_SWINGING",
                   "STRIKEOUT_LOOKING", "SINGLE", "DOUBLE", "TRIPLE", "HOME_RUN", "BATTER_OUT",
                   "FIELDER_CHOICE", "REACHED_ON_ERROR", "SACRIFICE_BUNT", "SACRIFICE_FLY",
                   "INTERFERENCE"}
  BY DEF BatterDestination
<1>3. DOMAIN m = held BY DEF DefaultRunnerOutcomes
<1>4. /\ end("BATTER") = BatterDestination[outcome]
      /\ \A b \in held : end(b) = IF m[b] = "REMAINS" THEN b ELSE m[b]
  BY <1>1 DEF EndOf
<1> HIDE DEF held, end
<1>5. ASSUME outcome \in Passes
      PROVE  Offers /\ InLine
  <2>1. \A b \in held : m[b] = IF Behind[b] \subseteq held THEN Advance[b] ELSE "REMAINS"
    BY <1>5 DEF DefaultRunnerOutcomes, held, Passes
  <2>2. end("BATTER") = "FIRST" BY <1>4, <1>5 DEF Passes, BatterDestination
  <2> HIDE DEF m
  <2>3. /\ "FIRST" \in held => m["FIRST"] = "SECOND"
        /\ "SECOND" \in held => m["SECOND"] = IF "FIRST" \in held THEN "THIRD" ELSE "REMAINS"
        /\ "THIRD" \in held => m["THIRD"] = IF {"FIRST", "SECOND"} \subseteq held THEN "HOME"
                                         ELSE "REMAINS"
    BY <2>1 DEF Behind, Advance
  <2>4. Offers BY <1>1, <2>3 DEF Destinations, Bases, Chosen, Rank
  <2>5. InLine BY <1>1, <1>4, <2>2, <2>3 DEF Bases, Rank
  <2> QED BY <2>4, <2>5
<1>6. ASSUME outcome \in {"SINGLE", "REACHED_ON_ERROR", "SACRIFICE_BUNT"}
      PROVE  Offers /\ InLine
  <2>1. \A b \in held : m[b] = Advance[b]
    BY <1>6 DEF DefaultRunnerOutcomes, held, Passes
  <2>2. end("BATTER") \in {"FIRST", "OUT"} BY <1>4, <1>6 DEF BatterDestination
  <2> HIDE DEF m
  <2>3. /\ "FIRST" \in held => m["FIRST"] = "SECOND"
        /\ "SECOND" \in held => m["SECOND"] = "THIRD"
        /\ "THIRD" \in held => m["THIRD"] = "HOME"
    BY <2>1 DEF Advance
  <2>4. Offers BY <1>1, <2>3 DEF Destinations, Bases, Chosen, Rank
  <2>5. InLine BY <1>1, <1>4, <2>2, <2>3 DEF Bases, Rank
  <2> QED BY <2>4, <2>5
<1>7. ASSUME outcome = "FIELDER_CHOICE"
      PROVE  Offers /\ InLine
  <2>1. \A b \in held : m[b] = IF b = "FIRST" THEN "OUT" ELSE "REMAINS"
    BY <1>7 DEF DefaultRunnerOutcomes, held, Passes
  <2>2. end("BATTER") = "FIRST" /\ "FIRST" \in held BY <1>4, <1>7 DEF BatterDestination, held
  <2> HIDE DEF m
  <2>3. Offers BY <1>1, <2>1 DEF Destinations, Bases, Chosen, Rank
  <2>4. InLine BY <1>1, <1>4, <2>1, <2>2 DEF Bases, Rank
  <2> QED BY <2>3, <2>4
<1>8. ASSUME outcome = "DOUBLE"
      PROVE  Offers /\ InLine
  <2>1. \A b \in held : m[b] = IF b = "FIRST" THEN "THIRD" ELSE "HOME"
    BY <1>8 DEF DefaultRunnerOutcomes, held, Passes
  <2>2. end("BATTER") = "SECOND" BY <1>4, <1>8 DEF BatterDestination
  <2> HIDE DEF m
  <2>3. Offers BY <1>1, <2>1 DEF Destinations, Bases, Chosen, Rank
  <2>4. InLine BY <1>1, <1>4, <2>1, <2>2 DEF Bases, Rank
  <2> QED BY <2>3, <2>4
<1>9. ASSUME outcome \in {"TRIPLE", "HOME_RUN"}
      PROVE  Offers /\ InLine
  <2>1. \A b \in held : m[b] = "HOME"
    BY <1>9 DEF DefaultRunnerOutcomes, held, Passes
  <2>2. end("BATTER") \in {"THIRD", "HOME"} BY <1>4, <1>9 DEF BatterDestination
  <2> HIDE DEF m
  <2>3. Offers BY <1>1, <2>1 DEF Destinations, Bases, Chosen, Rank
  <2>4. InLine BY <1>1, <1>4, <2>1, <2>2 DEF Bases, Rank
  <2> QED BY <2>3, <2>4
<1>10. ASSUME outcome = "SACRIFICE_FLY"
      PROVE  Offers /\ InLine
  <2>1. \A b \in held : m[b] = IF b = "THIRD" THEN "HOME" ELSE "REMAINS"
    BY <1>10 DEF DefaultRunnerOutcomes, held, Passes
  <2>2. end("BATTER") = "OUT" BY <1>4, <1>10 DEF BatterDestination
  <2> HIDE DEF m
  <2>3. Offers BY <1>1, <2>1 DEF Destinations, Bases, Chosen, Rank
  <2>4. InLine BY <1>1, <1>4, <2>1, <2>2 DEF Bases, Rank
  <2> QED BY <2>3, <2>4
<1>11. ASSUME outcome \in {"STRIKEOUT_SWINGING", "STRIKEOUT_LOOKING", "BATTER_OUT", "INTERFERENCE"}
      PROVE  Offers /\ InLine
  <2>1. \A b \in held : m[b] = "REMAINS"
    BY <1>11 DEF DefaultRunnerOutcomes, held, Passes
  <2>2. end("BATTER") = "OUT" \/ (end("BATTER") = "FIRST" /\ "FIRST" \notin held)
    BY <1>4, <1>11 DEF BatterDestination, held
  <2> HIDE DEF m
  <2>3. Offers BY <1>1, <2>1 DEF Destinations, Bases, Chosen, Rank
  <2>4. InLine BY <1>1, <1>4, <2>1, <2>2 DEF Bases, Rank
  <2> QED BY <2>3, <2>4
<1> HIDE DEF Offers, InLine
<1>12. Offers /\ InLine
  BY <1>2, <1>5, <1>6, <1>7, <1>8, <1>9, <1>10, <1>11 DEF Passes
<1>13. m \in Choices(s)
  <2>1. m = [b \in held |-> m[b]] BY DEF DefaultRunnerOutcomes, held
  <2> HIDE DEF m
  <2> QED BY <1>12, <2>1 DEF Choices, held, Offers
<1> QED BY <1>12, <1>13 DEF held, end, InLine

\* The labels of a default form a chain from the batter on.
LEMMA DefaultsForced ==
  ASSUME NEW s \in State, NEW outcome \in DOMAIN BatterDestination, NEW moves, NEW to,
         moves = DefaultRunnerOutcomes(s, outcome), "BATTER" \in DOMAIN to,
         to["BATTER"] = BatterDestination[outcome],
         \A b \in Bases : b \in DOMAIN to <=> b \in Occupied(s) /\ moves[b] # "REMAINS",
         \A b \in DOMAIN to \ {"BATTER"} : to[b] = moves[b]
  PROVE  ForcedChain(Forced(outcome, moves), to)
<1> DEFINE forced == Forced(outcome, moves)
<1>1. CASE outcome \notin Passes
  <2>1. forced = {} BY <1>1 DEF Forced, IsForcedAdvance
  <2> QED BY <2>1 DEF ForcedChain
<1>2. CASE outcome \in Passes
  <2>1. /\ DOMAIN moves = Occupied(s) /\ Occupied(s) \subseteq {"FIRST", "SECOND", "THIRD"}
    BY DEF DefaultRunnerOutcomes, Occupied, Bases
  <2>2. \A b \in Occupied(s) : moves[b] = IF Behind[b] \subseteq Occupied(s) THEN Advance[b]
                                          ELSE "REMAINS"
    BY <1>2 DEF DefaultRunnerOutcomes, Passes
  <2>3. /\ "FIRST" \in Occupied(s) => moves["FIRST"] = "SECOND"
        /\ "SECOND" \in Occupied(s) =>
              moves["SECOND"] = IF "FIRST" \in Occupied(s) THEN "THIRD" ELSE "REMAINS"
        /\ "THIRD" \in Occupied(s) =>
              moves["THIRD"] = IF {"FIRST", "SECOND"} \subseteq Occupied(s) THEN "HOME"
                               ELSE "REMAINS"
    BY <2>2 DEF Behind, Advance
  <2>4. to["BATTER"] = "FIRST" /\ "BATTER" \in forced
    BY <1>2 DEF Forced, Passes, BatterDestination
  <2>5. /\ "FIRST" \in forced <=> "FIRST" \in Occupied(s)
        /\ "SECOND" \in forced <=> {"FIRST", "SECOND"} \subseteq Occupied(s)
        /\ "THIRD" \in forced <=> {"FIRST", "SECOND", "THIRD"} \subseteq Occupied(s)
        /\ forced \subseteq {"BATTER", "FIRST", "SECOND", "THIRD"}
    <3>1. forced = {b \in Occupied(s) : moves[b] # "REMAINS" /\ IsForcedAdvance(outcome, moves, b)}
                     \cup {"BATTER"}
      BY <1>2, <2>1 DEF Forced, Moving
    <3>2. \A b \in Occupied(s) :
            IsForcedAdvance(outcome, moves, b) <=>
              /\ moves[b] = Advance[b]
              /\ b = "FIRST" \/ \E c \in Occupied(s) : moves[c] = b /\ Advance[c] = b
      BY <1>2, <2>1 DEF IsForcedAdvance
    <3> HIDE DEF forced
    <3> QED BY <2>1, <2>3, <3>1, <3>2 DEF Advance
  <2>6. /\ "FIRST" \in forced => to["FIRST"] = "SECOND"
        /\ "SECOND" \in forced => to["SECOND"] = "THIRD"
        /\ "THIRD" \in forced => to["THIRD"] = "HOME"
    BY <2>3, <2>5 DEF Bases
  <2> HIDE DEF forced
  <2>7. ASSUME NEW o \in forced, o \notin Outs(to)
        PROVE  \/ o = "BATTER" /\ to[o] = "FIRST"
               \/ /\ o # "BATTER" /\ to[o] = Advance[o]
                  /\ \E q \in forced : to[q] = o /\ Rank[o] = Rank[q] + 1
    <3>1. CASE o = "BATTER" BY <2>4, <3>1
    <3>2. CASE o = "FIRST"
      <4>1. to["BATTER"] = o /\ Rank[o] = Rank["BATTER"] + 1 BY <2>4, <3>2 DEF Rank
      <4> QED BY <2>4, <2>6, <2>7, <3>2, <4>1 DEF Advance
    <3>3. CASE o = "SECOND"
      <4>1. "FIRST" \in forced BY <2>5, <2>7, <3>3
      <4>2. to["FIRST"] = o /\ Rank[o] = Rank["FIRST"] + 1 BY <2>6, <3>3, <4>1 DEF Rank
      <4> QED BY <2>6, <2>7, <3>3, <4>1, <4>2 DEF Advance
    <3>4. CASE o = "THIRD"
      <4>1. "SECOND" \in forced BY <2>5, <2>7, <3>4
      <4>2. to["SECOND"] = o /\ Rank[o] = Rank["SECOND"] + 1 BY <2>6, <3>4, <4>1 DEF Rank
      <4> QED BY <2>6, <2>7, <3>4, <4>1, <4>2 DEF Advance
    <3> QED BY <2>5, <2>7, <3>1, <3>2, <3>3, <3>4
  <2> QED BY <2>7 DEF ForcedChain, forced
<1> QED BY <1>1, <1>2

LEMMA PanelDefaults ==
  ASSUME IInv, SoundRunners(game)
  PROVE  DefaultsAreLegal
<1>1. SUFFICES ASSUME Live(game), NEW outcome \in Outcomes,
                      outcome = "FIELDER_CHOICE" => "FIRST" \in Occupied(game),
                      outcome = "INTERFERENCE" => "FIRST" \notin Occupied(game),
                      outcome \in {"SACRIFICE_BUNT", "SACRIFICE_FLY"} => game.outs # 2,
                      NEW moves, moves = DefaultRunnerOutcomes(game, outcome),
                      NEW d, d = [outcome |-> outcome, force |-> outcome = "FIELDER_CHOICE",
                                  moves |-> moves],
                      NEW to, to = PlateTo(d), NEW batter, batter = BatterDue(game, 0)
               PROVE  Offered(game, d) /\ ForcedChain(Forced(outcome, d.moves), to)
  BY DEF DefaultsAreLegal
<1>2. game \in State /\ SoundLineup(game) BY DEF IInv, TypeOK
<1>3. /\ outcome \in DOMAIN BatterDestination
      /\ d.outcome = outcome /\ d.moves = moves /\ d.force = (outcome = "FIELDER_CHOICE")
      /\ to = WithBatter(Ledger(moves), BatterDestination[outcome])
  BY <1>1, SubmissionAssumption DEF PlateTo
<1>3a. moves \in Choices(game) BY <1>1, <1>2, <1>3, DefaultsInOrder
<1>4. \A o, q \in Occupied(game) \cup {"BATTER"} :
           /\ EndOf(game, outcome, o) \in Bases /\ EndOf(game, outcome, q) \in Bases
           /\ Rank[o] < Rank[q]
           => Rank[EndOf(game, outcome, o)] < Rank[EndOf(game, outcome, q)]
  BY <1>1, <1>2, <1>3, DefaultsInOrder
<1>5. /\ Drafted(game, batter, to)
      /\ "BATTER" \in DOMAIN to /\ to["BATTER"] = BatterDestination[outcome]
      /\ \A b \in Bases : b \in DOMAIN to <=> b \in Occupied(game) /\ moves[b] # "REMAINS"
      /\ \A b \in DOMAIN to \ {"BATTER"} : to[b] = moves[b]
  <2>1. /\ Drafted(game, BatterDue(game, 0), to)
        /\ "BATTER" \in DOMAIN to /\ to["BATTER"] = BatterDestination[outcome]
        /\ \A b \in Bases : b \in DOMAIN to <=> b \in Occupied(game) /\ moves[b] # "REMAINS"
        /\ \A b \in DOMAIN to \ {"BATTER"} : to[b] = moves[b]
    BY <1>2, <1>3, <1>3a, PlateDraft
  <2> QED BY <1>1, <2>1
<1>6. /\ Occupied(game) \subseteq Bases /\ "BATTER" \notin Bases
      /\ DOMAIN to \subseteq Occupied(game) \cup {"BATTER"}
  BY <1>5 DEF Occupied, Bases, Drafted
<1>7. \A o \in Occupied(game) \cup {"BATTER"} : EndOf(game, outcome, o) = Place(to, o)
  BY <1>1, <1>5, <1>6 DEF EndOf, Place
<1>8. \A o, q \in Occupied(game) \cup {"BATTER"} :
         Place(to, o) \in Bases /\ Place(to, q) \in Bases /\ Rank[o] < Rank[q]
           => Rank[Place(to, o)] < Rank[Place(to, q)]
  BY <1>4, <1>7
<1>9. \A o, q \in Occupied(game) \cup {"BATTER"} :
         Place(to, o) \in Bases /\ Place(to, o) = Place(to, q) => o = q
  <2>1. SUFFICES ASSUME NEW o \in Occupied(game) \cup {"BATTER"},
                        NEW q \in Occupied(game) \cup {"BATTER"},
                        Place(to, o) \in Bases, Place(to, o) = Place(to, q), o # q
                 PROVE  FALSE
    OBVIOUS
  <2>2. Rank[o] < Rank[q] \/ Rank[q] < Rank[o]
    BY <1>6, <2>1 DEF Rank, Bases
  <2>3. Rank[Place(to, o)] \in Nat BY <2>1 DEF Rank, Bases
  <2>4. Rank[Place(to, o)] < Rank[Place(to, q)] \/ Rank[Place(to, q)] < Rank[Place(to, o)]
    BY <1>8, <2>1, <2>2
  <2> QED BY <2>1, <2>3, <2>4
<1>10. /\ \A o, q \in Safe(to) : to[o] = to[q] => o = q
       /\ \A o \in Safe(to) : game.bases[to[o]] = None \/ to[o] \in DOMAIN to
  <2>1. \A o \in Safe(to) : /\ o \in Occupied(game) \cup {"BATTER"} /\ o \in DOMAIN to
                            /\ Place(to, o) = to[o] /\ to[o] \in Bases
    BY <1>6 DEF Safe, Place
  <2>2. ASSUME NEW o \in Safe(to), game.bases[to[o]] # None, to[o] \notin DOMAIN to PROVE FALSE
    <3>1. to[o] \in Occupied(game) BY <2>1, <2>2 DEF Occupied
    <3>2. Place(to, to[o]) = to[o] BY <2>2 DEF Place
    <3>3. o = to[o] BY <1>9, <2>1, <3>1, <3>2
    <3> QED BY <2>1, <2>2, <3>3
  <2> QED BY <1>9, <2>1, <2>2
<1>11. Lands(game, batter, to) BY <1>5, <1>10 DEF Lands, Drafted
<1>12. OneBase(game) BY DEF SoundRunners
<1>13. Apart(game, batter, to) BY <1>2, <1>5, RunnerNotDueUp DEF Apart, Drafted, Runners
<1>14. ~Passing(game, batter, to)
  <2>1. \A o \in Keep(game, to) : o \in Occupied(game) \cup {"BATTER"} /\ Place(to, o) \in Bases
    BY <1>2, <1>11, <1>12, <1>13, LandedRunners
  <2> QED BY <1>2, <1>5, <1>8, <1>11, <1>12, <1>13, <2>1, OrderPasses
<1>15. /\ outcome = "FIELDER_CHOICE" => Outs(to) = {"FIRST"} /\ Home(to) = {}
       /\ outcome # "FIELDER_CHOICE" => Outs(to) \subseteq {"BATTER"}
  <2>1. CASE outcome = "FIELDER_CHOICE"
    <3>1. \A b \in Occupied(game) : moves[b] = IF b = "FIRST" THEN "OUT" ELSE "REMAINS"
      BY <1>1, <2>1 DEF DefaultRunnerOutcomes, Passes
    <3>2. to["BATTER"] = "FIRST" /\ "FIRST" \in DOMAIN to
      BY <1>1, <1>5, <2>1, <3>1 DEF BatterDestination, Bases
    <3>3. \A o \in DOMAIN to \ {"BATTER"} : o = "FIRST" /\ to[o] = "OUT"
      BY <1>5, <1>6, <3>1
    <3> QED BY <2>1, <3>2, <3>3 DEF Outs, Home
  <2>2. CASE outcome # "FIELDER_CHOICE"
    <3>1. \A b \in Occupied(game) : moves[b] # "OUT"
      BY <1>1, <1>6, <2>2 DEF DefaultRunnerOutcomes, Advance, Bases
    <3> QED BY <1>5, <1>6, <2>2, <3>1 DEF Outs
  <2> QED BY <2>1, <2>2
<1>16. game.outs + Cardinality(Outs(to)) <= 3
  <2>1. Outs(to) = {} \/ Outs(to) = {"BATTER"} \/ Outs(to) = {"FIRST"} BY <1>15
  <2>2. Cardinality(Outs(to)) \in {0, 1} BY <2>1, FS_EmptySet, FS_Singleton
  <2> QED BY <1>2, <2>2 DEF State, OutCounts
<1>17. ~NoResponsibility(game, to)
  BY <1>6 DEF NoResponsibility, SoundRunners, RunnersCharged
<1>18. ~MovementErrors(game, to)
  <2>1. ~(game.outs + Cardinality(Outs(to)) > 3)
    <3>1. Cardinality(Outs(to)) \in Nat BY <1>6, OriginsFinite DEF Outs
    <3> QED BY <1>2, <1>16, <3>1 DEF State, OutCounts
  <2> QED BY <1>10, <1>17, <2>1 DEF MovementErrors, Collide, Blocked
<1>19. ThirdOutIsForce(game, to, d.force) => Home(to) = {}
  BY <1>3, <1>15 DEF ThirdOutIsForce
<1>20. outcome = "FIELDER_CHOICE" => Outs(to) \ {"BATTER"} # {} BY <1>15
<1>21. Offered(game, d)
  BY <1>1, <1>3, <1>14, <1>18, <1>19, <1>20 DEF Offered, PlateAppearanceOffered
<1>22. ForcedChain(Forced(outcome, moves), to)
  <2>1. moves = DefaultRunnerOutcomes(game, outcome) BY <1>1
  <2> QED BY <1>2, <1>3, <1>5, <2>1, DefaultsForced
<1> QED BY <1>3, <1>21, <1>22

-----------------------------------------------------------------------------
(* The desk: a season with its game to be set up, and the tabs of a scorer *)

Induction == INSTANCE Recursion WITH First <- LAMBDA p : p, Step <- LAMBDA p, x, n : x

-----------------------------------------------------------------------------
(* Seasons *)

Entries == [team : Teams, player : Squad, startsAt : S!Days, status : {"ACTIVE", "INACTIVE"},
            endsAt : S!Days \cup {0}]
SavedSetups == [submission : Forms, sides : SUBSET Teams, lineup : SUBSET Nat,
                scheduledAt : S!Days]
SentSetups  == [submission : Forms, sides : SUBSET Teams, lineup : SUBSET Nat,
                scheduledAt : S!Days, expected : Nat]
GameRows == [status : S!Operational \cup {"FINAL", None}, scheduledAt : S!Days \cup {0},
             setupRevision : Nat, ready : Nat]

SeasonTypes ==
    /\ team \in [Teams -> {"ACTIVE", "ARCHIVED"}]
    /\ season \in {"DRAFT", "ACTIVE", "COMPLETED", "ARCHIVED"}
    /\ participation \in [Teams -> {None, "OPEN", "ARCHIVED"}]
    /\ retired \in SUBSET Squad
    /\ period \in Seq(Entries)
    /\ row \in GameRows
    /\ snapshot \in Seq(SavedSetups)
    /\ submitted \in SUBSET SentSetups

\* The newest set-up is the one the row counts, and the one of a ready game is complete.
SetupsSound ==
    /\ row.setupRevision = Len(snapshot)
    /\ row.status = None => snapshot = <<>>
    /\ snapshot # <<>> => row.scheduledAt = snapshot[Len(snapshot)].scheduledAt
    /\ row.status = "READY" => row.ready \in DOMAIN snapshot /\ S!Complete(row.ready)

SeasonInv == SeasonTypes /\ SetupsSound /\ S!LifecyclesNest /\ S!ReadyIsPlayable

LEMMA SeasonInit ==
    ASSUME DeskAssumption, S!SeasonInit
    PROVE  SeasonInv
  <1> USE DEF S!SeasonInit, DeskAssumption, S!SeasonAssumption
  <1>1. SeasonTypes
    BY DEF SeasonTypes, GameRows, S!Operational
  <1>2. row.status = None /\ row.status \notin S!Operational /\ S!Playing = {}
    BY DEF S!Playing, S!Periods
  <1>3. SetupsSound
    BY <1>2 DEF SetupsSound, S!Operational
  <1>4. S!LifecyclesNest /\ S!ReadyIsPlayable
    BY <1>2 DEF S!LifecyclesNest, S!ReadyIsPlayable, S!Operational
  <1> QED
    BY <1>1, <1>3, <1>4 DEF SeasonInv

\* A step that leaves the set-ups alone, and whoever is in the ready one eligible.
SetupStands ==
    row.status = "READY" =>
        LET ready == snapshot[row.ready]
        IN  /\ \A t \in ready.sides : /\ participation'[t] = "OPEN" /\ team'[t] = "ACTIVE"
            /\ \A n \in ready.lineup :
                  /\ n \in DOMAIN period' /\ period'[n] = period[n]
                  /\ period[n].player \notin retired'
LEMMA SetupKept ==
    ASSUME SeasonInv, SeasonTypes', S!LifecyclesNest', SetupStands,
           row' = row, snapshot' = snapshot, row.status = "READY" => S!Open'
    PROVE  SeasonInv'
  <1> USE DEF SeasonInv
  <1>1. ASSUME row.status = "READY" PROVE S!Complete(row.ready)' /\ S!ReadyIsPlayable'
    <2> DEFINE ready == snapshot[row.ready]
    <2>1. ready \in SavedSetups
      BY <1>1 DEF SeasonTypes, SetupsSound
    <2>2. S!SidesEligible(ready.sides) /\ S!LineupEligible(ready.sides, ready.lineup, ready.scheduledAt)
      BY <1>1 DEF S!ReadyIsPlayable
    <2>3. \A t \in ready.sides : participation'[t] = "OPEN" /\ team'[t] = "ACTIVE"
      BY <1>1 DEF SetupStands
    <2>4. \A n \in ready.lineup : /\ n \in DOMAIN period' /\ period'[n] = period[n]
                                  /\ period[n].player \notin retired'
      BY <1>1 DEF SetupStands
    <2>5. S!SidesEligible(ready.sides)'
      BY <1>1, <2>3 DEF S!SidesEligible
    <2>6. S!LineupEligible(ready.sides, ready.lineup, ready.scheduledAt)'
      BY <2>2, <2>4 DEF S!LineupEligible, S!Playing, S!Periods
    <2>7. S!Complete(row.ready)
      BY <1>1 DEF SetupsSound
    <2>8. S!Complete(row.ready)'
      BY <2>7, <2>4 DEF S!Complete
    <2>9. S!ReadyIsPlayable'
      BY <1>1, <2>5, <2>6 DEF S!ReadyIsPlayable
    <2> QED
      BY <2>8, <2>9
  <1>2. row.status # "READY" => S!ReadyIsPlayable'
    BY DEF S!ReadyIsPlayable
  <1>3. SetupsSound'
    BY <1>1 DEF SetupsSound
  <1> QED
    BY <1>1, <1>2, <1>3

LEMMA ArchiveTeamKeeps ==
    ASSUME SeasonInv, NEW t \in Teams, NEW b \in BOOLEAN, S!SetTeamArchived(t, b)
    PROVE  SeasonInv'
  <1> USE DEF S!SetTeamArchived, S!Changes
  <1>1. SeasonTypes'
    BY DEF SeasonInv, SeasonTypes
  <1>2. \A u \in Teams : participation[u] = "OPEN" => team'[u] = "ACTIVE"
    BY DEF SeasonInv, SeasonTypes, S!LifecyclesNest
  <1>3. S!LifecyclesNest'
    BY <1>2 DEF SeasonInv, S!LifecyclesNest, S!Playing, S!Periods, S!Open
  <1>4. SetupStands
    <2> SUFFICES ASSUME row.status = "READY" PROVE SetupStands
      BY DEF SetupStands
    <2>1. snapshot[row.ready] \in SavedSetups
      BY DEF SeasonInv, SeasonTypes, SetupsSound
    <2>2. snapshot[row.ready].sides \subseteq Teams
      BY <2>1 DEF SavedSetups
    <2> QED
      BY <1>2, <2>2 DEF SeasonInv, SetupStands, S!ReadyIsPlayable, S!SidesEligible, S!LineupEligible,
         S!Playing, S!Periods
  <1>5. row.status = "READY" => S!Open'
    BY DEF SeasonInv, S!LifecyclesNest, S!Operational, S!Open
  <1> QED
    BY <1>1, <1>3, <1>4, <1>5, SetupKept

LEMMA TransitionKeeps ==
    ASSUME SeasonInv, NEW to \in {"ACTIVE", "COMPLETED", "ARCHIVED"}, S!TransitionSeason(to)
    PROVE  SeasonInv'
  <1> USE DEF S!TransitionSeason, S!Changes
  <1>1. SeasonTypes'
    BY DEF SeasonInv, SeasonTypes
  <1>2. /\ to = "ARCHIVED" => S!Playing = {}
        /\ row.status \in S!Operational => S!Open'
    BY DEF S!Open
  <1>3. S!LifecyclesNest'
    BY <1>2 DEF SeasonInv, S!LifecyclesNest, S!Playing, S!Periods
  <1>4. SetupStands
    BY DEF SeasonInv, SetupStands, S!ReadyIsPlayable, S!SidesEligible, S!LineupEligible,
       S!Playing, S!Periods
  <1> QED
    BY <1>1, <1>2, <1>3, <1>4, SetupKept DEF S!Operational

LEMMA OpenTeamKeeps ==
    ASSUME DeskAssumption, SeasonInv, NEW t \in Teams, S!AddTeamSeason(t) \/ S!RestoreTeamSeason(t)
    PROVE  SeasonInv'
  <1>1. /\ team[t] = "ACTIVE" /\ participation' = [participation EXCEPT ![t] = "OPEN"]
        /\ UNCHANGED <<team, season, retired, period, row, snapshot, submitted>>
    BY DEF S!AddTeamSeason, S!RestoreTeamSeason, S!Changes
  <1>2. SeasonTypes'
    BY <1>1 DEF SeasonInv, SeasonTypes
  <1>3. \A u \in Teams : participation'[u] = IF u = t THEN "OPEN" ELSE participation[u]
    BY <1>1 DEF SeasonInv, SeasonTypes
  <1>4. ASSUME NEW n \in S!Playing PROVE participation'[period[n].team] = "OPEN"
    <2>1. participation[period[n].team] = "OPEN" /\ period[n] \in Entries
      BY DEF SeasonInv, SeasonTypes, S!LifecyclesNest, S!Playing, S!Periods
    <2> QED
      BY <1>3, <2>1 DEF Entries
  <1>5. S!Playing' = S!Playing /\ S!Open' = S!Open
    BY <1>1 DEF S!Playing, S!Periods, S!Open
  <1>6. home \in Teams
    BY DeskAssumption DEF DeskAssumption, S!SeasonAssumption
  <1>7. S!LifecyclesNest'
    BY <1>1, <1>3, <1>4, <1>5, <1>6 DEF SeasonInv, S!LifecyclesNest
  <1>8. SetupStands
    <2> SUFFICES ASSUME row.status = "READY" PROVE SetupStands
      BY DEF SetupStands
    <2>1. snapshot[row.ready] \in SavedSetups
      BY DEF SeasonInv, SeasonTypes, SetupsSound
    <2>2. snapshot[row.ready].sides \subseteq Teams
      BY <2>1 DEF SavedSetups
    <2> QED
      BY <1>1, <1>3, <2>2 DEF SeasonInv, SetupStands, S!ReadyIsPlayable, S!SidesEligible,
         S!LineupEligible, S!Playing, S!Periods
  <1>9. row.status = "READY" => S!Open'
    BY <1>5 DEF SeasonInv, S!LifecyclesNest, S!Operational
  <1> QED
    BY <1>1, <1>2, <1>7, <1>8, <1>9, SetupKept

LEMMA ArchiveTeamSeasonKeeps ==
    ASSUME DeskAssumption, SeasonInv, NEW t \in Teams, S!ArchiveTeamSeason(t)
    PROVE  SeasonInv'
  <1>1. /\ ~S!Dependencies(t) /\ participation' = [participation EXCEPT ![t] = "ARCHIVED"]
        /\ UNCHANGED <<team, season, retired, period, row, snapshot, submitted>>
    BY DEF S!ArchiveTeamSeason, S!MayArchive, S!Changes
  <1>2. SeasonTypes'
    BY <1>1 DEF SeasonInv, SeasonTypes
  <1>3. \A u \in Teams : participation'[u] = IF u = t THEN "ARCHIVED" ELSE participation[u]
    BY <1>1 DEF SeasonInv, SeasonTypes
  <1>4. ASSUME NEW n \in S!Playing PROVE participation'[period[n].team] = "OPEN" /\ period[n].team # t
    <2>1. participation[period[n].team] = "OPEN" /\ period[n] \in Entries
      BY DEF SeasonInv, SeasonTypes, S!LifecyclesNest, S!Playing, S!Periods
    <2>2. period[n].team # t
      BY <1>1 DEF S!Dependencies
    <2> QED
      BY <1>3, <2>1, <2>2 DEF Entries
  <1>5. S!Playing' = S!Playing /\ S!Open' = S!Open
    BY <1>1 DEF S!Playing, S!Periods, S!Open
  <1>6. row.status \in S!Operational => t # home
    BY <1>1 DEF S!Dependencies
  <1>61. home \in Teams
    BY DeskAssumption DEF DeskAssumption, S!SeasonAssumption
  <1>7. S!LifecyclesNest'
    <2>1. \A u \in Teams : participation'[u] = "OPEN" => team[u] = "ACTIVE"
      BY <1>3 DEF SeasonInv, S!LifecyclesNest
    <2>2. row.status \in S!Operational \ {"CORRECTED"} => S!Open /\ participation'[home] = "OPEN"
      BY <1>3, <1>6, <1>61 DEF SeasonInv, S!LifecyclesNest
    <2>3. \A n \in S!Playing : season # "ARCHIVED" /\ period[n].player \notin retired
      BY DEF SeasonInv, S!LifecyclesNest
    <2> QED
      BY <1>1, <1>4, <1>5, <2>1, <2>2, <2>3 DEF S!LifecyclesNest
  <1>8. SetupStands
    <2> SUFFICES ASSUME row.status = "READY" PROVE SetupStands
      BY DEF SetupStands
    <2>1. snapshot[row.ready] \in SavedSetups /\ S!Complete(row.ready)
      BY DEF SeasonInv, SeasonTypes, SetupsSound
    <2>2. snapshot[row.ready].sides \subseteq Teams
      BY <2>1 DEF SavedSetups
    <2>3. /\ S!SidesEligible(snapshot[row.ready].sides)
          /\ \A n \in snapshot[row.ready].lineup : n \in S!Playing /\ period[n].player \notin retired
      BY DEF SeasonInv, S!ReadyIsPlayable, S!LineupEligible
    <2>4. t \notin snapshot[row.ready].sides
      BY <1>4, <2>1, <2>3 DEF S!Complete
    <2> QED
      BY <1>1, <1>3, <2>2, <2>3, <2>4 DEF SetupStands, S!SidesEligible, S!Playing, S!Periods
  <1>9. row.status = "READY" => S!Open'
    BY <1>5 DEF SeasonInv, S!LifecyclesNest, S!Operational
  <1> QED
    BY <1>1, <1>2, <1>7, <1>8, <1>9, SetupKept

LEMMA ArchivePlayerKeeps ==
    ASSUME SeasonInv, NEW p \in Squad, NEW b \in BOOLEAN, S!SetPlayerArchived(p, b)
    PROVE  SeasonInv'
  <1> USE DEF S!SetPlayerArchived, S!Changes
  <1>1. SeasonTypes'
    BY DEF SeasonInv, SeasonTypes
  <1>2. \A n \in S!Playing : period[n].player \notin retired'
    BY DEF SeasonInv, S!LifecyclesNest
  <1>3. S!LifecyclesNest'
    BY <1>2 DEF SeasonInv, S!LifecyclesNest, S!Playing, S!Periods, S!Open
  <1>4. SetupStands
    BY <1>2 DEF SeasonInv, SetupStands, S!ReadyIsPlayable, S!SidesEligible, S!LineupEligible,
       S!Playing, S!Periods
  <1>5. row.status = "READY" => S!Open'
    BY DEF SeasonInv, S!LifecyclesNest, S!Operational, S!Open
  <1> QED
    BY <1>1, <1>3, <1>4, <1>5, SetupKept

-----------------------------------------------------------------------------
(* Roster periods *)

LEMMA BegunTyped ==
    ASSUME NEW t \in Teams, NEW p \in Squad, NEW at \in S!Days
    PROVE  /\ S!Begun(t, p, at) \in Entries
           /\ S!Begun(t, p, at).team = t /\ S!Begun(t, p, at).player = p
  BY DEF S!Begun, Entries

\* An entry that nobody in the ready set-up plays under is ended.
LEMMA EndedEntries ==
    ASSUME SeasonInv, NEW n \in S!Playing, NEW at \in S!Days
    PROVE  /\ S!Ended(n, at) \in Seq(Entries) /\ Len(S!Ended(n, at)) = Len(period)
           /\ S!Ended(n, at)[n].status = "INACTIVE"
           /\ \A m \in S!Periods : m # n => S!Ended(n, at)[m] = period[m]
  <1>1. period \in Seq(Entries) /\ n \in 1 .. Len(period)
    BY DEF SeasonInv, SeasonTypes, S!Playing, S!Periods
  <1>2. period[n] \in Entries
    BY <1>1
  <1> DEFINE e == [period[n] EXCEPT !.status = "INACTIVE", !.endsAt = at]
  <1>3. e \in Entries /\ e.status = "INACTIVE"
    BY <1>2 DEF Entries
  <1>4. S!Ended(n, at) = [period EXCEPT ![n] = e]
    BY <1>1, <1>2 DEF S!Ended, Entries
  <1> HIDE DEF e
  <1> QED
    BY <1>1, <1>3, <1>4 DEF S!Periods

\* Entries are appended for those who may play, and ended for those not in the ready set-up.
LEMMA EntriesKeep ==
    ASSUME SeasonInv, period' \in Seq(Entries), Len(period) <= Len(period'),
           \A n \in S!Periods : n \in S!Playing' => period'[n] = period[n],
           \A n \in S!Playing : S!InReadySetup(n) => period'[n] = period[n],
           \A n \in DOMAIN period' : n \notin S!Periods => S!CanPlay(period'[n].team, period'[n].player),
           UNCHANGED <<team, season, participation, retired, row, snapshot, submitted>>
    PROVE  SeasonInv'
  <1>1. SeasonTypes'
    BY DEF SeasonInv, SeasonTypes
  <1>2. ASSUME NEW n \in S!Playing'
        PROVE  /\ participation[period'[n].team] = "OPEN" /\ season # "ARCHIVED"
               /\ period'[n].player \notin retired
    <2>1. CASE n \in S!Periods
      <3>1. period'[n] = period[n] /\ n \in S!Playing
        BY <2>1 DEF S!Playing, S!Periods
      <3> QED
        BY <3>1 DEF SeasonInv, S!LifecyclesNest
    <2>2. CASE n \notin S!Periods
      BY <2>2 DEF S!CanPlay, S!Playing, S!Periods, S!Open
    <2> QED
      BY <2>1, <2>2
  <1>3. S!LifecyclesNest'
    BY <1>2 DEF SeasonInv, S!LifecyclesNest, S!Open
  <1>4. SetupStands
    <2> SUFFICES ASSUME row.status = "READY" PROVE SetupStands
      BY DEF SetupStands
    <2>1. /\ S!SidesEligible(snapshot[row.ready].sides)
          /\ \A n \in snapshot[row.ready].lineup : n \in S!Playing /\ period[n].player \notin retired
      BY DEF SeasonInv, S!ReadyIsPlayable, S!LineupEligible
    <2>2. \A n \in snapshot[row.ready].lineup : period'[n] = period[n]
      BY <2>1 DEF S!InReadySetup
    <2>3. \A n \in S!Playing : n \in DOMAIN period'
      BY DEF S!Playing, S!Periods, SeasonInv, SeasonTypes
    <2> QED
      BY <2>1, <2>2, <2>3 DEF SetupStands, S!SidesEligible
  <1>5. row.status = "READY" => S!Open'
    BY DEF SeasonInv, S!LifecyclesNest, S!Operational, S!Open
  <1> QED
    BY <1>1, <1>3, <1>4, <1>5, SetupKept

LEMMA AddPeriodKeeps ==
    ASSUME SeasonInv, NEW t \in Teams, NEW p \in Squad, NEW at \in S!Days,
           S!AddRosterPeriod(t, p, at)
    PROVE  SeasonInv'
  <1> DEFINE e == S!Begun(t, p, at)
  <1>1. /\ e \in Entries /\ e.team = t /\ e.player = p
    BY BegunTyped
  <1>2. /\ S!CanPlay(t, p) /\ period' = Append(period, e)
        /\ UNCHANGED <<team, season, participation, retired, row, snapshot, submitted>>
    BY DEF S!AddRosterPeriod
  <1>3. period \in Seq(Entries)
    BY DEF SeasonInv, SeasonTypes
  <1> HIDE DEF e
  <1>4. /\ period' \in Seq(Entries) /\ Len(period') = Len(period) + 1
        /\ \A n \in S!Periods : period'[n] = period[n]
        /\ \A n \in DOMAIN period' : n \notin S!Periods => period'[n] = e
    BY <1>1, <1>2, <1>3 DEF S!Periods
  <1>5. \A n \in S!Playing : period'[n] = period[n]
    BY <1>4 DEF S!Playing
  <1>6. Len(period) <= Len(period')
    BY <1>3, <1>4
  <1>7. \A n \in DOMAIN period' :
            n \notin S!Periods => S!CanPlay(period'[n].team, period'[n].player)
    BY <1>1, <1>2, <1>4
  <1> QED
    BY <1>2, <1>4, <1>5, <1>6, <1>7, EntriesKeep

LEMMA EndPeriodKeeps ==
    ASSUME SeasonInv, NEW n \in S!Periods, NEW at \in S!Days,
           S!EndRosterPeriod(n, at) \/ S!ChangeJersey(n, at)
    PROVE  SeasonInv'
  <1> DEFINE ended == S!Ended(n, at)
             e == S!Begun(period[n].team, period[n].player, at)
  <1>1. /\ n \in S!Playing /\ ~S!InReadySetup(n)
        /\ \/ period' = ended
           \/ period' = Append(ended, e) /\ S!CanPlay(period[n].team, period[n].player)
        /\ UNCHANGED <<team, season, participation, retired, row, snapshot, submitted>>
    BY DEF S!EndRosterPeriod, S!ChangeJersey
  <1>2. /\ ended \in Seq(Entries) /\ Len(ended) = Len(period)
        /\ ended[n].status = "INACTIVE"
        /\ \A m \in S!Periods : m # n => ended[m] = period[m]
    BY <1>1, EndedEntries
  <1>3. period \in Seq(Entries) /\ period[n] \in Entries
    BY DEF SeasonInv, SeasonTypes, S!Periods
  <1>4. e \in Entries /\ e.team = period[n].team /\ e.player = period[n].player
    BY <1>3, BegunTyped DEF Entries
  <1> HIDE DEF ended, e
  <1>5. /\ period' \in Seq(Entries) /\ Len(period) <= Len(period')
        /\ \A m \in S!Periods : period'[m] = ended[m]
        /\ \A m \in DOMAIN period' : m \notin S!Periods =>
              period'[m] = e /\ S!CanPlay(e.team, e.player)
    BY <1>1, <1>2, <1>3, <1>4, SMTT(20) DEF S!Periods
  <1>6. \A m \in S!Periods : m \in S!Playing' => period'[m] = period[m]
    BY <1>2, <1>5 DEF S!Playing
  <1>7. \A m \in S!Playing : S!InReadySetup(m) => period'[m] = period[m]
    BY <1>1, <1>2, <1>5 DEF S!Playing
  <1> QED
    BY <1>1, <1>5, <1>6, <1>7, EntriesKeep

-----------------------------------------------------------------------------
(* The game and its set-up *)

LEMMA CreateKeeps ==
    ASSUME DeskAssumption, SeasonInv, NEW at \in S!Days, S!CreateDraftGame(at)
    PROVE  SeasonInv'
  <1>1. row \in GameRows /\ row.status = None /\ snapshot = <<>> /\ Len(snapshot) = 0
    BY DEF SeasonInv, SeasonTypes, SetupsSound, S!CreateDraftGame
  <1>2. /\ row' \in GameRows /\ row'.status = "DRAFT"
        /\ row'.setupRevision = row.setupRevision
    BY <1>1 DEF S!CreateDraftGame, GameRows, S!Operational
  <1>3. UNCHANGED <<team, season, participation, retired, period, snapshot, submitted>>
    BY DEF S!CreateDraftGame
  <1>4. SeasonTypes'
    BY <1>2, <1>3 DEF SeasonInv, SeasonTypes
  <1>5. row'.status # None
    BY <1>2, DeskAssumption DEF DeskAssumption, S!SeasonAssumption, S!Operational
  <1>6. SetupsSound'
    BY <1>1, <1>2, <1>3, <1>5 DEF SeasonInv, SetupsSound
  <1>7. S!LifecyclesNest' /\ S!ReadyIsPlayable'
    BY <1>2, <1>3 DEF SeasonInv, S!LifecyclesNest, S!ReadyIsPlayable, S!CreateDraftGame, S!Playing,
       S!Periods, S!Open
  <1> QED
    BY <1>4, <1>6, <1>7 DEF SeasonInv

LEMMA SubmitKeeps ==
    ASSUME DeskAssumption, SeasonInv, NEW id \in Forms, NEW l \in Lineups, NEW at \in S!Days, S!Submit(id, l, at)
    PROVE  SeasonInv'
  <1>1. l \in [sides : SUBSET Teams, lineup : SUBSET Nat] /\ row \in GameRows
    BY DeskAssumption DEF DeskAssumption, S!SeasonAssumption, SeasonInv, SeasonTypes
  <1>2. [submission |-> id, sides |-> l.sides, lineup |-> l.lineup, scheduledAt |-> at,
         expected |-> row.setupRevision] \in SentSetups
    BY <1>1 DEF SentSetups, GameRows
  <1>3. UNCHANGED <<team, season, participation, retired, period, row, snapshot>>
    BY DEF S!Submit
  <1>4. SeasonTypes'
    BY <1>2, <1>3 DEF SeasonInv, SeasonTypes, S!Submit
  <1>5. S!LifecyclesNest' /\ S!ReadyIsPlayable' /\ SetupsSound'
    BY <1>3 DEF SeasonInv, SetupsSound, S!LifecyclesNest, S!ReadyIsPlayable, S!Playing, S!Periods,
       S!Open, S!SidesEligible, S!LineupEligible, S!Complete
  <1> QED
    BY <1>4, <1>5 DEF SeasonInv

LEMMA SaveKeeps ==
    ASSUME DeskAssumption, SeasonInv, NEW s \in submitted, S!SaveSetupRevision(s)
    PROVE  SeasonInv'
  <1>1. s \in SentSetups
    BY DEF SeasonInv, SeasonTypes
  <1> DEFINE saved == [submission |-> s.submission, sides |-> s.sides, lineup |-> s.lineup,
                       scheduledAt |-> s.scheduledAt]
  <1>2. saved \in SavedSetups /\ saved.scheduledAt = s.scheduledAt
    BY <1>1 DEF SavedSetups, SentSetups
  <1>3. snapshot' = Append(snapshot, saved)
    BY DEF S!SaveSetupRevision
  <1> HIDE DEF saved
  <1>4. /\ row'.status = "DRAFT" /\ row'.scheduledAt = s.scheduledAt
        /\ row'.setupRevision = row.setupRevision + 1 /\ row' \in GameRows
    BY <1>1 DEF S!SaveSetupRevision, GameRows, S!Operational, SentSetups
  <1>5. row.setupRevision = Len(snapshot) /\ snapshot \in Seq(SavedSetups)
    BY DEF SeasonInv, SetupsSound, SeasonTypes
  <1>6. /\ snapshot' \in Seq(SavedSetups) /\ Len(snapshot') = row'.setupRevision
        /\ snapshot'[Len(snapshot')] = saved
    BY <1>2, <1>3, <1>4, <1>5
  <1>7. UNCHANGED <<team, season, participation, retired, period, submitted>>
    BY DEF S!SaveSetupRevision
  <1>8. SeasonTypes'
    BY <1>4, <1>6, <1>7 DEF SeasonInv, SeasonTypes
  <1>9. row'.status # None /\ row.status \in {"DRAFT", "READY"}
    BY <1>4, DeskAssumption
    DEF DeskAssumption, S!SeasonAssumption, S!Operational, S!SaveSetupRevision, S!Editable
  <1>10. SetupsSound'
    BY <1>2, <1>4, <1>6, <1>9 DEF SetupsSound
  <1>11. S!LifecyclesNest' /\ S!ReadyIsPlayable'
    BY <1>4, <1>7, <1>9 DEF SeasonInv, S!LifecyclesNest, S!ReadyIsPlayable, S!Playing, S!Periods, S!Open,
       S!Operational
  <1> QED
    BY <1>8, <1>10, <1>11 DEF SeasonInv

LEMMA ReadyKeeps ==
    ASSUME DeskAssumption, SeasonInv, NEW n \in DOMAIN snapshot, S!MarkSetupReady(n)
    PROVE  SeasonInv'
  <1>1. row \in GameRows /\ row.setupRevision = Len(snapshot) /\ snapshot \in Seq(SavedSetups)
    BY DEF SeasonInv, SeasonTypes, SetupsSound
  <1>2. n = Len(snapshot) /\ n \in Nat
    BY <1>1 DEF S!MarkSetupReady
  <1>3. /\ row' \in GameRows /\ row'.status = "READY" /\ row'.ready = n
        /\ row'.setupRevision = row.setupRevision /\ row'.scheduledAt = row.scheduledAt
    BY <1>1, <1>2 DEF S!MarkSetupReady, GameRows, S!Operational
  <1>4. UNCHANGED <<team, season, participation, retired, period, snapshot, submitted>>
    BY DEF S!MarkSetupReady
  <1>5. SeasonTypes'
    BY <1>3, <1>4 DEF SeasonInv, SeasonTypes
  <1>6. row'.status # None /\ row.status = "DRAFT" /\ snapshot # <<>>
    BY <1>1, <1>2, <1>3, DeskAssumption
    DEF DeskAssumption, S!SeasonAssumption, S!Operational, S!MarkSetupReady
  <1>7. S!Complete(n)'
    BY <1>4 DEF S!MarkSetupReady, S!Complete
  <1>8. SetupsSound'
    BY <1>1, <1>3, <1>4, <1>6, <1>7 DEF SeasonInv, SetupsSound
  <1>9. S!LifecyclesNest'
    BY <1>3, <1>4, <1>6 DEF SeasonInv, S!LifecyclesNest, S!Playing, S!Periods, S!Open, S!Operational
  <1>10. /\ S!SidesEligible(snapshot[n].sides)'
         /\ S!LineupEligible(snapshot[n].sides, snapshot[n].lineup, snapshot[n].scheduledAt)'
    BY <1>4 DEF S!MarkSetupReady, S!SidesEligible, S!LineupEligible, S!Open, S!Playing, S!Periods
  <1>11. row.scheduledAt = snapshot[n].scheduledAt
    BY <1>2, <1>6 DEF SeasonInv, SetupsSound
  <1>12. S!ReadyIsPlayable'
    BY <1>2, <1>3, <1>4, <1>10, <1>11 DEF S!ReadyIsPlayable
  <1> QED
    BY <1>5, <1>8, <1>9, <1>12 DEF SeasonInv

LEMMA MoveKeeps ==
    ASSUME DeskAssumption, SeasonInv, NEW to \in {"IN_PROGRESS", "FINAL", "CORRECTED"}, S!GameMoves(to)
    PROVE  SeasonInv'
  <1>1. row \in GameRows
    BY DEF SeasonInv, SeasonTypes
  <1>2. /\ row' \in GameRows /\ row'.status = to
        /\ row'.setupRevision = row.setupRevision /\ row'.scheduledAt = row.scheduledAt
    BY <1>1 DEF S!GameMoves, GameRows, S!Operational
  <1>3. UNCHANGED <<team, season, participation, retired, period, snapshot, submitted>>
    BY DEF S!GameMoves
  <1>4. SeasonTypes'
    BY <1>2, <1>3 DEF SeasonInv, SeasonTypes
  <1>5. to # None
    BY DeskAssumption DEF DeskAssumption, S!SeasonAssumption, S!Operational
  <1>6. SetupsSound'
    BY <1>2, <1>3, <1>5 DEF SeasonInv, SetupsSound
  <1>7. to = "IN_PROGRESS" => row.status = "READY"
    BY DEF S!GameMoves
  <1>8. S!LifecyclesNest'
    BY <1>2, <1>3, <1>7 DEF SeasonInv, S!LifecyclesNest, S!Playing, S!Periods, S!Open, S!Operational
  <1>9. S!ReadyIsPlayable'
    BY <1>2 DEF S!ReadyIsPlayable
  <1> QED
    BY <1>4, <1>6, <1>8, <1>9 DEF SeasonInv

LEMMA SeasonStepKeeps ==
    ASSUME DeskAssumption, SeasonInv, S!SeasonNext
    PROVE  SeasonInv'
  BY DeskAssumption, ArchiveTeamKeeps, TransitionKeeps, OpenTeamKeeps, ArchiveTeamSeasonKeeps,
     ArchivePlayerKeeps, AddPeriodKeeps, EndPeriodKeeps, CreateKeeps, SubmitKeeps, SaveKeeps,
     ReadyKeeps, MoveKeeps
  DEF S!SeasonNext

-----------------------------------------------------------------------------
(* Drafts and requests *)

Pages    == [revision : Nat, key : Nat, play : Plays \cup {None}, result : {"IDLE", "SUCCESS", "ERROR"}]
Drafts   == [key : Nat, play : Plays, revision : Nat]
Requests == [by : (Tabs \X {"PANEL", "BOUNDARY"}) \cup {None}, key : Nat, play : Plays,
             revision : Nat, answer : {"SENT", "CHARGED", "SUCCESS", "REFUSED", "IDEMPOTENCY_CONFLICT"}]
PlaysAccepted == [key : Nat \cup {None}, play : Plays \cup {None}]

ClientTypes ==
    /\ tab \in [Tabs -> Pages]
    /\ store \in Drafts \cup {None}
    /\ request \in Seq(Requests)
    /\ history \in Seq(PlaysAccepted)

\* Somewhere the key is used for the play.
Names(key, play) ==
    \/ \E t \in Tabs : tab[t].key = key /\ tab[t].play = play /\ play # None
    \/ store # None /\ store.key = key /\ store.play = play
    \/ \E n \in DOMAIN request : request[n].key = key /\ request[n].play = play

\* A key is of one tab and for one play, and one that names none yet is unused.
KeysAgree ==
    /\ \A t, u \in Tabs : tab[t].key = tab[u].key => t = u
    /\ \A key \in Nat, p, q \in Plays : Names(key, p) /\ Names(key, q) => p = q
    /\ \A t \in Tabs, p \in Plays : tab[t].play = None => ~Names(tab[t].key, p)

\* A play was not recorded at the revision it was entered at.
Unrecorded(play, revision) ==
    revision <= Len(history) /\ \A m \in 1 .. revision : history[m].play # play
PlaysUnrecorded ==
    /\ \A t \in Tabs : /\ tab[t].revision <= Len(history)
                       /\ tab[t].play # None => Unrecorded(tab[t].play, tab[t].revision)
    /\ store # None => Unrecorded(store.play, store.revision)
    /\ \A n \in DOMAIN request : Unrecorded(request[n].play, request[n].revision)

ClientInv == ClientTypes /\ KeysAgree /\ PlaysUnrecorded /\ C!RecordedOnce

LEMMA TabsCounted ==
    ASSUME IsFiniteSet(Tabs)
    PROVE  \E k \in [Tabs -> 1 .. C!Cardinality(Tabs)] : \A t, u \in Tabs : k[t] = k[u] => t = u
  <1>1. C!Cardinality(Tabs) = Cardinality(Tabs)
    BY DEF C!Cardinality, Cardinality, C!IsFiniteSet, IsFiniteSet
  <1>2. ExistsBijection(1 .. Cardinality(Tabs), Tabs) /\ Cardinality(Tabs) \in Nat
    BY FS_CardinalityType
  <1>3. ExistsBijection(Tabs, 1 .. Cardinality(Tabs))
    BY <1>2, Fun_ExistsBijSymmetric
  <1>4. PICK k : k \in Bijection(Tabs, 1 .. Cardinality(Tabs))
    BY <1>3 DEF ExistsBijection
  <1>5. k \in [Tabs -> 1 .. Cardinality(Tabs)] /\ \A t, u \in Tabs : k[t] = k[u] => t = u
    BY <1>4, Fun_BijectionProperties
  <1> QED
    BY <1>1, <1>5

LEMMA ClientInit ==
    ASSUME DeskAssumption, C!ClientInit
    PROVE  ClientInv
  <1>1. IsFiniteSet(Tabs)
    BY DEF DeskAssumption, C!ClientAssumption, C!IsFiniteSet, IsFiniteSet
  <1> DEFINE Keys == [Tabs -> 1 .. C!Cardinality(Tabs)]
             key == CHOOSE k \in Keys : \A t, u \in Tabs : k[t] = k[u] => t = u
  <1>2. key \in Keys /\ \A t, u \in Tabs : key[t] = key[u] => t = u
    BY <1>1, TabsCounted
  <1>3. C!Cardinality(Tabs) \in Nat
    <2>1. C!Cardinality(Tabs) = Cardinality(Tabs)
      BY DEF C!Cardinality, Cardinality, C!IsFiniteSet, IsFiniteSet
    <2> QED
      BY <1>1, <2>1, FS_CardinalityType
  <1>4. /\ tab = [t \in Tabs |-> C!Mounted(0, key[t])]
        /\ store = None /\ request = <<>> /\ history = <<>>
    BY DEF C!ClientInit
  <1> HIDE DEF key
  <1>5. \A t \in Tabs : key[t] \in Nat
    BY <1>2, <1>3
  <1>6. tab \in [Tabs -> Pages] /\ \A t \in Tabs : tab[t].key = key[t] /\ tab[t].play = None /\ tab[t].revision = 0
    BY <1>4, <1>5 DEF C!Mounted, Pages
  <1>7. ClientTypes
    BY <1>4, <1>6 DEF ClientTypes
  <1>8. KeysAgree
    BY <1>2, <1>4, <1>6 DEF KeysAgree, Names
  <1>9. PlaysUnrecorded /\ C!RecordedOnce
    BY <1>4, <1>6 DEF PlaysUnrecorded, C!RecordedOnce
  <1> QED
    BY <1>7, <1>8, <1>9 DEF ClientInv

\* A key newly made is one that nothing holds.
LEMMA NewKeyUnused ==
    ASSUME DeskAssumption, ClientTypes, C!Unused # {}
    PROVE  /\ C!NewKey \in Nat
           /\ \A t \in Tabs : tab[t].key # C!NewKey
           /\ \A p \in Plays : ~Names(C!NewKey, p)
  <1>1. C!Unused \subseteq Nat
    BY DEF C!Unused, DeskAssumption, C!ClientAssumption
  <1>2. \E k \in C!Unused : \A other \in C!Unused : k <= other
    BY <1>1, Induction!SmallestElement
  <1>3. C!NewKey \in C!Unused
    BY <1>2 DEF C!NewKey
  <1>4. C!NewKey \notin C!Held
    BY <1>3 DEF C!Unused
  <1> QED
    BY <1>1, <1>3, <1>4 DEF C!Held, Names

\* Steps that record nothing and use no new key.
LEMMA KeysStay ==
    ASSUME KeysAgree,
           \A t \in Tabs : tab'[t].key = tab[t].key /\ tab'[t].play = tab[t].play,
           \A key \in Nat, p \in Plays : Names(key, p)' => Names(key, p),
           ClientTypes
    PROVE  KeysAgree'
  BY DEF KeysAgree, ClientTypes, Pages

LEMMA LoadKeeps ==
    ASSUME DeskAssumption, ClientInv, NEW t \in Tabs, C!Load(t)
    PROVE  ClientInv'
  <1> DEFINE page == C!Mounted(Len(history), C!NewKey)
  <1>1. /\ C!NewKey \in Nat
        /\ \A u \in Tabs : tab[u].key # C!NewKey
        /\ \A p \in Plays : ~Names(C!NewKey, p)
    BY NewKeyUnused DEF ClientInv, C!Load
  <1>2. /\ page \in Pages /\ page.key = C!NewKey /\ page.play = None
        /\ page.revision = Len(history)
    BY <1>1 DEF C!Mounted, Pages, ClientInv, ClientTypes
  <1>3. tab' = [tab EXCEPT ![t] = page] /\ history' = history
    BY DEF C!Load
  <1> HIDE DEF page
  <1>4. tab' \in [Tabs -> Pages] /\ \A u \in Tabs : tab'[u] = IF u = t THEN page ELSE tab[u]
    BY <1>2, <1>3 DEF ClientInv, ClientTypes
  <1>5. store' \in {store, None}
    BY DEF C!Load
  <1>6. /\ request' \in Seq(Requests) /\ DOMAIN request' = DOMAIN request
        /\ \A n \in DOMAIN request : /\ request'[n].key = request[n].key
                                     /\ request'[n].play = request[n].play
                                     /\ request'[n].revision = request[n].revision
    <2>1. request \in Seq(Requests)
      BY DEF ClientInv, ClientTypes
    <2> DEFINE left(n) == IF \E via \in {"PANEL", "BOUNDARY"} : request[n].by = <<t, via>>
                          THEN [request[n] EXCEPT !.by = None] ELSE request[n]
    <2>2. request' = [n \in DOMAIN request |-> left(n)]
      BY DEF C!Load
    <2>3. ASSUME NEW n \in DOMAIN request
          PROVE  /\ left(n) \in Requests /\ left(n).key = request[n].key
                 /\ left(n).play = request[n].play /\ left(n).revision = request[n].revision
      <3>1. request[n] \in Requests
        BY <2>1
      <3> QED
        BY <3>1 DEF Requests
    <2> HIDE DEF left
    <2>4. DOMAIN request = 1 .. Len(request) /\ Len(request) \in Nat
      BY <2>1
    <2> QED
      BY <2>2, <2>3, <2>4
  <1>7. ClientTypes'
    BY <1>3, <1>4, <1>5, <1>6 DEF ClientInv, ClientTypes
  <1>8. \A key \in Nat, p \in Plays : Names(key, p)' => Names(key, p)
    <2>1. None \notin Plays
      BY DEF DeskAssumption, C!ClientAssumption
    <2> QED
      BY <1>2, <1>4, <1>5, <1>6, <2>1 DEF Names
  <1>9. KeysAgree'
    <2>1. KeysAgree /\ \A u \in Tabs : tab[u].key \in Nat
      BY DEF ClientInv, ClientTypes, Pages
    <2>2. \A u, v \in Tabs : tab'[u].key = tab'[v].key => u = v
      BY <1>1, <1>2, <1>4, <2>1 DEF KeysAgree
    <2>3. \A u \in Tabs, p \in Plays : tab'[u].play = None => ~Names(tab[u].key, p)'
      <3> SUFFICES ASSUME NEW u \in Tabs, NEW p \in Plays, tab'[u].play = None
                   PROVE  ~Names(tab[u].key, p)'
        OBVIOUS
      <3>1. PICK k \in Nat : k = tab'[u].key
        BY <1>1, <1>2, <1>4, <2>1
      <3>2. ~Names(k, p)
        BY <1>1, <1>2, <1>4, <2>1, <3>1 DEF KeysAgree
      <3>3. ~Names(k, p)'
        BY <1>8, <3>2
      <3> QED
        BY <3>1, <3>3 DEF Names
    <2>4. \A key \in Nat, p, q \in Plays : Names(key, p)' /\ Names(key, q)' => p = q
      BY <1>8, <2>1 DEF KeysAgree
    <2> QED
      BY <2>2, <2>3, <2>4 DEF KeysAgree
  <1>10. PlaysUnrecorded' /\ C!RecordedOnce'
    BY <1>2, <1>3, <1>4, <1>5, <1>6 DEF ClientInv, ClientTypes, PlaysUnrecorded, Unrecorded,
       C!RecordedOnce
  <1> QED
    BY <1>7, <1>9, <1>10 DEF ClientInv

LEMMA ProposeKeeps ==
    ASSUME DeskAssumption, ClientInv, NEW t \in Tabs, NEW play \in Plays, C!Propose(t, play)
    PROVE  ClientInv'
  <1> DEFINE key == C!ProposalKey(t, play)
             page == [tab[t] EXCEPT !.play = play, !.key = key]
             draft == [key |-> key, play |-> play, revision |-> tab[t].revision]
  <1>0. tab \in [Tabs -> Pages] /\ tab[t] \in Pages /\ history \in Seq(PlaysAccepted) /\ None \notin Plays
    BY DEF ClientInv, ClientTypes, DeskAssumption, C!ClientAssumption
  <1>1. \/ key = tab[t].key /\ tab[t].play \in {None, play}
        \/ /\ key \in Nat /\ \A u \in Tabs : tab[u].key # key
           /\ \A p \in Plays : ~Names(key, p)
    BY NewKeyUnused DEF ClientInv, C!Propose, C!ProposalKey
  <1>2. tab' = [tab EXCEPT ![t] = page] /\ store' = draft /\ UNCHANGED <<request, history>>
    BY <1>0 DEF C!Propose, Pages
  <1>3. play \notin C!Shown(t)
    BY DEF C!Propose
  <1> HIDE DEF key
  <1>4. key \in Nat /\ tab[t].revision \in Nat
    BY <1>0, <1>1 DEF Pages
  <1>5. /\ page \in Pages /\ page.key = key /\ page.play = play
        /\ page.revision = tab[t].revision
    BY <1>0, <1>4 DEF Pages
  <1>6. draft \in Drafts /\ draft.key = key /\ draft.play = play /\ draft.revision = tab[t].revision
    BY <1>4 DEF Drafts
  <1> HIDE DEF page, draft
  <1>7. tab' \in [Tabs -> Pages] /\ \A u \in Tabs : tab'[u] = IF u = t THEN page ELSE tab[u]
    BY <1>0, <1>2, <1>5
  <1>8. ClientTypes'
    BY <1>2, <1>6, <1>7 DEF ClientInv, ClientTypes
  <1>9. \A k \in Nat, p \in Plays : Names(k, p)' => Names(k, p) \/ (k = key /\ p = play)
    BY <1>2, <1>5, <1>6, <1>7 DEF Names
  <1>10. \A p \in Plays : Names(key, p) => p = play
    <2>1. KeysAgree
      BY DEF ClientInv
    <2>2. tab[t].play = play => Names(tab[t].key, play)
      BY <1>0 DEF Names
    <2> QED
      BY <1>0, <1>1, <1>4, <2>1, <2>2 DEF KeysAgree, Pages
  <1>11. \A u \in Tabs : u # t => tab[u].key # key
    BY <1>1 DEF ClientInv, KeysAgree
  <1>12. KeysAgree'
    <2>1. KeysAgree /\ \A u \in Tabs : tab[u].key \in Nat
      BY DEF ClientInv, ClientTypes, Pages
    <2>2. \A u, v \in Tabs : tab'[u].key = tab'[v].key => u = v
      BY <1>5, <1>7, <1>11, <2>1 DEF KeysAgree
    <2>3. \A u \in Tabs, p \in Plays : tab'[u].play = None => ~Names(tab[u].key, p)'
      <3> SUFFICES ASSUME NEW u \in Tabs, NEW p \in Plays, tab'[u].play = None
                   PROVE  ~Names(tab[u].key, p)'
        OBVIOUS
      <3>1. tab'[u] = tab[u] /\ tab[u].key # key
        BY <1>0, <1>5, <1>7, <1>11
      <3>2. PICK k \in Nat : k = tab'[u].key
        BY <2>1, <3>1
      <3>3. ~Names(k, p) /\ k # key
        BY <2>1, <3>1, <3>2 DEF KeysAgree
      <3>4. ~Names(k, p)'
        BY <1>9, <3>3
      <3> QED
        BY <3>2, <3>4 DEF Names
    <2>4. \A k \in Nat, p, q \in Plays : Names(k, p)' /\ Names(k, q)' => p = q
      BY <1>9, <1>10, <2>1 DEF KeysAgree
    <2> QED
      BY <2>2, <2>3, <2>4 DEF KeysAgree
  <1>13. Unrecorded(play, tab[t].revision)
    <2>1. tab[t].revision <= Len(history)
      BY DEF ClientInv, PlaysUnrecorded
    <2> QED
      BY <1>3, <2>1 DEF Unrecorded, C!Shown
  <1>14. PlaysUnrecorded' /\ C!RecordedOnce'
    BY <1>2, <1>5, <1>6, <1>7, <1>13 DEF ClientInv, PlaysUnrecorded, Unrecorded, C!RecordedOnce
  <1> QED
    BY <1>8, <1>12, <1>14 DEF ClientInv

\* Steps of the page and of the server that change neither proposals nor the history.
LEMMA QuietClientStep ==
    ASSUME ClientInv, request' \in Seq(Requests), store' \in Drafts \cup {None},
           tab' \in [Tabs -> Pages], history' = history,
           \A t \in Tabs : /\ tab'[t].key = tab[t].key /\ tab'[t].play = tab[t].play
                           /\ tab'[t].revision = tab[t].revision,
           store' \in {store, None},
           \A n \in DOMAIN request' :
               \/ /\ n \in DOMAIN request /\ request'[n].key = request[n].key
                  /\ request'[n].play = request[n].play /\ request'[n].revision = request[n].revision
               \/ /\ Names(request'[n].key, request'[n].play)
                  /\ Unrecorded(request'[n].play, request'[n].revision)
    PROVE  ClientInv'
  <1>1. ClientTypes'
    BY DEF ClientInv, ClientTypes
  <1>2. \A key \in Nat, p \in Plays : Names(key, p)' => Names(key, p)
    BY DEF Names
  <1>3. KeysAgree'
    BY <1>2, KeysStay DEF ClientInv
  <1>4. PlaysUnrecorded' /\ C!RecordedOnce'
    BY DEF ClientInv, PlaysUnrecorded, Unrecorded, C!RecordedOnce
  <1> QED
    BY <1>1, <1>3, <1>4 DEF ClientInv

LEMMA DiscardKeeps ==
    ASSUME ClientInv, NEW t \in Tabs, C!Discard(t)
    PROVE  ClientInv'
  BY QuietClientStep DEF C!Discard, ClientInv, ClientTypes

LEMMA SendKeeps ==
    ASSUME ClientInv, NEW t \in Tabs, NEW via \in {"PANEL", "BOUNDARY"},
           NEW key \in Nat, NEW play \in Plays, NEW revision \in Nat,
           Names(key, play), Unrecorded(play, revision),
           C!Send(t, via, key, play, revision), UNCHANGED <<tab, store, history>>
    PROVE  ClientInv'
  <1> DEFINE r == [by |-> <<t, via>>, key |-> key, play |-> play, revision |-> revision,
                   answer |-> "SENT"]
  <1>1. r \in Requests /\ r.key = key /\ r.play = play /\ r.revision = revision
    BY DEF Requests
  <1>2. request' = Append(request, r) /\ request \in Seq(Requests)
    BY DEF C!Send, ClientInv, ClientTypes
  <1> HIDE DEF r
  <1>3. /\ request' \in Seq(Requests) /\ DOMAIN request' = 1 .. Len(request) + 1
        /\ DOMAIN request = 1 .. Len(request) /\ Len(request) \in Nat
        /\ \A n \in DOMAIN request : request'[n] = request[n]
        /\ request'[Len(request) + 1] = r
    BY <1>1, <1>2
  <1>4. \A n \in DOMAIN request' :
            (n \in DOMAIN request /\ request'[n] = request[n]) \/ request'[n] = r
    BY <1>3
  <1>5. tab \in [Tabs -> Pages] /\ store \in Drafts \cup {None}
    BY DEF ClientInv, ClientTypes
  <1> QED
    BY <1>1, <1>3, <1>4, <1>5, QuietClientStep

LEMMA SubmitPlayKeeps ==
    ASSUME ClientInv, NEW t \in Tabs, C!Submit(t)
    PROVE  ClientInv'
  <1>1. tab[t] \in Pages /\ tab[t].play # None
    BY DEF ClientInv, ClientTypes, C!Submit
  <1>2. tab[t].key \in Nat /\ tab[t].play \in Plays /\ tab[t].revision \in Nat
    BY <1>1 DEF Pages
  <1>3. Names(tab[t].key, tab[t].play)
    BY <1>1 DEF Names
  <1>4. Unrecorded(tab[t].play, tab[t].revision)
    BY <1>1 DEF ClientInv, PlaysUnrecorded
  <1>5. /\ C!Send(t, "PANEL", tab[t].key, tab[t].play, tab[t].revision)
        /\ UNCHANGED <<tab, store, history>>
    BY DEF C!Submit
  <1> QED
    BY <1>2, <1>3, <1>4, <1>5, SendKeeps

LEMMA RetryKeeps ==
    ASSUME ClientInv, NEW t \in Tabs, C!RetryRecovered(t)
    PROVE  ClientInv'
  <1>1. store # None /\ store \in Drafts
    BY DEF ClientInv, ClientTypes, C!RetryRecovered, C!Recoverable
  <1>2. store.key \in Nat /\ store.play \in Plays /\ store.revision \in Nat
    BY <1>1 DEF Drafts
  <1>3. Names(store.key, store.play)
    BY <1>1 DEF Names
  <1>4. Unrecorded(store.play, store.revision)
    BY <1>1 DEF ClientInv, PlaysUnrecorded
  <1>5. /\ C!Send(t, "BOUNDARY", store.key, store.play, store.revision)
        /\ UNCHANGED <<tab, store, history>>
    BY DEF C!RetryRecovered, C!ExpectedRevision
  <1> QED
    BY <1>2, <1>3, <1>4, <1>5, SendKeeps

\* An answer changes nothing else of a request.
LEMMA AnswerKeeps ==
    ASSUME ClientTypes, NEW n \in DOMAIN request,
           NEW answer \in {"SENT", "CHARGED", "SUCCESS", "REFUSED", "IDEMPOTENCY_CONFLICT"},
           request' = C!Answered(n, answer)
    PROVE  /\ request' \in Seq(Requests) /\ DOMAIN request' = DOMAIN request
           /\ \A m \in DOMAIN request : /\ request'[m].key = request[m].key
                                        /\ request'[m].play = request[m].play
                                        /\ request'[m].revision = request[m].revision
  <1>1. request \in Seq(Requests) /\ request[n] \in Requests
    BY DEF ClientTypes
  <1> DEFINE r == [request[n] EXCEPT !.answer = answer]
  <1>2. /\ r \in Requests /\ r.key = request[n].key /\ r.play = request[n].play
        /\ r.revision = request[n].revision
    BY <1>1 DEF Requests
  <1>3. request' = [request EXCEPT ![n] = r]
    BY <1>1 DEF C!Answered, Requests
  <1> HIDE DEF r
  <1>4. \A m \in DOMAIN request : request'[m] = IF m = n THEN r ELSE request[m]
    BY <1>1, <1>3
  <1> QED
    BY <1>1, <1>2, <1>3, <1>4

LEMMA ChargeKeeps ==
    ASSUME ClientInv, NEW n \in DOMAIN request, C!ChargeRequest(n)
    PROVE  ClientInv'
  <1>1. /\ \E answer \in {"CHARGED", "IDEMPOTENCY_CONFLICT"} : request' = C!Answered(n, answer)
        /\ UNCHANGED <<tab, store, history>>
    BY DEF C!ChargeRequest, C!Answered
  <1>2. /\ request' \in Seq(Requests) /\ DOMAIN request' = DOMAIN request
        /\ \A m \in DOMAIN request : /\ request'[m].key = request[m].key
                                     /\ request'[m].play = request[m].play
                                     /\ request'[m].revision = request[m].revision
    BY <1>1, AnswerKeeps DEF ClientInv
  <1> QED
    BY <1>1, <1>2, QuietClientStep DEF ClientInv, ClientTypes

\* An event is appended: of somebody else, or of a play that is not recorded.
LEMMA HistoryGrows ==
    ASSUME ClientInv, NEW e \in PlaysAccepted, history' = Append(history, e),
           \A m \in DOMAIN history : e.play # None => history[m].play # e.play,
           UNCHANGED <<tab, store>>,
           request' \in Seq(Requests), DOMAIN request' = DOMAIN request,
           \A n \in DOMAIN request : /\ request'[n].key = request[n].key
                                     /\ request'[n].play = request[n].play
                                     /\ request'[n].revision = request[n].revision
    PROVE  ClientInv'
  <1>1. history \in Seq(PlaysAccepted) /\ tab \in [Tabs -> Pages]
        /\ store \in Drafts \cup {None} /\ request \in Seq(Requests)
    BY DEF ClientInv, ClientTypes
  <1>2. /\ history' \in Seq(PlaysAccepted) /\ Len(history') = Len(history) + 1
        /\ Len(history) \in Nat
        /\ \A m \in 1 .. Len(history) : history'[m] = history[m]
        /\ history'[Len(history) + 1] = e
    BY <1>1
  <1>3. ClientTypes'
    BY <1>1, <1>2 DEF ClientTypes
  <1>4. \A key \in Nat, p \in Plays : Names(key, p)' => Names(key, p)
    BY DEF Names
  <1>5. KeysAgree'
    BY <1>4, KeysStay DEF ClientInv
  <1>6. ASSUME NEW p, NEW r \in Nat, Unrecorded(p, r) PROVE Unrecorded(p, r)'
    BY <1>2, <1>6 DEF Unrecorded
  <1>7. PlaysUnrecorded'
    <2>1. ASSUME NEW t \in Tabs
          PROVE  /\ tab[t].revision <= Len(history')
                 /\ tab[t].play # None => Unrecorded(tab[t].play, tab[t].revision)'
      <3>1. tab[t].revision \in Nat /\ tab' = tab
        BY <1>1 DEF Pages
      <3>2. tab[t].revision <= Len(history)
        BY DEF ClientInv, PlaysUnrecorded
      <3>3. tab[t].play # None => Unrecorded(tab[t].play, tab[t].revision)
        BY DEF ClientInv, PlaysUnrecorded
      <3> QED
        BY <1>2, <3>1, <3>2, <3>3 DEF Unrecorded
    <2>2. store # None => Unrecorded(store.play, store.revision)'
      <3> SUFFICES ASSUME store # None PROVE Unrecorded(store.play, store.revision)'
        OBVIOUS
      <3>1. store.revision \in Nat /\ store' = store
        BY <1>1 DEF Drafts
      <3>2. Unrecorded(store.play, store.revision)
        BY DEF ClientInv, PlaysUnrecorded
      <3> QED
        BY <1>2, <3>1, <3>2 DEF Unrecorded
    <2>3. ASSUME NEW n \in DOMAIN request PROVE Unrecorded(request[n].play, request[n].revision)'
      <3>1. request[n] \in Requests
        BY <1>1
      <3>3. request[n].revision \in Nat
        BY <3>1 DEF Requests
      <3>2. Unrecorded(request[n].play, request[n].revision)
        BY DEF ClientInv, PlaysUnrecorded
      <3> QED
        BY <1>2, <3>3, <3>2 DEF Unrecorded
    <2> QED
      BY <2>1, <2>2, <2>3 DEF PlaysUnrecorded
  <1>8. C!RecordedOnce'
    <2>1. C!RecordedOnce /\ DOMAIN history = 1 .. Len(history)
          /\ DOMAIN history' = 1 .. Len(history) + 1
      BY <1>1, <1>2 DEF ClientInv
    <2> SUFFICES ASSUME NEW m \in 1 .. Len(history) + 1, NEW n \in 1 .. Len(history) + 1,
                        history'[m].play = history'[n].play, history'[m].play # None
                 PROVE  m = n
      BY <2>1 DEF C!RecordedOnce
    <2>2. CASE m \in 1 .. Len(history) /\ n \in 1 .. Len(history)
      BY <1>2, <2>1, <2>2 DEF C!RecordedOnce
    <2>3. CASE m = Len(history) + 1 /\ n \in 1 .. Len(history)
      BY <1>2, <2>1, <2>3
    <2>4. CASE n = Len(history) + 1 /\ m \in 1 .. Len(history)
      BY <1>2, <2>1, <2>4
    <2> QED
      BY <1>2, <2>2, <2>3, <2>4
  <1> QED
    BY <1>3, <1>5, <1>7, <1>8 DEF ClientInv

LEMMA AcceptKeeps ==
    ASSUME ClientInv, NEW n \in DOMAIN request, C!AcceptRequest(n)
    PROVE  ClientInv'
  <1>0. request \in Seq(Requests) /\ request[n] \in Requests /\ history \in Seq(PlaysAccepted)
    BY DEF ClientInv, ClientTypes
  <1>1. /\ \E answer \in {"SUCCESS", "REFUSED"} : request' = C!Answered(n, answer)
        /\ UNCHANGED <<tab, store>>
    BY DEF C!AcceptRequest
  <1>2. /\ request' \in Seq(Requests) /\ DOMAIN request' = DOMAIN request
        /\ \A m \in DOMAIN request : /\ request'[m].key = request[m].key
                                     /\ request'[m].play = request[m].play
                                     /\ request'[m].revision = request[m].revision
    BY <1>1, AnswerKeeps DEF ClientInv
  <1>3. CASE history' = history
    BY <1>1, <1>2, <1>3, QuietClientStep DEF ClientInv, ClientTypes
  <1>4. CASE history' # history
    <2> DEFINE e == [key |-> request[n].key, play |-> request[n].play]
    <2>1. request[n].revision = Len(history) /\ history' = Append(history, e)
      BY <1>4 DEF C!AcceptRequest
    <2>2. e \in PlaysAccepted /\ e.play = request[n].play
      BY <1>0 DEF Requests, PlaysAccepted
    <2>3. Unrecorded(request[n].play, Len(history))
      BY <2>1 DEF ClientInv, PlaysUnrecorded
    <2>4. DOMAIN history = 1 .. Len(history)
      BY <1>0
    <2> HIDE DEF e
    <2>5. \A m \in DOMAIN history : e.play # None => history[m].play # e.play
      BY <2>2, <2>3, <2>4 DEF Unrecorded
    <2> QED
      BY <1>1, <1>2, <2>1, <2>2, <2>5, HistoryGrows
  <1> QED
    BY <1>3, <1>4

LEMMA OtherKeeps ==
    ASSUME ClientInv, C!OtherScorer
    PROVE  ClientInv'
  <1> DEFINE e == [key |-> None, play |-> None]
  <1>1. e \in PlaysAccepted /\ e.play = None
    BY DEF PlaysAccepted
  <1>2. /\ history' = Append(history, e) /\ UNCHANGED <<tab, store, request>>
        /\ request \in Seq(Requests)
    BY DEF C!OtherScorer, ClientInv, ClientTypes
  <1> HIDE DEF e
  <1> QED
    BY <1>1, <1>2, HistoryGrows

\* A page that hears an answer changes its result alone.
LEMMA HeardKeeps ==
    ASSUME ClientInv, NEW n \in DOMAIN request, NEW result \in {"SUCCESS", "ERROR"},
           request[n].by # None, C!Heard(n, result), store' \in {store, None}, history' = history
    PROVE  ClientInv'
  <1>1. /\ request \in Seq(Requests) /\ request[n] \in Requests
        /\ tab \in [Tabs -> Pages] /\ store \in Drafts \cup {None}
    BY DEF ClientInv, ClientTypes
  <1> DEFINE r == [request[n] EXCEPT !.by = None]
             t == request[n].by[1]
             page == [tab[t] EXCEPT !.result = result]
  <1>2. /\ r \in Requests /\ r.key = request[n].key /\ r.play = request[n].play
        /\ r.revision = request[n].revision
    BY <1>1 DEF Requests
  <1>3. request' = [request EXCEPT ![n] = r]
    BY <1>1 DEF C!Heard, Requests
  <1>4. t \in Tabs
    BY <1>1 DEF Requests
  <1>5. /\ page \in Pages /\ page.key = tab[t].key /\ page.play = tab[t].play
        /\ page.revision = tab[t].revision
    BY <1>1, <1>4 DEF Pages
  <1>6. tab' = tab \/ tab' = [tab EXCEPT ![t] = page]
    BY <1>1, <1>4 DEF C!Heard, Pages
  <1> HIDE DEF r, t, page
  <1>7. /\ request' \in Seq(Requests)
        /\ \A m \in DOMAIN request' : m \in DOMAIN request
              /\ request'[m] = IF m = n THEN r ELSE request[m]
    BY <1>1, <1>2, <1>3
  <1>8. /\ tab' \in [Tabs -> Pages]
        /\ \A u \in Tabs : tab'[u] = tab[u] \/ (u = t /\ tab'[u] = page)
    BY <1>1, <1>4, <1>5, <1>6
  <1> QED
    BY <1>1, <1>2, <1>5, <1>7, <1>8, QuietClientStep

LEMMA ClientStepKeeps ==
    ASSUME DeskAssumption, ClientInv, C!ClientNext
    PROVE  ClientInv'
  <1>1. ASSUME NEW n \in DOMAIN request,
               C!HearSuccess(n) \/ C!HearRefusal(n) \/ C!ConnectionFails(n)
        PROVE  ClientInv'
    BY <1>1, HeardKeeps DEF C!HearSuccess, C!HearRefusal, C!ConnectionFails
  <1>2. ASSUME NEW c, C!ChargeExpires(c) PROVE ClientInv'
    BY <1>2, QuietClientStep DEF C!ChargeExpires, ClientInv, ClientTypes
  <1> QED
    BY <1>1, <1>2, LoadKeeps, DiscardKeeps, SubmitPlayKeeps, RetryKeeps, ProposeKeeps, ChargeKeeps,
       AcceptKeeps, OtherKeeps
    DEF C!ClientNext

-----------------------------------------------------------------------------
(* The desk *)

DeskInv == SeasonInv /\ ClientInv

LEMMA DeskStutters ==
    /\ SeasonInv /\ UNCHANGED seasonVars => SeasonInv'
    /\ ClientInv /\ UNCHANGED clientVars => ClientInv'
  <1>1. SeasonInv /\ UNCHANGED seasonVars => SeasonInv'
    BY DEF seasonVars, SeasonInv, SeasonTypes, SetupsSound, S!LifecyclesNest,
       S!ReadyIsPlayable, S!Complete, S!Playing, S!Periods, S!Open,
       S!SidesEligible, S!LineupEligible
  <1>2. ClientInv /\ UNCHANGED clientVars => ClientInv'
    BY DEF clientVars, ClientInv, ClientTypes, KeysAgree, Names, PlaysUnrecorded, Unrecorded,
       C!RecordedOnce
  <1> QED
    BY <1>1, <1>2

\* Whatever is managed in a season and whatever two tabs of a browser do with the shared
\* draft, both parts of the desk keep their invariants.
THEOREM DeskInvariant ==
    ASSUME DeskAssumption
    PROVE  DeskSpec => []DeskInv
  <1>1. DeskInit => DeskInv
    BY SeasonInit, ClientInit DEF DeskInit, DeskInv
  <1>2. DeskInv /\ [DeskNext]_deskVars => DeskInv'
    BY SeasonStepKeeps, ClientStepKeeps, DeskStutters DEF DeskNext, deskVars, DeskInv
  <1> HIDE DEF DeskInv
  <1> QED
    BY <1>1, <1>2, PTL DEF DeskSpec

\* No season, participation, team or player is archived over what it encloses, and a game
\* that is ready can be played as it was set up, in every order of commands.
THEOREM SeasonCorrect ==
    ASSUME DeskAssumption
    PROVE  DeskSpec => []SeasonHolds
  <1>1. DeskInv => SeasonHolds
    BY DEF DeskInv, SeasonInv, SeasonHolds
  <1> QED
    BY <1>1, DeskInvariant, PTL

\* A game is scored by the set-up that was ready when it began: no later submission, and no
\* other command, replaces it.
THEOREM SetupCorrect ==
    ASSUME DeskAssumption
    PROVE  DeskSpec => ScoredAsSetUp
  <1>1. DeskInv /\ [DeskNext]_deskVars =>
            [row.status \in {"IN_PROGRESS", "FINAL", "CORRECTED"} =>
                snapshot' = snapshot /\ row'.ready = row.ready]_S!seasonVars
    <2> SUFFICES ASSUME DeskInv, DeskNext, row.status \in {"IN_PROGRESS", "FINAL", "CORRECTED"}
                 PROVE  snapshot' = snapshot /\ row'.ready = row.ready
      BY DEF deskVars, seasonVars, S!seasonVars
    <2>1. row \in GameRows /\ row.status # None
      BY DEF DeskInv, SeasonInv, SeasonTypes, DeskAssumption, S!SeasonAssumption,
         S!Operational
    <2>2. CASE UNCHANGED seasonVars
      BY <2>2 DEF seasonVars
    <2>3. CASE S!SeasonNext
      <3>1. CASE snapshot' = snapshot /\ row' = row
        BY <3>1
      <3>2. ASSUME NEW to, S!GameMoves(to) PROVE snapshot' = snapshot /\ row'.ready = row.ready
        BY <2>1, <3>2 DEF S!GameMoves, GameRows
      <3>3. \/ snapshot' = snapshot /\ row' = row
            \/ \E to \in {"IN_PROGRESS", "FINAL", "CORRECTED"} : S!GameMoves(to)
        BY <2>1, <2>3 DEF S!SeasonNext, S!AddTeamSeason, S!ArchiveTeamSeason,
           S!RestoreTeamSeason, S!SetTeamArchived, S!AddRosterPeriod,
           S!TransitionSeason, S!SetPlayerArchived, S!EndRosterPeriod,
           S!ChangeJersey, S!CreateDraftGame, S!Submit, S!SaveSetupRevision,
           S!Editable, S!MarkSetupReady
      <3> QED
        BY <3>1, <3>2, <3>3
    <2> QED
      BY <2>2, <2>3 DEF DeskNext
  <1> QED
    BY <1>1, DeskInvariant, PTL DEF DeskSpec, ScoredAsSetUp, S!ScoredAsSetUp

\* A submission key stands for one play, and a play is recorded once, whatever was lost,
\* repeated, discarded or sent from two tabs.
THEOREM DraftsCorrect ==
    ASSUME DeskAssumption
    PROVE  DeskSpec => []DraftsHold
  <1>1. DeskInv => DraftsHold
    <2> SUFFICES ASSUME DeskInv, NEW m \in DOMAIN request, NEW n \in DOMAIN request,
                        request[m].key = request[n].key
                 PROVE  request[m].play = request[n].play
      BY DEF DeskInv, ClientInv, DraftsHold, C!KeyNamesOnePlay
    <2>1. request[m] \in Requests /\ request[n] \in Requests /\ KeysAgree
      BY DEF DeskInv, ClientInv, ClientTypes
    <2>2. Names(request[m].key, request[m].play) /\ Names(request[m].key, request[n].play)
      BY DEF Names
    <2> QED
      BY <2>1, <2>2 DEF KeysAgree, Requests
  <1> QED
    BY <1>1, DeskInvariant, PTL

\* The game of the desk is a game: it starts as one, and is scored by its events.
LEMMA DeskGame == DeskSpec => Spec
<1>1. DeskInit => Init BY DEF DeskInit
<1>2. [DeskNext]_deskVars => [Next]_vars BY DEF DeskNext, deskVars, vars
<1> QED BY <1>1, <1>2, PTL DEF DeskSpec, Spec

\* What the plate and runner panels show and offer is what the server makes of the play,
\* their forced labels and defaults included, in every state of a game with six in each
\* order whose scorer records no passing.
THEOREM PanelsCorrect ==
  ASSUME SixInEachOrder, ~PassingRecorded
  PROVE  DeskSpec => []PanelsAreRight
<1> DEFINE Invariant == SoundRunners(game)
<1>1. IInv /\ Invariant => PanelsAreRight
  BY PlatePanel, PanelDefaults, RunnerPanel DEF PanelsAreRight
<1>2. Spec => []Invariant BY RunnersInvariant
<1> HIDE DEF Invariant
<1> QED BY <1>1, <1>2, DeskGame, EngineInvariant, PTL

-----------------------------------------------------------------------------
(* The lineup panel, beside the reducer *)

\* What the panel offers at first is among the positions in use.
OfferedInUse == \A mode \in Modes : OfferedPosition[mode] \in Positions

\* Of the lists, what can be recorded is what the reducer's guard says.
LEMMA SubstitutionListed ==
  ASSUME NEW s \in State, Live(s), NEW side \in Sides,
         NEW out \in Players, NEW in \in Players, NEW pos \in Positions
  PROVE  CanSubstitute(s, side, out, in, pos) <=>
             /\ out \in Leaving(s, side) /\ in \in Unused(s, side) /\ pos \in Roles
             /\ s.defense[side][pos] \in {None, out}
             /\ out \in Runners(s) => s.resp[out] # None
<1>1. out \in Runners(s) <=> \E b \in Bases : s.bases[b] = out
  BY LineupAssumption DEF Runners, Occupied
<1> QED
  BY <1>1 DEF CanSubstitute, MayLeave, MayEnter, Leaving, ActivePlayers, Unused, Roles

LEMMA SideOfModes ==
  ASSUME NEW s, NEW mode
  PROVE  SideOf(s, mode) \in Sides
BY DEF SideOf, BattingSide, FieldingSide, Other, Sides

LEMMA ListsHold ==
  ASSUME NEW s \in State, Live(s)
  PROVE  ListsAreRight(s)
BY SubstitutionListed, SideOfModes DEF ListsAreRight

\* At PITCHER stands the pitcher and nobody else.
LEMMA OnlyPitcherPitches ==
  ASSUME NEW s \in State, SoundLineup(s), NEW p \in s.active, s.position[p] = "PITCHER"
  PROVE  p = s.pitcher[Team[p]]
<1> DEFINE side == Team[p]
<1>1. p \in Players /\ side \in Sides /\ s.pitcher[side] \in Players
  BY LineupAssumption DEF State, Mounds
<1>2. s.defense[side]["PITCHER"] = p
  BY <1>1, LineupAssumption DEF SoundLineup, DefenseMatches
<1>3. s.defense[side]["PITCHER"] = s.pitcher[side]
  BY <1>1, LineupAssumption DEF SoundLineup, DefenseMatches, Standing
<1> QED BY <1>2, <1>3

\* What is filled in when a mode is chosen: players of the side, or the empty choice.
LEMMA FilledIn ==
  ASSUME NEW s \in State, SoundLineup(s), SoundRunners(s), OfferedInUse,
         NEW mode \in Modes, NEW f \in ChooseMode(s, mode)
  PROVE  LET side == SideOf(s, mode)
         IN  /\ f.outgoing = None \/ f.outgoing \in ActivePlayers(s, side)
             /\ f.incoming = None \/ f.incoming \in Unused(s, side)
             /\ f.position \in Positions
             /\ f.outgoing # None /\ f.position = "PITCHER" => f.outgoing = s.pitcher[side]
<1> DEFINE side == SideOf(s, mode)
<1>1. PICK out \in FirstLeaving(s, mode), in \in FirstOf(Unused(s, side)) :
          f = [outgoing |-> out, incoming |-> in, position |-> PositionFor(s, mode, out)]
  BY DEF ChooseMode
<1>2. out = None \/ out \in ActivePlayers(s, side)
  <2>1. CASE mode = "BATTING"
    BY <1>1, <2>1, BatterDueIsAt DEF FirstLeaving, BatterAt, Batters, ActivePlayers, SideOf
  <2>2. CASE mode # "BATTING"
    BY <1>1, <2>2 DEF FirstLeaving, FirstOf, Leaving, SideOf
  <2> QED BY <2>1, <2>2
<1>3. in = None \/ in \in Unused(s, side) BY <1>1 DEF FirstOf
<1>4. PositionFor(s, mode, out) \in Positions
  BY <1>2 DEF PositionFor, OfferedInUse, ActivePlayers, State, Placements
<1>5. OfferedPosition[mode] # "PITCHER" BY DEF OfferedPosition, Modes
<1>6. out # None /\ PositionFor(s, mode, out) = "PITCHER" => out = s.pitcher[side]
  BY <1>2, <1>5, OnlyPitcherPitches DEF PositionFor, ActivePlayers
<1> QED BY <1>1, <1>2, <1>3, <1>4, <1>6

\* Whatever is selected afterwards.
LEMMA FormHolds ==
  ASSUME NEW s \in State, SoundLineup(s), SoundRunners(s), OfferedInUse,
         NEW mode \in Modes, NEW f \in LineupForms(s, mode)
  PROVE  LET side == SideOf(s, mode)
         IN  /\ f.outgoing = None \/ f.outgoing \in ActivePlayers(s, side)
             /\ f.incoming = None \/ f.incoming \in Unused(s, side)
             /\ f.position \in Positions
<1> DEFINE side   == SideOf(s, mode)
           opened == ChooseMode(s, mode)
<1>1. CASE f \in opened BY <1>1, FilledIn
<1>2. ASSUME NEW g \in opened, NEW p \in Leaving(s, side), f = SelectOutgoing(s, g, p)
      PROVE  /\ f.outgoing \in ActivePlayers(s, side)
             /\ f.incoming = None \/ f.incoming \in Unused(s, side)
             /\ f.position \in Positions
  <2>1. g = [outgoing |-> g.outgoing, incoming |-> g.incoming, position |-> g.position]
    BY DEF ChooseMode
  <2>2. /\ f.outgoing = p /\ f.incoming = g.incoming
        /\ f.position = IF s.position[p] \in Roles THEN s.position[p] ELSE g.position
    BY <1>2, <2>1 DEF SelectOutgoing
  <2>3. g.incoming = None \/ g.incoming \in Unused(s, side) BY FilledIn
  <2>4. g.position \in Positions BY FilledIn
  <2> QED BY <2>2, <2>3, <2>4 DEF Leaving, Roles
<1>3. CASE f \in [outgoing : {g.outgoing : g \in opened} \cup Leaving(s, side),
                  incoming : FirstOf(Unused(s, side)), position : Roles]
  <2>1. /\ f.outgoing \in {g.outgoing : g \in opened} \cup Leaving(s, side)
        /\ f.incoming \in FirstOf(Unused(s, side)) /\ f.position \in Roles
    BY <1>3
  <2>2. \A g \in opened : g.outgoing = None \/ g.outgoing \in ActivePlayers(s, side)
    BY FilledIn
  <2> QED BY <2>1, <2>2 DEF FirstOf, Roles, Leaving
<1> QED BY <1>1, <1>2, <1>3 DEF LineupForms

LEMMA FormsHold ==
  ASSUME NEW s \in State, Live(s), SoundLineup(s), SoundRunners(s), OfferedInUse
  PROVE  FormsAreRight(s)
<1> SUFFICES ASSUME NEW mode \in Modes
             PROVE  LET side == SideOf(s, mode)
                    IN  /\ \A f \in LineupForms(s, mode) : Recordable(s, mode, f) =>
                               f.outgoing \in Leaving(s, side) /\ f.incoming \in Unused(s, side)
                        /\ \A f \in ChooseMode(s, mode) :
                               \/ Recordable(s, mode, f)
                               \/ None \in {f.outgoing, f.incoming} \/ f.outgoing = s.pitcher[side]
                               \/ s.defense[side][f.position] \notin {None, f.outgoing}
                               \/ f.outgoing \in Runners(s) /\ s.resp[f.outgoing] = None
  BY DEF FormsAreRight
<1> DEFINE side == SideOf(s, mode)
<1>1. side \in Sides BY SideOfModes
<1>2. \A p \in ActivePlayers(s, side) \cup Unused(s, side) : p \in Players
  BY DEF ActivePlayers, Unused, State
<1>3. ASSUME NEW f \in LineupForms(s, mode), Recordable(s, mode, f)
      PROVE  f.outgoing \in Leaving(s, side) /\ f.incoming \in Unused(s, side)
  <2>1. None \notin {f.outgoing, f.incoming}
        /\ CanSubstitute(s, side, f.outgoing, f.incoming, f.position)
    BY <1>3 DEF Recordable, PreviewSubstitution
  <2>2. f.outgoing \in Players /\ f.incoming \in Players /\ f.position \in Positions
    BY <1>2, <2>1, FormHolds
  <2> QED BY <1>1, <2>1, <2>2, SubstitutionListed
<1>4. ASSUME NEW f \in ChooseMode(s, mode), None \notin {f.outgoing, f.incoming},
             f.outgoing # s.pitcher[side], s.defense[side][f.position] \in {None, f.outgoing},
             ~(f.outgoing \in Runners(s) /\ s.resp[f.outgoing] = None)
      PROVE  Recordable(s, mode, f)
  <2>1. /\ f.outgoing \in ActivePlayers(s, side) /\ f.incoming \in Unused(s, side)
        /\ f.position \in Positions /\ f.position # "PITCHER"
    BY <1>4, FilledIn
  <2>2. f.outgoing \in Players /\ f.incoming \in Players BY <1>2, <2>1
  <2>3. CanSubstitute(s, side, f.outgoing, f.incoming, f.position)
    BY <1>1, <1>4, <2>1, <2>2, SubstitutionListed DEF Leaving, Roles
  <2> QED BY <1>4, <2>3 DEF Recordable, PreviewSubstitution
<1> QED BY <1>3, <1>4

\* The batter due up is the one in the slot after the cursor.
LEMMA DueUpIs ==
  ASSUME NEW s \in State, SoundLineup(s), SoundRunners(s),
         NEW p \in Batters(s, BattingSide(s)), s.order[p] = s.cursor[BattingSide(s)] + 1
  PROVE  BatterDue(s, 0) = p
<1> DEFINE side == BattingSide(s)
           due  == BatterDue(s, 0)
<1>1. due \in Batters(s, side) /\ s.order[due] = s.cursor[side] + 1
  BY BatterDueIsAt, DueUp DEF SoundLineup, SoundRunners
<1>2. side \in Sides BY DEF BattingSide, Sides
<1> HIDE DEF due, side
<1> QED BY <1>1, <1>2, OneBatterPerSlot DEF SoundLineup, due, side

\* What a substitution leaves of the bases and of the order.
LEMMA RoleHolds ==
  ASSUME NEW s \in State, SoundLineup(s), SoundRunners(s), NEW side \in Sides,
         NEW out \in Players, NEW in \in Players, NEW pos \in Positions,
         CanSubstitute(s, side, out, in, pos)
  PROVE  LET next == AfterSubstitution(s, side, out, in, pos)
             role == SubstitutionRole(s, side, out)
         IN  /\ role = "PINCH_RUNNER" <=> in \in Runners(next)
             /\ role = "PINCH_RUNNER" => next.resp[in] = s.resp[out]
             /\ role = "PINCH_HITTER" => BatterDue(next, 0) = in
             /\ role \in {"DEFENSIVE_REPLACEMENT", "BATTING_SUBSTITUTION"} =>
                    next.bases = s.bases /\ BatterDue(next, 0) = BatterDue(s, 0)
<1> DEFINE t    == AfterSubstitution(s, side, out, in, pos)
           role == SubstitutionRole(s, side, out)
           held == {b \in Bases : s.bases[b] = out}
           bat  == BattingSide(s)
<1>1. /\ out \in s.active /\ Team[out] = side /\ Team[in] = side /\ in # out
      /\ in \notin s.active /\ in # None /\ out # None
  BY LineupAssumption DEF CanSubstitute, MayLeave, MayEnter
<1>2. Substituted(t, s, side, out, in, pos) /\ Replaced(t, s, out, in)
  BY <1>1, SubstitutionEffect, SubstitutionReplaces
<1>3. /\ t \in State /\ t.active = (s.active \ {out}) \cup {in}
      /\ t.half = s.half /\ t.cursor = s.cursor
      /\ \A p \in Players : t.order[p] = IF p = in THEN s.order[out] ELSE s.order[p]
  BY <1>2 DEF Substituted, Replaced, Clock
<1>4. SoundLineup(t) /\ SoundRunners(t)
  BY <1>2, SubstitutionSound, SubstitutionKeepsRunners
<1>5. BattingSide(t) = bat /\ bat \in Sides BY <1>3 DEF BattingSide, Sides
<1>6. held = {} => t.bases = s.bases BY <1>2 DEF Replaced
<1>7. held # {} => in \in Runners(t) /\ t.resp[in] = s.resp[out]
  <2> SUFFICES ASSUME held # {} PROVE in \in Runners(t) /\ t.resp[in] = s.resp[out] OBVIOUS
  <2>1. PICK base \in held : t.bases = [s.bases EXCEPT ![base] = in] BY <1>2 DEF Replaced
  <2>2. t.bases[base] = in /\ base \in Bases BY <2>1 DEF State, Diamonds
  <2> QED BY <1>1, <1>2, <2>2 DEF Replaced, Runners, Occupied
<1>8. held = {} => in \notin Runners(t)
  BY <1>1, <1>6 DEF Runners, Occupied, SoundRunners, RunnersCharged, Batters
<1>9. s.order[BatterDue(s, 0)] = s.cursor[bat] + 1 /\ BatterDue(s, 0) \in Batters(s, bat)
  BY BatterDueIsAt, DueUp DEF SoundLineup, SoundRunners
<1>10. side = bat /\ BatterDue(s, 0) = out => BatterDue(t, 0) = in
  <2> SUFFICES ASSUME side = bat, BatterDue(s, 0) = out PROVE BatterDue(t, 0) = in OBVIOUS
  <2>1. t.order[in] = t.cursor[bat] + 1 BY <1>3, <1>9
  <2>2. in \in Batters(t, bat) BY <1>1, <1>3, <1>9 DEF Batters
  <2> QED BY <1>3, <1>4, <1>5, <2>1, <2>2, DueUpIs
<1>11. BatterDue(s, 0) # out => BatterDue(t, 0) = BatterDue(s, 0)
  <2> DEFINE due == BatterDue(s, 0)
  <2> SUFFICES ASSUME due # out PROVE BatterDue(t, 0) = due OBVIOUS
  <2>1. due \in s.active /\ Team[due] = bat /\ s.order[due] # 0 /\ due \in Players
    BY <1>9 DEF Batters, State
  <2>2. due # in BY <1>1, <2>1
  <2>3. t.order[due] = t.cursor[bat] + 1 BY <1>3, <1>9, <2>1, <2>2
  <2>4. due \in Batters(t, bat) BY <1>3, <2>1, <2>2 DEF Batters
  <2> HIDE DEF due, t
  <2> QED BY <1>3, <1>4, <1>5, <2>3, <2>4, DueUpIs
<1>12. side # bat => BatterDue(s, 0) # out BY <1>1, <1>9 DEF Batters
<1>13. /\ role = "PINCH_RUNNER" <=> held # {}
       /\ role = "PINCH_HITTER" => side = bat /\ BatterDue(s, 0) = out
       /\ role \in {"DEFENSIVE_REPLACEMENT", "BATTING_SUBSTITUTION"} =>
              held = {} /\ ~(side = bat /\ BatterDue(s, 0) = out)
  BY DEF SubstitutionRole
<1> HIDE DEF t, role, held, bat
<1>14. role = "PINCH_RUNNER" <=> in \in Runners(t) BY <1>7, <1>8, <1>13
<1>15. role = "PINCH_RUNNER" => t.resp[in] = s.resp[out] BY <1>7, <1>13
<1>16. role = "PINCH_HITTER" => BatterDue(t, 0) = in BY <1>10, <1>13
<1>17. role \in {"DEFENSIVE_REPLACEMENT", "BATTING_SUBSTITUTION"} =>
           t.bases = s.bases /\ BatterDue(t, 0) = BatterDue(s, 0)
  BY <1>6, <1>11, <1>12, <1>13
<1> QED BY <1>14, <1>15, <1>16, <1>17 DEF t, role

LEMMA RolesHold ==
  ASSUME NEW s \in State, Live(s), SoundLineup(s), SoundRunners(s), OfferedInUse
  PROVE  RolesAreRight(s)
<1> SUFFICES ASSUME NEW mode \in Modes, NEW f \in LineupForms(s, mode), Recordable(s, mode, f)
             PROVE  LET side == SideOf(s, mode)
                        next == AfterSubstitution(s, side, f.outgoing, f.incoming, f.position)
                        role == SubstitutionRole(s, side, f.outgoing)
                    IN  /\ role = "PINCH_RUNNER" <=> f.incoming \in Runners(next)
                        /\ role = "PINCH_RUNNER" => next.resp[f.incoming] = s.resp[f.outgoing]
                        /\ role = "PINCH_HITTER" => BatterDue(next, 0) = f.incoming
                        /\ role \in {"DEFENSIVE_REPLACEMENT", "BATTING_SUBSTITUTION"} =>
                               next.bases = s.bases /\ BatterDue(next, 0) = BatterDue(s, 0)
  BY DEF RolesAreRight
<1> DEFINE side == SideOf(s, mode)
<1>1. /\ f.outgoing # None /\ f.incoming # None
      /\ CanSubstitute(s, side, f.outgoing, f.incoming, f.position)
  BY DEF Recordable, PreviewSubstitution
<1>2. f.outgoing \in Players /\ f.incoming \in Players /\ f.position \in Positions
  BY <1>1, FormHolds DEF ActivePlayers, Unused, State
<1> QED BY <1>1, <1>2, SideOfModes, RoleHolds

\* Two defenders who trade positions are an alignment the reducer takes.
LEMMA SwapHolds ==
  ASSUME NEW s \in State, Live(s), SoundLineup(s), NEW p \in MovableDefenders(s),
         NEW q \in MovableDefenders(s), p # q
  PROVE  LET side == FieldingSide(s)
             swap == Swap(s, <<p, q>>)
         IN  /\ swap \in [{p, q} -> Positions] /\ CanAlign(s, side, swap)
             /\ DefenseMatches(AfterAlignment(s, side, swap))
<1> DEFINE side == FieldingSide(s)
           swap == Swap(s, <<p, q>>)
<1>1. side \in Sides BY DEF FieldingSide, Other, Sides
<1>2. \A r \in {p, q} : /\ r \in s.active /\ r \in Players /\ Team[r] = side
                        /\ r # s.pitcher[side] /\ s.position[r] \in Positions
                        /\ s.position[r] # "PITCHER"
  BY OnlyPitcherPitches DEF MovableDefenders, Leaving, ActivePlayers, State, Placements
<1>3. \A r \in {p, q} : s.defense[side][s.position[r]] = r
  BY <1>1, <1>2 DEF SoundLineup, DefenseMatches
<1>4. s.position[p] # s.position[q] BY <1>3
<1>5. /\ DOMAIN swap = {p, q} /\ swap[p] = s.position[q] /\ swap[q] = s.position[p]
      /\ swap = [r \in {p, q} |-> swap[r]]
  BY DEF Swap
<1>6. s.defense[side]["PITCHER"] = s.pitcher[side] /\ s.pitcher[side] \notin {p, q}
  BY <1>1, <1>2, LineupAssumption DEF SoundLineup, DefenseMatches, Standing, State, Mounds
<1> HIDE DEF swap
<1>7. swap \in [{p, q} -> Positions] BY <1>2, <1>5
<1>8. s.defense[side] \in [Positions -> Players \cup {None}] BY <1>1 DEF State, Defenses
<1>9. \A pos \in Positions : Remove(s.defense[side], {p, q})[pos] =
          IF s.defense[side][pos] \in {p, q} THEN None ELSE s.defense[side][pos]
  BY <1>8, RemoveType
<1>10. CanAlign(s, side, swap)
  <2>1. \A r \in {p, q} : Remove(s.defense[side], {p, q})[swap[r]] = None
    BY <1>2, <1>3, <1>5, <1>9
  <2>2. Remove(s.defense[side], {p, q})["PITCHER"] = s.pitcher[side]
    BY <1>6, <1>9, LineupAssumption
  <2>3. \A r \in {p, q} : swap[r] # "PITCHER" BY <1>2, <1>5
  <2>4. \A r, u \in {p, q} : swap[r] = swap[u] => r = u BY <1>4, <1>5
  <2> QED BY <1>2, <1>5, <2>1, <2>2, <2>3, <2>4 DEF CanAlign
<1>11. {p, q} \in SUBSET {r \in s.active : Team[r] = side} BY <1>2
<1>12. SoundLineup(AfterAlignment(s, side, swap))
  <2>1. {p, q} \in SUBSET Players BY <1>2
  <2>2. Aligned(AfterAlignment(s, side, swap), s, side, swap)
    BY <1>1, <1>7, <2>1, AlignmentEffect
  <2> QED BY <1>1, <1>7, <1>10, <1>11, <2>2, AlignmentSound
<1> QED BY <1>7, <1>10, <1>12 DEF SoundLineup, swap

LEMMA DefenseHolds ==
  ASSUME NEW s \in State, Live(s), SoundLineup(s)
  PROVE  DefenseIsRight(s)
<1> DEFINE side == FieldingSide(s)
<1>1. side \in Sides BY DEF FieldingSide, Other, Sides
<1>2. ASSUME NEW pair \in SwapChoices(s), pair[1] # pair[2]
      PROVE  /\ PreviewAlignmentSwap(s, pair)
             /\ DefenseMatches(AfterAlignment(s, side, Swap(s, pair)))
  <2>1. /\ pair = <<pair[1], pair[2]>>
        /\ pair[1] \in MovableDefenders(s) /\ pair[2] \in MovableDefenders(s)
    BY DEF SwapChoices
  <2> QED BY <1>2, <2>1, SwapHolds DEF PreviewAlignmentSwap
<1>3. s.pitcher[side] \in s.active /\ s.active \subseteq Players
  BY <1>1 DEF SoundLineup, Standing, State
<1>4. PitchingCandidates(s) = {p \in Players : PreviewPitchingChange(s, p)}
  BY <1>3 DEF PitchingCandidates, PreviewPitchingChange, CanChangePitcher, LeavesSlotEmpty,
              ActivePlayers, Unused
<1> QED BY <1>2, <1>4 DEF DefenseIsRight

\* What the lineup panel lists, fills in and announces is what the server makes of the
\* change, in every state of a live game with six in each order whose scorer records no
\* passing.
THEOREM LineupPanelCorrect ==
  ASSUME SixInEachOrder, ~PassingRecorded, OfferedInUse
  PROVE  Spec => []LineupPanelIsRight
<1> DEFINE Invariant == SoundRunners(game)
<1>1. IInv /\ Invariant => LineupPanelIsRight
  BY ListsHold, FormsHold, RolesHold, DefenseHolds DEF IInv, TypeOK, LineupPanelIsRight
<1>2. Spec => []Invariant BY RunnersInvariant
<1> HIDE DEF Invariant
<1> QED BY <1>1, <1>2, EngineInvariant, PTL
=============================================================================
