----------------------------- MODULE ScoringPanels -----------------------------
(***************************************************************************)
(* The scorer's panels: what they work out in the browser for a play that  *)
(* is still a draft (src/features/scoring/plate-appearance.ts,             *)
(* src/features/scoring/runner-interactions.ts).                           *)
(*                                                                         *)
(* A panel checks a draft against the state on the page and shows bases,   *)
(* outs, runs and the next batter; the server decides with the reducer.    *)
(* The two are written apart, so everything the panel computes is restated *)
(* here and compared with GameReducer in every state of a game.  A play    *)
(* is only accepted at the revision of the page, so page and server look   *)
(* at the same state.  A draft without putout or error fielder is never    *)
(* offered and left out, like the batted-ball class.                       *)
(***************************************************************************)
EXTENDS GameEngine

Hits   == {"SINGLE", "DOUBLE", "TRIPLE", "HOME_RUN"}
Passes == {"WALK", "INTENTIONAL_WALK", "HIT_BY_PITCH"}

-----------------------------------------------------------------------------
(* Drafts *)

\* What the selects of a base offer its runner.
Chosen(b) == {"REMAINS", "OUT"} \cup {g \in Bases \cup {"HOME"} : Rank[g] > Rank[b]}
Choices(s) == {m \in [Occupied(s) -> {"REMAINS"} \cup Destinations] :
                  \A b \in Occupied(s) : m[b] \in Chosen(b)}

Moving(moves) == {b \in DOMAIN moves : moves[b] # "REMAINS"}
Ledger(moves) == [b \in Moving(moves) |-> moves[b]]

\* createPlateAppearanceDraft: where the panel puts the runners at first.
Advance == [FIRST |-> "SECOND", SECOND |-> "THIRD", THIRD |-> "HOME"]
Behind  == [FIRST |-> {}, SECOND |-> {"FIRST"}, THIRD |-> {"FIRST", "SECOND"}]
OneBaseEach(s, outcome) == [b \in Occupied(s) |-> Advance[b]]
DefaultRunnerOutcomes(s, outcome) ==
    [b \in Occupied(s) |->
        CASE outcome \in Passes -> IF Behind[b] \subseteq Occupied(s) THEN Advance[b] ELSE "REMAINS"
          [] outcome \in {"SINGLE", "REACHED_ON_ERROR", "SACRIFICE_BUNT"} -> Advance[b]
          [] outcome = "FIELDER_CHOICE" -> IF b = "FIRST" THEN "OUT" ELSE "REMAINS"
          [] outcome = "DOUBLE" -> IF b = "FIRST" THEN "THIRD" ELSE "HOME"
          [] outcome \in {"TRIPLE", "HOME_RUN"} -> "HOME"
          [] outcome = "SACRIFICE_FLY" -> IF b = "THIRD" THEN "HOME" ELSE "REMAINS"
          [] OTHER -> "REMAINS"]

\* currentBatterId, nextBatterId
BatterDue(s, ahead) ==
    LET side  == BattingSide(s)
        order == Batters(s, side)
    IN  CHOOSE p \in order :
            Cardinality({q \in order : s.order[q] < s.order[p]})
                = (s.cursor[side] + ahead) % Cardinality(order)

-----------------------------------------------------------------------------
(* What a panel makes of a draft *)

\* isForcedAdvance, which looks one base back and no further.
IsForcedAdvance(outcome, moves, b) ==
    /\ outcome \in Passes /\ moves[b] = Advance[b]
    /\ \/ b = "FIRST"
       \/ \E c \in DOMAIN moves : moves[c] = b /\ Advance[c] = b
Forced(outcome, moves) ==
    {b \in Moving(moves) : IsForcedAdvance(outcome, moves, b)}
      \cup (IF outcome \in Passes THEN {"BATTER"} ELSE {})

\* The out numbered three is the last, and is marked force or not.
ThirdOutIsForce(s, to, force) ==
    Outs(to) # {} /\ s.outs + Cardinality(Outs(to)) = 3 /\ force

KeepsRunners(s, batter, to) ==
    [b \in Bases |-> IF \E o \in Safe(to) : to[o] = b
                     THEN RunnerFrom(s, batter, CHOOSE o \in Safe(to) : to[o] = b)
                     ELSE IF b \in DOMAIN to THEN None ELSE s.bases[b]]
ShownBases(s, batter, to) ==
    IF s.outs + Cardinality(Outs(to)) = 3 THEN [b \in Bases |-> None]
    ELSE KeepsRunners(s, batter, to)
ShownOuts(s, to) ==
    LET outs == s.outs + Cardinality(Outs(to)) IN IF outs = 3 THEN 0 ELSE outs
ShownRuns(to) == Cardinality(Home(to))

Collide(to) == \E o, q \in Safe(to) : o # q /\ to[o] = to[q]
NeverBlocked(s, to) == FALSE
Blocked(s, to) == \E o \in Safe(to) : s.bases[to[o]] # None /\ to[o] \notin DOMAIN to
NoResponsibility(s, to) ==
    \E b \in DOMAIN to \ {"BATTER"} : s.resp[s.bases[b]] = None
MovementErrors(s, to) ==
    \/ Collide(to) \/ Blocked(s, to) \/ NoResponsibility(s, to)
    \/ s.outs + Cardinality(Outs(to)) > 3

NeverPassing(s, batter, to) == FALSE

\* "A runner cannot pass another runner.", on the bases after the play.
Passing(s, batter, to) ==
    LET final == KeepsRunners(s, batter, to)
        origin(r) == IF r = batter THEN 0 ELSE RankOn(s.bases, r)
        left == {r \in Runners(s) \cup {batter} : \E b \in Bases : final[b] = r}
    IN  \E trail, lead \in left :
            origin(trail) < origin(lead) /\ RankOn(final, trail) >= RankOn(final, lead)

PlateAppearanceOffered(s, batter, outcome, to, force) ==
    /\ Live(s) /\ ~MovementErrors(s, to) /\ ~Passing(s, batter, to)
    /\ outcome = "FIELDER_CHOICE" => Outs(to) \ {"BATTER"} # {}
    /\ outcome \in {"SACRIFICE_BUNT", "SACRIFICE_FLY"} => s.outs # 2
    /\ ThirdOutIsForce(s, to, force) => Home(to) = {}

RunnerPlayOffered(s, playType, to) ==
    /\ DOMAIN to # {} /\ ~MovementErrors(s, to)
    /\ Cardinality(Outs(to)) \in
          CASE playType \in {"CAUGHT_STEALING", "PICKOFF"} -> {1}
            [] playType = "RUNNER_OUT" -> Nat \ {0}
            [] OTHER -> {0}

-----------------------------------------------------------------------------
(* What the server makes of the same play *)

\* The reducer's test of the forced labels.
ForcedChain(forced, to) ==
    \A o \in forced \ Outs(to) :
        \/ o = "BATTER" /\ to[o] = "FIRST"
        \/ /\ o # "BATTER" /\ to[o] = Advance[o]
           /\ \E q \in forced : to[q] = o /\ Rank[o] = Rank[q] + 1

\* The plays the plate panel can draft: runners anywhere, the last out a force or not.
PlateDrafts(s) ==
    {[outcome |-> outcome, moves |-> moves, force |-> force] :
        outcome \in Outcomes, moves \in Choices(s), force \in BOOLEAN}
PlateTo(d) == WithBatter(Ledger(d.moves), BatterDestination[d.outcome])
Offered(s, d) ==
    PlateAppearanceOffered(s, BatterDue(s, 0), d.outcome, PlateTo(d), d.force)
Accepted(s, d) ==
    LET to == PlateTo(d)
    IN  CanRecordPlateAppearance(s, BatterDue(s, 0), d.outcome, to, Home(to),
                                 ThirdOutIsForce(s, to, d.force))

Shows(s, batter, to, next) ==
    /\ ShownBases(s, batter, to) = next.bases
    /\ ShownOuts(s, to) = next.outs
    /\ ShownRuns(to) = next.score[BattingSide(s)] - s.score[BattingSide(s)]

-----------------------------------------------------------------------------
(* Properties *)

\* What the plate panel offers to record, its forced labels apart, is what the
\* server records: the play is legal, and bases, outs, runs and the batter
\* announced next are those of the new state.
PlatePanelIsRight ==
    Live(game) =>
        \A d \in PlateDrafts(game) :
            Offered(game, d) =>
                LET batter == BatterDue(game, 0)
                    to     == PlateTo(d)
                    next   == AfterPlateAppearance(game, batter, to, Home(to))
                IN  /\ Accepted(game, d) /\ Shows(game, batter, to, next)
                    /\ SameHalf(game, next) => BatterDue(next, 0) = BatterDue(game, 1)

\* What the panel fills in by itself when an outcome is chosen can be recorded:
\* its runners never collide, pass one another or break the forced chain.  It has
\* no default for a fielder's choice without a runner on first, none that moves him
\* for the batter of an interference, and no sacrifice with two outs.
DefaultsAreLegal ==
    Live(game) =>
        \A outcome \in Outcomes :
            LET d == [outcome |-> outcome, force |-> outcome = "FIELDER_CHOICE",
                      moves |-> DefaultRunnerOutcomes(game, outcome)]
            IN  \/ Offered(game, d) /\ ForcedChain(Forced(outcome, d.moves), PlateTo(d))
                \/ outcome = "FIELDER_CHOICE" /\ "FIRST" \notin Occupied(game)
                \/ outcome = "INTERFERENCE" /\ "FIRST" \in Occupied(game)
                \/ outcome \in {"SACRIFICE_BUNT", "SACRIFICE_FLY"} /\ game.outs = 2

\* The panel takes the catcher as it finds him, if there is one.
SomebodyCatches(s) ==
    \E pos \in Positions : pos = "CATCHER" /\ s.defense[FieldingSide(s)][pos] # None

\* The runner panel is right about every play the server takes, and it offers no
\* illegal one but a runner passing another, and a passed ball that nobody could catch.
RunnerPanelIsRight ==
    Live(game) =>
        \A playType \in PlayTypes, moves \in Choices(game) :
            LET to    == Ledger(moves)
                taken == /\ RunnerPlayOffered(game, playType, to)
                         /\ NobodyPassed(game, None, to)
                         /\ playType = "PASSED_BALL" => SomebodyCatches(game)
            IN  taken =>
                    /\ CanRecordRunnerPlay(game, playType, to, Home(to), FALSE)
                    /\ Shows(game, None, to, AfterRunnerPlay(game, to, Home(to)))
=============================================================================
