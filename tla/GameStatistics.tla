--------------------------- MODULE GameStatistics ---------------------------
(***************************************************************************)
(* The box score of a game, derived from the plays in effect               *)
(* (src/domain/statistics/game-statistics.ts), and what it means for       *)
(* corrections: a correction is accepted only if the history that ends     *)
(* with it replays and has a box score.                                    *)
(*                                                                         *)
(* A body of a play carries, beside what the reducer reads,                *)
(*   judgment  "EARNED", "UNEARNED" or "PENDING", of its counting runs     *)
(*   rbi       the origins whose runs bat in a run                         *)
(*   putouts   how many putouts its fielding credits or out paths name,    *)
(*             None when an out has no attribution at all                  *)
(* Abstracted: hits, walks, assists and the other counters that one        *)
(* statement increments, with their rates; runs by inning, which the same  *)
(* statement increments with the runs of the batting side.                 *)
(***************************************************************************)
EXTENDS CorrectionHistory

\* What the schemas let through beside it: judgments are made of runs, putouts are
\* counted or not attributed at all.
ASSUME JudgmentAssumption ==
    /\ None \notin Nat
    /\ \A b \in Bodies : b.type \in {"PlateAppearanceRecorded", "RunnerPlayRecorded"} =>
          /\ b.rbi \subseteq Home(b.to)
          /\ b.putouts \in Nat \cup {None}

-----------------------------------------------------------------------------
(* One step of the derivation *)

Plays == {"PlateAppearanceRecorded", "RunnerPlayRecorded"}

BlankBox ==
    [runs            |-> [p \in Players |-> 0],
     battedIn        |-> [p \in Players |-> 0],
     appearances     |-> [p \in Players |-> 0],
     outs            |-> [p \in Players |-> 0],
     runsAllowed     |-> [p \in Players |-> 0],
     inherited       |-> [p \in Players |-> 0],
     inheritedScored |-> [p \in Players |-> 0],
     putouts         |-> [side \in Sides |-> 0]]

Batter(b) == IF b.type = "PlateAppearanceRecorded" THEN b.batter ELSE None

\* The pitcher a runner is charged to.
Charged(s, b, o) ==
    IF o = "BATTER" THEN s.pitcher[FieldingSide(s)] ELSE s.resp[s.bases[o]]

\* A play is refused when it leaves a judgment open, or uses what the statistic
\* rules do not define.
EarnedRunsOpen(b)    == b.counts # {} /\ b.judgment = "PENDING"
NoFieldingAtAll(b)   == b.putouts = None
RuleUndefined(b)     == b.type = "PlateAppearanceRecorded" /\ b.outcome = "INTERFERENCE"
RunsBattedIn(b)      == b.rbi \cap b.counts
RunBattedInByNobody(b) == b.type = "RunnerPlayRecorded" /\ RunsBattedIn(b) # {}
Attributable(s, b)   ==
    /\ ~EarnedRunsOpen(b) /\ ~NoFieldingAtAll(b)
    /\ ~RuleUndefined(b) /\ ~RunBattedInByNobody(b)
    /\ \A o \in b.counts : /\ Team[RunnerFrom(s, Batter(b), o)] = BattingSide(s)
                           /\ Team[Charged(s, b, o)] = FieldingSide(s)

OneOutPerPlay(b) == IF Outs(b.to) = {} THEN 0 ELSE 1
OutsOf(b)        == Cardinality(Outs(b.to))

\* applyCountingRun and the totals of outs and putouts.
CountPlay(box, s, b) ==
    LET onMound  == s.pitcher[FieldingSide(s)]
        runner   == [o \in b.counts |-> RunnerFrom(s, Batter(b), o)]
        charge   == [o \in b.counts |-> Charged(s, b, o)]
        by(who, p) == Cardinality({o \in b.counts : who[o] = p})
    IN  [box EXCEPT
            !.runs        = [p \in Players |-> @[p] + by(runner, p)],
            !.battedIn    = [p \in Players |->
                                @[p] + IF p = Batter(b) THEN Cardinality(RunsBattedIn(b)) ELSE 0],
            !.runsAllowed = [p \in Players |-> @[p] + by(charge, p)],
            !.inheritedScored[onMound] =
                @ + Cardinality({o \in b.counts : charge[o] # onMound}),
            !.outs[onMound] = @ + OutsOf(b),
            !.putouts[FieldingSide(s)] = @ + b.putouts]

StartersAppear(box, s) ==
    [box EXCEPT !.appearances =
        [p \in Players |-> IF p \in {s.pitcher[side] : side \in Sides} THEN 1 ELSE @[p]]]

InheritsNobody(box, s, b) == [box EXCEPT !.appearances[b.in] = @ + 1]
RelieverAppears(box, s, b) ==
    [box EXCEPT !.appearances[b.in] = @ + 1,
                !.inherited[b.in]   = @ + Cardinality(Occupied(s))]

CountStep(box, s, b) ==
    CASE b.type \in Plays -> CountPlay(box, s, b)
      [] b.type = "GameStarted" -> StartersAppear(box, s)
      [] b.type = "PitchingChangeMade" -> RelieverAppears(box, s, b)
      [] OTHER -> box

-----------------------------------------------------------------------------
(* The derivation of a game *)

\* Every body counted in the state it was played in.
Nothing == [state |-> InitialState(TheSetup), box |-> BlankBox, known |-> TRUE]
CountBody(d, b) ==
    LET known == d.known /\ (b.type \in Plays => Attributable(d.state, b))
    IN  [state |-> Apply(d.state, b),
         box   |-> IF known THEN CountStep(d.box, d.state, b) ELSE d.box,
         known |-> known]
CountAll(bodies) ==
    LET upTo[i \in 0 .. Len(bodies)] ==
          IF i = 0 THEN Nothing ELSE CountBody(upTo[i - 1], bodies[i])
    IN  upTo[Len(bodies)]

\* deriveGameStatistics up to its reconciliation: the bodies in effect count.
DerivationUncorrected(h) == CountAll(h)
Derivation(h) == CountAll(Effective(h))

\* The players in the order of the lines, which is the order of their identities.
Line == CHOOSE p \in [1 .. Cardinality(Players) -> Players] :
          /\ \A i, j \in DOMAIN p : p[i] = p[j] => i = j
          /\ \A q \in Players : \E i \in DOMAIN p : p[i] = q

\* The sum of a counter over the lines, and over those of a side.
SumOf(counter) ==
    LET upTo[i \in 0 .. Cardinality(Players)] ==
          IF i = 0 THEN 0 ELSE upTo[i - 1] + counter[Line[i]]
    IN  upTo[Cardinality(Players)]
OfSide(counter, side) ==
    SumOf([p \in Players |-> IF Team[p] = side THEN counter[p] ELSE 0])

\* What assertEqual compares at the end of the derivation.
Reconciles(d) ==
    \A side \in Sides :
        /\ OfSide(d.box.runs, side) = d.state.score[side]
        /\ OfSide(d.box.outs, Other(side)) = d.box.putouts[Other(side)]
        /\ OfSide(d.box.runsAllowed, Other(side)) = OfSide(d.box.runs, side)

HasBoxScore(h) == LET d == Derivation(h) IN d.known /\ Reconciles(d)

-----------------------------------------------------------------------------
(* Acceptance *)

\* A scoring event is accepted whether or not its box score can be derived; the
\* transaction of a correction derives it, and rolls back when that fails.
Score == EventRecorded
Correct ==
    /\ EventsReversed \/ PlaysReplaced
    /\ HasBoxScore(history')

NextScored == Score \/ Correct

ScoredSpec == Init /\ [][NextScored]_vars

-----------------------------------------------------------------------------
(* Properties *)

\* Every play in effect is judged: runs earned or not, each out credited.
Judged(h) ==
    \A i \in DOMAIN Effective(h) :
        LET b == Effective(h)[i]
        IN  b.type \in Plays =>
                /\ ~EarnedRunsOpen(b) /\ ~RuleUndefined(b) /\ ~RunBattedInByNobody(b)
                /\ b.putouts = Cardinality(Outs(b.to))

\* Replay and box score are two folds over the same plays: whatever was
\* corrected, substituted or relieved, a game whose plays are all judged has a
\* box score, and it agrees with the score of the replay.  A correction of such
\* a game is never refused by its statistics.
JudgedGameHasBoxScore == Judged(history) => HasBoxScore(history)

\* The outs charged to the pitchers of a side are the outs of the half innings
\* it has fielded: three for each finished one and those of the one in play.
OutsOfFinishedHalves(s, side) ==
    LET finished == IF side = "HOME" /\ s.half # "TOP" THEN s.inning ELSE s.inning - 1
    IN  IF s.inning = 0 THEN 0 ELSE 3 * finished
PitchersRecordEveryOut ==
    LET d == Derivation(history)
    IN  d.known => \A side \in Sides :
            OfSide(d.box.outs, side) =
                OutsOfFinishedHalves(game, side)
                    + IF game.inning # 0 /\ side = FieldingSide(game) THEN game.outs ELSE 0

\* No reliever lets in more inherited runners than he inherited, and only
\* pitchers who appeared are charged with runs or outs.
InheritedRunnersCovered ==
    LET d == Derivation(history)
    IN  d.known => \A p \in Players :
            /\ d.box.inheritedScored[p] <= d.box.inherited[p]
            /\ d.box.runsAllowed[p] + d.box.outs[p] > 0 => d.box.appearances[p] > 0

\* The box score of a corrected, relieved and substituted game: it exists, it
\* charges every out, and nobody for more than he was handed.
BoxScoreHolds == JudgedGameHasBoxScore /\ PitchersRecordEveryOut /\ InheritedRunnersCovered

\* docs/STATISTIC_DERIVATION.md:50 "a `PENDING` judgment fails with
\* `INCOMPLETE_REPLAY_STATE` until an append-only correction supplies a final
\* classification": a play whose runs are pending, in a game that may be
\* corrected, can be replaced by itself with the judgment made.
PendingPlays ==
    {i \in DOMAIN history : /\ history[i].type \in Plays
                            /\ i \notin Resolve(history).suppressed
                            /\ EarnedRunsOpen(history[i])}
Settled(i) == Append(history, Replacement({i}, <<[history[i] EXCEPT !.judgment = "EARNED"]>>))
PendingCanBeSettled ==
    \A i \in PendingPlays : CanCorrect(game) => HasBoxScore(Settled(i))
=============================================================================
