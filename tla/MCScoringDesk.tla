----------------------------- MODULE MCScoringDesk -----------------------------
(***************************************************************************)
(* Instances for TLC of what a scorer works with: the seasons, rosters and *)
(* set-ups of TeamSeasons, the panels of ScoringPanels over a game, and    *)
(* the drafts and requests of ScoringClient.  A behaviour is one of one    *)
(* part, as in MCServices.                                                 *)
(***************************************************************************)
EXTENDS ScoringPanels, Sequences, TLC

CONSTANTS
    Part,
    home, guest, Teams, Squad, Lineups, LastDay, MaxPeriods, Forms, MaxChanges,
    ta, tb, playA, playB, Tabs, Plays, MaxKeys, MaxSends, MaxHistory

VARIABLES
    part,
    team, season, participation, retired, period, row, snapshot, submitted, changes,
    tab, store, request, charge, history

S == INSTANCE TeamSeasons WITH HomeTeam <- home, Players <- Squad, Submissions <- Forms, game <- row
C == INSTANCE ScoringClient

ASSUME DeskAssumption == S!SeasonAssumption /\ C!ClientAssumption

seasonVars == <<team, season, participation, retired, period, row, snapshot, submitted, changes>>
clientVars == <<tab, store, request, charge, history>>
deskVars == <<part, seasonVars, vars, clientVars>>

DeskInit ==
    /\ part \in Part
    /\ S!SeasonInit /\ Init /\ C!ClientInit
    /\ part # "season" => season = "DRAFT"

DeskNext ==
    \/ part = "season" /\ S!SeasonNext /\ UNCHANGED <<part, vars, clientVars>>
    \/ part = "panels" /\ Next /\ UNCHANGED <<part, seasonVars, clientVars>>
    \/ part = "client" /\ C!ClientNext /\ UNCHANGED <<part, seasonVars, vars>>

DeskSpec == DeskInit /\ [][DeskNext]_deskVars

-----------------------------------------------------------------------------
(* The instance *)

\* Tabs and plays are interchangeable.
Interchangeable == Permutations({ta, tb}) \cup Permutations({playA, playB})

SomeLineups ==
    {[sides |-> {home}, lineup |-> {1}], [sides |-> {home, guest}, lineup |-> {1, 2}],
     [sides |-> {home}, lineup |-> {}]}

\* Six batters a side, with a battery.
AwayNames == <<"a1", "a2", "a3", "a4", "a5", "a6">>
HomeNames == <<"h1", "h2", "h3", "h4", "h5", "h6">>
SixASide  == [n \in {AwayNames[k] : k \in 1 .. 6} \cup {HomeNames[k] : k \in 1 .. 6} |->
                 IF \E k \in 1 .. 6 : n = AwayNames[k] THEN "AWAY" ELSE "HOME"]
SixPlayers == DOMAIN SixASide
SixSetups ==
    {[order    |-> [n \in SixPlayers |-> CHOOSE k \in 1 .. 6 : n \in {AwayNames[k], HomeNames[k]}],
      position |-> [n \in SixPlayers |->
                       CASE n \in {"a1", "h1"} -> "PITCHER"
                         [] n \in {"a2", "h2"} -> "CATCHER"
                         [] OTHER -> None],
      pitcher  |-> [side \in {"HOME", "AWAY"} |-> IF side = "HOME" THEN "h1" ELSE "a1"]]}

-----------------------------------------------------------------------------
(* The properties of the parts *)

\* Seasons: no lifecycle ends before what it encloses, and a ready game can be played.
SeasonHolds == S!LifecyclesNest /\ S!ReadyIsPlayable

\* A game is scored by the set-up that was ready when it began.
ScoredAsSetUp == S!ScoredAsSetUp

\* Panels: what they show and offer is what the server makes of it, and their defaults
\* can be recorded.
PanelsAreRight ==
    part = "panels" => PlatePanelIsRight /\ DefaultsAreLegal /\ RunnerPanelIsRight

\* Client: a submission key stands for one play, and a play is recorded once.
DraftsHold == C!KeyNamesOnePlay /\ C!RecordedOnce

\* A retry of the same play is answered, not called a conflict.
RetryIsAnswered == C!RetryIsAnswered
=============================================================================
