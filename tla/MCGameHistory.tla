--------------------------- MODULE MCGameHistory ---------------------------
(***************************************************************************)
(* Instances of CorrectionHistory, GameStatistics and CorrectionPanel for  *)
(* TLC: a visiting order of two with a bench player, and a home side that  *)
(* is a pitcher and his reliever.  A behaviour is one of one part: the     *)
(* events and corrections of a game in every order, or the review page,    *)
(* whose game is a short one.                                              *)
(***************************************************************************)
EXTENDS CorrectionPanel, TLC

CONSTANTS Part, laptop

VARIABLE part

Visitors == {"a1", "a2", "a3"}
Duel == [p \in Visitors \cup {"h1", "h2"} |-> IF p \in Visitors THEN "AWAY" ELSE "HOME"]
DuelSetups ==
    {[order    |-> [p \in DOMAIN Duel |->
                      CASE p = "a1" -> 1 [] p = "a2" -> 2 [] p = "h1" -> 1 [] OTHER -> 0],
      position |-> [p \in DOMAIN Duel |-> IF p \in {"a1", "h1"} THEN "PITCHER" ELSE None],
      pitcher  |-> [side \in Sides |-> IF side = "HOME" THEN "h1" ELSE "a1"]]}

Event(type) == [type |-> type]
Play(batter, outcome, to, counts, judgment, putouts) ==
    [type |-> "PlateAppearanceRecorded", batter |-> batter, outcome |-> outcome,
     to |-> to, counts |-> counts, judgment |-> judgment, rbi |-> counts,
     putouts |-> putouts]
Runner(playType, goal, counts) ==
    [type |-> "RunnerPlayRecorded", playType |-> playType, to |-> [o \in {"FIRST"} |-> goal],
     counts |-> counts, judgment |-> "UNEARNED", rbi |-> {}, putouts |-> 0]
Goes(goal) == [o \in {"BATTER"} |-> goal]
Both(goal) == [o \in {"BATTER", "FIRST"} |-> goal]

Walk(batter)   == Play(batter, "WALK", Goes("FIRST"), {}, "EARNED", 0)
SoloRun(batter, judgment) == Play(batter, "HOME_RUN", Goes("HOME"), {"BATTER"}, judgment, 0)
TwoRuns    == Play("a2", "HOME_RUN", Both("HOME"), {"BATTER", "FIRST"}, "EARNED", 0)
DoublePlay == Play("a2", "BATTER_OUT", Both("OUT"), {}, "EARNED", 2)
WildPitch == Runner("WILD_PITCH", "HOME", {"FIRST"})
PinchRunner == [type |-> "DefensiveSubstitutionMade", side |-> "AWAY",
                out |-> "a2", in |-> "a3", pos |-> "CATCHER"]
Relief == [type |-> "PitchingChangeMade", side |-> "HOME", in |-> "h2"]
Forfeit == [type |-> "GameCompleted", ending |-> "FORFEIT"]

\* Plays, substitutions, a reliever and the life of a game.
AllBodies ==
    {Event("GameStarted"), SoloRun("a1", "EARNED"), Walk("a1"), TwoRuns, DoublePlay,
     WildPitch, PinchRunner, Relief,
     Event("GameSuspended"), Event("GameResumed"), Forfeit, Event("GameVerified"),
     Event("GameReopened"), Event("GameAbandoned")}

\* A game to review: it starts, one of the visitors bats, it is given up and verified.
ShortGame == {Event("GameStarted"), Walk("a1"), SoloRun("a1", "EARNED"), Forfeit, Event("GameVerified")}

\* Two plays whose runs are judged later.
PendingBodies ==
    {Event("GameStarted"), Forfeit, Event("GameReopened"), Walk("a1")}
        \cup {SoloRun(batter, judgment) : batter \in {"a1", "a2"}, judgment \in {"PENDING", "EARNED"}}

-----------------------------------------------------------------------------
(* The parts *)

HistoryInit == part \in Part /\ PanelInit
HistoryNext ==
    \/ /\ part = "log" /\ NextScored
       /\ UNCHANGED <<part, panelVars>>
    \/ /\ part = "review" /\ PanelNext
       /\ \A i \in DOMAIN history' : origin'[i] # 0 \/ history'[i] \in ShortGame
       /\ UNCHANGED part

HistorySpec == HistoryInit /\ [][HistoryNext]_<<part, vars, panelVars>>

\* What the page shows, of a game that is corrected from the page.
PageHolds == part = "review" => ReviewHolds
=============================================================================
