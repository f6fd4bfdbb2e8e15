---------------------------- MODULE MCGameEngine ----------------------------
(***************************************************************************)
(* Instances of GameEngine for TLC.                                        *)
(***************************************************************************)
EXTENDS LineupPanel

LiveEvents == {"GameStarted", "PlateAppearanceRecorded", "RunnerPlayRecorded"}
LineupEvents == LiveEvents \cup
    {"DefensiveSubstitutionMade", "DefensiveAlignmentChanged", "PitchingChangeMade"}
GameEvents == LiveEvents \cup
    {"RunnerAdvanceRecorded", "RunnerOutRecorded", "StolenBaseAttemptRecorded",
     "GameSuspended", "GameResumed", "GameCompleted", "GameVerified", "GameReopened",
     "GameAbandoned", "GameCancelled"}

\* Short lineups with a bench, for the substitution rules: the pitcher bats or
\* does not, the other starter fields or is only a hitter.
ShortTeam == [p \in {"hp", "hc", "hb", "ap", "ac", "ab"} |->
                IF p \in {"hp", "hc", "hb"} THEN "HOME" ELSE "AWAY"]
ShortSetups ==
    {[order    |-> [p \in DOMAIN ShortTeam |->
                      CASE p \in {"ap", "hp"} -> pitcherSlot
                        [] p \in {"ac", "hc"} -> 1
                        [] OTHER -> 0],
      position |-> [p \in DOMAIN ShortTeam |->
                      CASE p \in {"ap", "hp"} -> "PITCHER"
                        [] p \in {"ac", "hc"} -> hitterPosition
                        [] OTHER -> None],
      pitcher  |-> [side \in Sides |-> IF side = "HOME" THEN "hp" ELSE "ap"]]
     : pitcherSlot \in {0, 2}, hitterPosition \in {"CATCHER", None}}

\* Batting orders of a given length for both sides, without a bench: player k
\* of a side bats k-th and player 1 pitches.
AwayNames == <<"a1", "a2", "a3", "a4", "a5", "a6">>
HomeNames == <<"h1", "h2", "h3", "h4", "h5", "h6">>
OrderTeam(n) ==
    [p \in {AwayNames[k] : k \in 1 .. n} \cup {HomeNames[k] : k \in 1 .. n} |->
        IF \E k \in 1 .. n : p = AwayNames[k] THEN "AWAY" ELSE "HOME"]
OrderSetup(n) ==
    [order    |-> [p \in DOMAIN OrderTeam(n) |->
                     CHOOSE k \in 1 .. n : p \in {AwayNames[k], HomeNames[k]}],
     position |-> [p \in DOMAIN OrderTeam(n) |->
                     IF p \in {"a1", "h1"} THEN "PITCHER" ELSE None],
     pitcher  |-> [side \in Sides |-> IF side = "HOME" THEN "h1" ELSE "a1"]]

Team6 == OrderTeam(6)
Players6 == DOMAIN Team6
Setups6 == {OrderSetup(6)}
=============================================================================
