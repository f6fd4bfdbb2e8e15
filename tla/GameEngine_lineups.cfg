SPECIFICATION Spec
CONSTANTS
    None = None
    Players = {"hp", "hc", "hb", "ap", "ac", "ab"}
    Team <- ShortTeam
    Positions = {"PITCHER", "CATCHER", "DESIGNATED_HITTER"}
    Setups <- ShortSetups
    ScheduledInnings = 1
    Outcomes = {"WALK", "DOUBLE", "BATTER_OUT"}
    PlayTypes = {"WILD_PITCH"}
    EventTypes <- LineupEvents
    MaxHalves = 1
    MaxScore = 0
    PassingRecorded = TRUE
CHECK_DEADLOCK FALSE
INVARIANTS
    TypeOK
    LineupsAgree
    LineupPanelIsRight
PROPERTIES
    BattingOrderKept
    NoReentry
