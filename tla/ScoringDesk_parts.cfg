SPECIFICATION DeskSpec
CONSTANTS
    None = None
    Part = {"season", "panels", "client"}
    home = home
    guest = guest
    Teams = {home, guest}
    Squad = {x, y}
    Lineups <- SomeLineups
    LastDay = 2
    MaxPeriods = 2
    Forms = {s1, s2}
    MaxChanges = 2
    Players <- SixPlayers
    Team <- SixASide
    Positions = {"PITCHER", "CATCHER"}
    Setups <- SixSetups
    ScheduledInnings = 1
    Outcomes = {"WALK", "SINGLE", "DOUBLE", "HOME_RUN", "BATTER_OUT", "FIELDER_CHOICE", "SACRIFICE_FLY", "INTERFERENCE"}
    PlayTypes = {"STOLEN_BASE", "PASSED_BALL", "PICKOFF", "RUNNER_OUT"}
    EventTypes = {"GameStarted", "PlateAppearanceRecorded", "RunnerPlayRecorded"}
    MaxHalves = 1
    MaxScore = 1
    PassingRecorded = FALSE
    ta = ta
    tb = tb
    playA = playA
    playB = playB
    Tabs = {ta, tb}
    Plays = {playA, playB}
    MaxKeys = 3
    MaxSends = 2
    MaxHistory = 2
SYMMETRY Interchangeable
CHECK_DEADLOCK FALSE
INVARIANTS
    SeasonHolds
    PanelsAreRight
    DraftsHold
PROPERTIES
    ScoredAsSetUp
