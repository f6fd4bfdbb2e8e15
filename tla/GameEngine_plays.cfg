SPECIFICATION Spec
CONSTANTS
    None = None
    Players <- Players6
    Team <- Team6
    Positions = {"PITCHER"}
    Setups <- Setups6
    ScheduledInnings = 1
    Outcomes = {"WALK", "HOME_RUN", "BATTER_OUT"}
    PlayTypes = {"WILD_PITCH"}
    EventTypes <- GameEvents
    MaxHalves = 2
    MaxScore = 1
    PassingRecorded = FALSE
CHECK_DEADLOCK FALSE
INVARIANTS
    BoxScoreBalances
    HalfCanEnd
    RunnersAreSound
PROPERTIES
    LifecycleHolds
