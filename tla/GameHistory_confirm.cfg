SPECIFICATION HistorySpec
CONSTANTS
    None = None
    Players = {"a1", "a2", "a3", "h1", "h2"}
    Team <- Duel
    Positions = {"PITCHER", "CATCHER"}
    Setups <- DuelSetups
    ScheduledInnings = 1
    Bodies <- AllBodies
    MaxEvents = 6
    MaxCorrections = 2
    MaxTargets = 2
    Part = {"review"}
    laptop = laptop
    Pages = {laptop}
    PageSize = 3
    Judgments = {"SINGLE"}
    MaxRequests = 2
INVARIANTS
    ConfirmedAsPreviewed
CHECK_DEADLOCK FALSE
