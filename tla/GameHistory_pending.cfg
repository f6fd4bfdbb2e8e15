SPECIFICATION HistorySpec
CONSTANTS
    None = None
    Players = {"a1", "a2", "a3", "h1", "h2"}
    Team <- Duel
    Positions = {"PITCHER", "CATCHER"}
    Setups <- DuelSetups
    ScheduledInnings = 1
    Bodies <- PendingBodies
    MaxEvents = 5
    MaxCorrections = 1
    MaxTargets = 2
    Part = {"log"}
    laptop = laptop
    Pages = {laptop}
    PageSize = 3
    Judgments = {"SINGLE"}
    MaxRequests = 2
INVARIANTS
    PendingCanBeSettled
CHECK_DEADLOCK FALSE
