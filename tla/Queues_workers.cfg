SPECIFICATION FairSpec
CONSTANTS
    None = None
    Queues = {"webhooks", "notifications"}
    MaxWorkers = 2
    Endpoints = {"p1"}
    Streams <- OneGame
    Republished = {"e2"}
    Identity <- OwnIdentity
    BatchLimit = 2
    PostAttempts = 2
    MaxReplays = 1
    MaxRepublished = 1
    MaxCrashes = 1
    MaxStalls = 1
    Troubles <- OneTrouble
    Scopes = {"p1", "p2"}
    Schedules <- SafeSchedules
    Minutes = 3
    MaxEvents = 2
    SendAttempts = 2
    Cases <- RecipientCases
CHECK_DEADLOCK FALSE
INVARIANTS
    QueuesHold
PROPERTIES
    OptOutStands
    QueuesSettle
