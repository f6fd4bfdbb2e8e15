SPECIFICATION FairSpec
CONSTANTS
    None = None
    MaxRevision = 2
    FinalAt = 2
    Signals <- InOrderSignals
    Scenarios <- AllCases
    MaxChanges = 1
    MaxCycles = 2
    MaxAttempts = 2
CHECK_DEADLOCK FALSE
INVARIANTS
    MessagesHold
PROPERTIES
    ContentAdvances
    SignalAnswered
