SPECIFICATION Spec
CONSTANTS
    None = None
    Submissions <- AllSubmissions
    Attempts = {r1, r2}
    MaxPrivacy = 1
SYMMETRY Interchangeable
INVARIANTS
    TypeOK
    KeysRecordedOnce
    AnswersHold
    RowsAgree
    CurrentCheckpointIsLatest
PROPERTIES
    ImplementsHistory
