------------------------- MODULE MCEventAcceptance -------------------------
(***************************************************************************)
(* Instances of EventAcceptance for TLC.                                   *)
(***************************************************************************)
EXTENDS EventAcceptance, TLC

Submission(key, id, expected, type, capability) ==
    [key |-> key, id |-> id, expected |-> expected, type |-> type, capability |-> capability]

Start    == Submission("k1", "e1", 0, "GameStarted", "game.start")
Complete == Submission("k2", "e2", 1, "GameCompleted", "game.score")
PlayA    == Submission("k3", "e3", 1, "Play", "game.score")

\* Scorers who enter plays against each other: two plays and the completion at
\* one revision, the play again at the next revision under its old key, a play
\* that reuses the identifier of another, and one sent again with a new one.
PlaySubmissions ==
    {Start, Complete, PlayA,
     Submission("k3", "e4", 2, "Play", "game.score"),
     Submission("k4", "e3", 2, "Play", "game.score"),
     Submission("k5", "e5", 2, "Play", "game.score"),
     Submission("k5", "e6", 2, "Play", "game.score")}

\* Corrections and verifications of a completed game against each other.
ReviewSubmissions ==
    {Start, Complete,
     Submission("k6", "e6", 2, "CorrectionApplied", "game.correct"),
     Submission("k7", "e7", 2, "GameVerified", "game.verify"),
     Submission("k8", "e8", 3, "GameReopened", "game.reopen"),
     Submission("k9", "e9", 4, "GameVerified", "game.verify"),
     Submission("k10", "e10", 4, "GameVerified", "game.reverify")}

AllSubmissions == PlaySubmissions \cup ReviewSubmissions

Interchangeable == Permutations(Attempts)
=============================================================================
