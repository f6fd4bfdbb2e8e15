-------------------------- MODULE EventAcceptance --------------------------
(***************************************************************************)
(* Acceptance of the events of one game by concurrent server requests:     *)
(* PrismaGameEventRepository (src/server/data/game-event-repository.ts)    *)
(* against the database, with scorers who send the same submission again,  *)
(* reuse its key for something else, or never hear the answer.             *)
(*                                                                         *)
(* A Serializable transaction is two steps: it reads one snapshot and      *)
(* decides, then it commits if what it read still stands, or is rolled     *)
(* back.  PostgreSQL may also roll it back when nothing changed.           *)
(***************************************************************************)
EXTENDS Naturals, Sequences, FiniteSets

CONSTANTS
    Submissions,   \* [key, id, expected, type, capability]: the idempotency
                   \* key, the event identifier, the revision the scorer saw,
                   \* the event type and the capability it was authorized with
    Attempts,      \* server requests under way at the same time
    MaxPrivacy,    \* bound on privacy deletions
    None           \* no submission

Types == {"GameStarted", "Play", "GameCompleted", "GameVerified", "GameReopened",
          "CorrectionApplied"}
Capabilities == {"game.start", "game.score", "game.verify", "game.reverify",
                 "game.reopen", "game.correct"}

ASSUME SubmissionAssumption ==
    /\ None \notin Submissions
    /\ \A s \in Submissions :
        /\ s.expected \in Nat
        /\ s.type \in Types
        /\ s.capability \in Capabilities
ASSUME BoundAssumption == MaxPrivacy \in Nat

VARIABLES
    history,      \* accepted submissions, oldest first (PlayTransaction, SourceEvent)
    game,         \* the Game row: [revision, status]
    privacy,      \* latest privacy-overlay revision of the account
    checkpoints,  \* projection checkpoints: set of [revision, privacy, status]
    outbox,       \* webhook events by deduplication key: [kind, revision, privacy]
    audits,       \* security audit records: [action, revision]
    phase,        \* where each request is
    sub,          \* the submission it carries
    seen,         \* the snapshot it decided on: [revision, privacy]
    entry,        \* the event it accepted or found, 0 for none
    answer,       \* the code it was answered with
    derived       \* revisions a projection worker derived its result from

stored   == <<history, game, privacy, checkpoints, outbox, audits>>
requests == <<phase, sub, seen, entry, answer>>
vars     == <<stored, requests, derived>>

Statuses == {"READY", "IN_PROGRESS", "COMPLETED", "VERIFIED", "CORRECTED"}
Phases   == {"idle", "sent", "writing", "failed", "idTaken", "loading", "reading", "answered"}
Codes    == {"NONE", "SUCCESS", "DUPLICATE_IDEMPOTENCY_KEY", "DUPLICATE_ACCEPTED_EVENT",
             "STALE_SOURCE_REVISION", "INVALID_LIFECYCLE_TRANSITION",
             "IMMUTABLE_HISTORY_VIOLATION", "PERSISTENCE_CONFLICT",
             "INTERNAL_INVARIANT_FAILURE"}

-----------------------------------------------------------------------------
(* The lifecycle of a game, as far as acceptance depends on it; whether a  *)
(* play fits the game is the business of GameReducer.                      *)

Allowed == [GameStarted       |-> {"READY"},
            Play              |-> {"IN_PROGRESS"},
            GameCompleted     |-> {"IN_PROGRESS"},
            GameVerified      |-> {"COMPLETED", "CORRECTED"},
            GameReopened      |-> {"VERIFIED"},
            CorrectionApplied |-> {"IN_PROGRESS", "COMPLETED", "CORRECTED"}]

StatusAfter(status, type) ==
    CASE type = "GameStarted"       -> "IN_PROGRESS"
      [] type = "Play"              -> status
      [] type = "GameCompleted"     -> "COMPLETED"
      [] type = "GameVerified"      -> "VERIFIED"
      [] type = "GameReopened"      -> "CORRECTED"
      [] type = "CorrectionApplied" -> IF status = "IN_PROGRESS" THEN status ELSE "CORRECTED"

\* The status that replaying a history leads to.
Replayed(h) ==
    LET upTo[i \in 0 .. Len(h)] ==
          IF i = 0 THEN "READY" ELSE StatusAfter(upTo[i - 1], h[i].type)
    IN  upTo[Len(h)]

AnyCapability(s) == s.type = "GameVerified" => s.capability \in {"game.verify", "game.reverify"}
\* A first verification needs one capability, a later one another.
CapabilityFits(s) ==
    s.type = "GameVerified" =>
        s.capability = IF \E i \in DOMAIN history : history[i].type = "GameVerified"
                       THEN "game.reverify" ELSE "game.verify"

Correction(s) == s.type = "CorrectionApplied"

\* What the authorized capability permits at all; anything else is refused
\* before the database is read.
Permitted(s) ==
    s.capability \in CASE s.type = "GameStarted"       -> {"game.start"}
                       [] s.type = "GameVerified"      -> {"game.verify", "game.reverify"}
                       [] s.type = "GameReopened"      -> {"game.reopen"}
                       [] s.type = "CorrectionApplied" -> {"game.correct"}
                       [] OTHER                        -> {"game.score"}

-----------------------------------------------------------------------------
(* One transaction *)

\* The unique key of PlayTransaction, by which an earlier acceptance is found.
KeyPerRevision(e, s) == e.key = s.key /\ e.expected = s.expected
SameKey(e, s) == e.key = s.key
\* payloadHash: the canonical fingerprint of setup, expected revision and body.
SameInput(e, s) == e.expected = s.expected /\ e.type = s.type

Answer(a, code) ==
    /\ phase' = [phase EXCEPT ![a] = "answered"]
    /\ answer' = [answer EXCEPT ![a] = code]

Continue(a, next) ==
    /\ phase' = [phase EXCEPT ![a] = next]
    /\ UNCHANGED answer

\* Event i is what the submission asked for: a correction is then reported with
\* its effects, which loadCorrectionResult reads in a transaction of its own.
Accepted(a, i) ==
    /\ entry' = [entry EXCEPT ![a] = i]
    /\ IF Correction(sub[a]) THEN Continue(a, "loading") ELSE Answer(a, "SUCCESS")

\* The key is already used by event i.
FoundPrior(a, i) ==
    IF SameInput(history[i], sub[a])
    THEN Accepted(a, i)
    ELSE Answer(a, "DUPLICATE_IDEMPOTENCY_KEY") /\ UNCHANGED entry

Priors(s) == {i \in DOMAIN history : SameKey(history[i], s)}

Refuse(a) ==
    /\ UNCHANGED <<entry, seen>>
    /\ Answer(a, CASE game.revision # sub[a].expected -> "STALE_SOURCE_REVISION"
                   [] game.revision = sub[a].expected /\ ~CapabilityFits(sub[a]) ->
                        "INVALID_LIFECYCLE_TRANSITION"
                   [] game.revision = sub[a].expected /\ CapabilityFits(sub[a])
                      /\ (game.revision # Len(history) \/ game.status # Replayed(history)) ->
                        "IMMUTABLE_HISTORY_VIOLATION"
                   [] OTHER -> "INVALID_LIFECYCLE_TRANSITION")

Acceptable(s) ==
    /\ game.revision = s.expected
    /\ CapabilityFits(s)
    /\ game.revision = Len(history)
    /\ game.status = Replayed(history)
    /\ game.status \in Allowed[s.type]

\* The reads of acceptInternal: the prior acceptance first, then the rest.
DecideRevisionFirst(a) ==
    IF ~Acceptable(sub[a])
    THEN Refuse(a)
    ELSE /\ seen' = [seen EXCEPT ![a] = [revision |-> game.revision, privacy |-> privacy]]
         /\ UNCHANGED entry
         /\ Continue(a, "writing")
Decide(a) ==
    IF Priors(sub[a]) # {}
    THEN (\E i \in Priors(sub[a]) : FoundPrior(a, i)) /\ UNCHANGED seen
    ELSE IF ~Acceptable(sub[a])
    THEN Refuse(a)
    ELSE /\ seen' = [seen EXCEPT ![a] = [revision |-> game.revision, privacy |-> privacy]]
         /\ UNCHANGED entry
         /\ Continue(a, "writing")

\* What was read still stands: no event was accepted meanwhile, and for a
\* correction, which derives statistics, nobody's name was deleted.
NothingChecked(a) == TRUE
Unchanged(a) ==
    /\ game.revision = seen[a].revision
    /\ Correction(sub[a]) => privacy = seen[a].privacy

\* Unique keys of PlayTransaction and SourceEvent.
Taken(s) == \E e \in {history[i] : i \in DOMAIN history} : e.id = s.id \/ SameKey(e, s)

Staled(cs) == {[c EXCEPT !.status = "STALE"] : c \in cs}
CurrentCheckpoint(r, p) == [revision |-> r, privacy |-> p, status |-> "CURRENT"]
\* Make the checkpoint of one revision current.  A new one replaces the others.
Published(cs, r, p) ==
    LET same == {c \in cs : c.revision = r /\ c.privacy = p}
    IN  IF same = {} THEN Staled(cs) \cup {CurrentCheckpoint(r, p)}
        ELSE (cs \ same) \cup {CurrentCheckpoint(r, p)}

\* The checkpoints after an acceptance: every one is stale, and a correction
\* publishes its own.
CheckpointsMisnumbered(s, r, p) ==
    IF Correction(s) THEN Published(Staled(checkpoints), r + 1, p) ELSE Staled(checkpoints)
CheckpointsAfter(s, r, p) ==
    IF Correction(s) THEN Published(Staled(checkpoints), r, p) ELSE Staled(checkpoints)

Notice(kind, r, p) == [kind |-> kind, revision |-> r, privacy |-> p]
\* Webhook events enqueued with the acceptance of revision r.
Announcements(s, r) ==
    CASE s.type = "GameCompleted"     -> {Notice("GAME_COMPLETED", r, 0)}
      [] s.type = "GameVerified"      -> {Notice("GAME_VERIFIED", r, 0),
                                          Notice("SEASON_REPORT_UPDATED", r, 0)}
      [] s.type = "CorrectionApplied" -> {Notice("GAME_CORRECTED", r, 0),
                                          Notice("SEASON_REPORT_UPDATED", r, 0),
                                          Notice("REPORT_READY_CORRECTION", r, 0)}
      [] OTHER                        -> {}

Audit(s, r) ==
    CASE s.type = "GameVerified"      -> {[action |-> s.capability, revision |-> r]}
      [] s.type = "GameReopened"      -> {[action |-> "game.reopen", revision |-> r]}
      [] s.type = "CorrectionApplied" -> {[action |-> "game.correction.apply", revision |-> r]}
      [] OTHER                        -> {}

\* Every write of the transaction, together.
WriteKeepingStatus(s) ==
    LET r == s.expected + 1
    IN  /\ history' = Append(history, s)
        /\ game' = [game EXCEPT !.revision = r]
        /\ checkpoints' = CheckpointsAfter(s, r, privacy)
        /\ outbox' = outbox \cup Announcements(s, r)
        /\ audits' = audits \cup Audit(s, r)
        /\ UNCHANGED privacy
Write(s) ==
    LET r == s.expected + 1
    IN  /\ history' = Append(history, s)
        /\ game' = [revision |-> r, status |-> StatusAfter(game.status, s.type)]
        /\ checkpoints' = CheckpointsAfter(s, r, privacy)
        /\ outbox' = outbox \cup Announcements(s, r)
        /\ audits' = audits \cup Audit(s, r)
        /\ UNCHANGED privacy

-----------------------------------------------------------------------------
(* Steps of a request *)

Nothing == [revision |-> 0, privacy |-> 0]

\* A scorer submits what he sees, for the first time or again: he knows no
\* revision later than the game's.
Send(a, s) ==
    /\ phase[a] = "idle"
    /\ s.expected <= game.revision
    /\ Permitted(s)
    /\ sub' = [sub EXCEPT ![a] = s]
    /\ phase' = [phase EXCEPT ![a] = "sent"]
    /\ UNCHANGED <<stored, seen, entry, answer, derived>>

Read(a) ==
    /\ phase[a] = "sent"
    /\ Decide(a)
    /\ UNCHANGED <<stored, sub, derived>>

Commit(a) ==
    /\ phase[a] = "writing"
    /\ Unchanged(a)
    /\ ~Taken(sub[a])
    /\ Write(sub[a])
    /\ Accepted(a, sub[a].expected + 1)
    /\ UNCHANGED <<sub, seen, derived>>

\* The commit succeeds, but the connection fails before the server knows.
CommitUnconfirmed(a) ==
    /\ phase[a] = "writing"
    /\ Unchanged(a)
    /\ ~Taken(sub[a])
    /\ Write(sub[a])
    /\ Answer(a, "PERSISTENCE_CONFLICT")
    /\ UNCHANGED <<sub, seen, entry, derived>>

\* Rolled back: a serialization failure, founded or not.
RollBack(a) ==
    /\ phase[a] = "writing"
    /\ phase' = [phase EXCEPT ![a] = "failed"]
    /\ UNCHANGED <<stored, sub, seen, entry, answer, derived>>

\* Rolled back: the event identifier is already in use.
RejectIdentifier(a) ==
    /\ phase[a] = "writing"
    /\ Taken(sub[a])
    /\ phase' = [phase EXCEPT ![a] = "idTaken"]
    /\ UNCHANGED <<stored, sub, seen, entry, answer, derived>>

\* After a roll-back the request looks once more, outside any transaction,
\* whether its key was accepted meanwhile.
Recheck(a) ==
    /\ phase[a] \in {"failed", "idTaken"}
    /\ IF Priors(sub[a]) # {}
       THEN \E i \in Priors(sub[a]) : FoundPrior(a, i)
       ELSE /\ Answer(a, IF phase[a] = "idTaken" THEN "DUPLICATE_ACCEPTED_EVENT"
                         ELSE "PERSISTENCE_CONFLICT")
            /\ UNCHANGED entry
    /\ UNCHANGED <<stored, sub, seen, derived>>

\* loadCorrectionResult: is the correction still the newest event?  The reads of
\* this transaction (READ COMMITTED) do not share a snapshot.
LoadGame(a) ==
    /\ phase[a] = "loading"
    /\ IF game.revision # entry[a]
       THEN Answer(a, "STALE_SOURCE_REVISION") /\ UNCHANGED seen
       ELSE /\ seen' = [seen EXCEPT ![a] = [revision |-> game.revision, privacy |-> privacy]]
            /\ Continue(a, "reading")
    /\ UNCHANGED <<stored, sub, entry, derived>>

LoadCheckpoint(a) ==
    /\ phase[a] = "reading"
    /\ Answer(a, IF /\ CurrentCheckpoint(seen[a].revision, seen[a].privacy) \in checkpoints
                    /\ [action |-> "game.correction.apply", revision |-> entry[a]] \in audits
                 THEN "SUCCESS" ELSE "INTERNAL_INVARIANT_FAILURE")
    /\ UNCHANGED <<stored, sub, seen, entry, derived>>

\* The scorer has the answer, or will never have it: it is lost on the way, or
\* the server dies with the request, whose transaction the database rolls back.
End(a) ==
    /\ phase[a] # "idle"
    /\ phase' = [phase EXCEPT ![a] = "idle"]
    /\ sub' = [sub EXCEPT ![a] = None]
    /\ seen' = [seen EXCEPT ![a] = Nothing]
    /\ entry' = [entry EXCEPT ![a] = 0]
    /\ answer' = [answer EXCEPT ![a] = "NONE"]
    /\ UNCHANGED <<stored, derived>>

-----------------------------------------------------------------------------
(* Others who write the same rows *)

\* A projection worker reads the history and derives statistics from it ...
Derive ==
    /\ derived' = [revision |-> game.revision, privacy |-> privacy]
    /\ UNCHANGED <<stored, requests>>

AlwaysFresh == TRUE
StillFresh == derived.revision = game.revision /\ derived.privacy = privacy

\* ... and publishes them (publishGameCheckpoint), which is refused when the
\* game or the privacy overlays have moved on.
Publish ==
    /\ StillFresh
    /\ checkpoints' = Published(checkpoints, derived.revision, derived.privacy)
    /\ outbox' = outbox \cup {Notice("REPORT_READY", derived.revision, derived.privacy)}
    /\ UNCHANGED <<history, game, privacy, audits, requests, derived>>

\* A privacy request replaces a player's name: the overlay revision advances
\* and the account's checkpoints are deleted.
DeleteName ==
    /\ privacy < MaxPrivacy
    /\ privacy' = privacy + 1
    /\ checkpoints' = {}
    /\ UNCHANGED <<history, game, outbox, audits, requests, derived>>

-----------------------------------------------------------------------------
Init ==
    /\ history = <<>>
    /\ game = [revision |-> 0, status |-> "READY"]
    /\ privacy = 0
    /\ checkpoints = {}
    /\ outbox = {}
    /\ audits = {}
    /\ phase = [a \in Attempts |-> "idle"]
    /\ sub = [a \in Attempts |-> None]
    /\ seen = [a \in Attempts |-> Nothing]
    /\ entry = [a \in Attempts |-> 0]
    /\ answer = [a \in Attempts |-> "NONE"]
    /\ derived = Nothing

Step(a) ==
    \/ Read(a) \/ Commit(a) \/ CommitUnconfirmed(a) \/ RollBack(a)
    \/ RejectIdentifier(a) \/ Recheck(a) \/ LoadGame(a) \/ LoadCheckpoint(a)

Next ==
    \/ \E a \in Attempts : Step(a) \/ End(a) \/ \E s \in Submissions : Send(a, s)
    \/ Derive \/ Publish \/ DeleteName

Spec == Init /\ [][Next]_vars

-----------------------------------------------------------------------------
(* Properties *)

Revisions == 0 .. Len(history)
Checkpoints(r, p) == [revision : 0 .. r, privacy : 0 .. p, status : {"CURRENT", "STALE"}]

RowsOK ==
    /\ history \in Seq(Submissions)
    /\ game \in [revision : Nat, status : Statuses]
    /\ privacy \in 0 .. MaxPrivacy
    /\ checkpoints \subseteq Checkpoints(Len(history), privacy)
    /\ \A n \in outbox : n.revision \in Revisions
    /\ \A r \in audits : r.revision \in Revisions
RequestsOK ==
    /\ phase \in [Attempts -> Phases]
    /\ sub \in [Attempts -> Submissions \cup {None}]
    /\ \A a \in Attempts : phase[a] # "idle" => sub[a] \in Submissions
    /\ seen \in [Attempts -> [revision : Revisions, privacy : 0 .. privacy]]
    /\ entry \in [Attempts -> Revisions]
    /\ answer \in [Attempts -> Codes]

\* Every variable keeps the shape of the rows and requests it stands for, and
\* none is ahead of the history or of the privacy overlays.
TypeOK == RowsOK /\ RequestsOK

\* However often a submission is sent again, by however many requests at once,
\* and whatever their answers: its idempotency key is recorded at most once
\* (the prior lookup of acceptInternal and the unique key behind it).
KeysRecordedOnce ==
    \A i, j \in DOMAIN history : history[i].key = history[j].key => i = j

\* The Game row agrees with the accepted history, so no request ever finds them
\* in disagreement (the IMMUTABLE_HISTORY_VIOLATION of acceptInternal).
GameRowAgrees ==
    /\ game = [revision |-> Len(history), status |-> Replayed(history)]
    /\ \A a \in Attempts : answer[a] # "IMMUTABLE_HISTORY_VIOLATION"

\* SUCCESS names an event that records this very submission, and stays true.
\* A plain submission that was answered stale, or that its key is in use for
\* something else, is not in the history and never gets there, also when other
\* requests with the same submission are still under way.  (Not so the other
\* refusals: the capability is no part of the input, so a verification refused
\* for it may be sent again under the same key with the right one.)
Records(e, s) == e.key = s.key /\ e.expected = s.expected /\ e.type = s.type
Recorded(s) == \E i \in DOMAIN history : Records(history[i], s)
AnswersHold ==
    \A a \in Attempts :
        /\ answer[a] = "SUCCESS" =>
              entry[a] \in DOMAIN history /\ Records(history[entry[a]], sub[a])
        /\ /\ answer[a] \in {"STALE_SOURCE_REVISION", "DUPLICATE_IDEMPOTENCY_KEY"}
           /\ ~Correction(sub[a])
           => ~Recorded(sub[a])

\* A reader who asks for the current statistics gets those of the newest event
\* and of the newest privacy overlay: no other checkpoint is CURRENT, whatever
\* acceptances, corrections, projection workers and privacy deletions overlap.
CurrentCheckpointIsLatest ==
    \A c \in checkpoints :
        c.status = "CURRENT" => c.revision = game.revision /\ c.privacy = privacy

\* The first verification of a game was authorized as one, every later one as a
\* reverification, although the capability was chosen before the transaction
\* looked at the history.
VerifiedByRightCapability ==
    \A r \in audits :
        history[r.revision].type = "GameVerified" =>
            r.action = IF \E i \in 1 .. r.revision - 1 : history[i].type = "GameVerified"
                       THEN "game.reverify" ELSE "game.verify"

\* The rows written beside an event, the game and its audit, say what the
\* history says.
RowsAgree == GameRowAgrees /\ VerifiedByRightCapability

\* Acceptance implements the abstract history: each step appends one event,
\* recorded for the revision it was entered at under a new key, or none.
Abstract == INSTANCE AcceptedHistory WITH Submissions <- Submissions, history <- history
ImplementsHistory == Abstract!Spec
=============================================================================
