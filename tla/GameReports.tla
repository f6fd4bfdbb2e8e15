----------------------------- MODULE GameReports -----------------------------
(***************************************************************************)
(* Reports read while games are scored: a box score, a season dashboard, a *)
(* portable export and a data reconciliation.  Each is put together from   *)
(* several reads, every statement of which sees what is committed when it  *)
(* runs (READ COMMITTED), and tries a second time when the game rows and   *)
(* the histories it read disagree.  Meanwhile events are accepted, records *)
(* created, projections published and names erased.                        *)
(*                                                                         *)
(* One report at a time: reports write nothing that another one reads.  A  *)
(* history is the sequence of the kinds of its events that decide the      *)
(* status; what a play does is GameEngine's, what it counts for            *)
(* GameStatistics'.                                                        *)
(***************************************************************************)
EXTENDS Integers, FiniteSets, SequencesExt

CONSTANTS
    None,
    Games,          \* every game has records of its own in each section
    Bounds          \* per report: the games ready from the start, the records that are
                    \* there, how many events a game and how many erasures there are

VARIABLES
    records,        \* the records of the account: <<section, game>>
    ready,          \* games whose set-up was accepted
    history,        \* [Games -> sequence of event kinds]
    checkpoint,     \* [Games -> newest projection checkpoint or None]
    overlay,        \* revision of the privacy overlay
    reader          \* the report that is read

reportVars == <<records, ready, history, checkpoint, overlay, reader>>

-----------------------------------------------------------------------------
(* Games and records *)

After(status, event) ==
    CASE event = "Start"    -> "IN_PROGRESS"
      [] event = "Complete" -> "COMPLETED"
      [] event = "Verify"   -> "VERIFIED"
      [] event = "Reopen"   -> "CORRECTED"
      [] event = "Abandon"  -> "ABANDONED"
      [] event = "Cancel"   -> "CANCELLED"
      [] event = "Correct"  -> IF status = "IN_PROGRESS" THEN status ELSE "CORRECTED"

AcceptedIn ==
    [Start    |-> {"READY"}, Cancel |-> {"READY"},
     Complete |-> {"IN_PROGRESS"},
     Verify   |-> {"COMPLETED", "CORRECTED"},
     Reopen   |-> {"VERIFIED"},
     Abandon  |-> {"IN_PROGRESS", "COMPLETED", "CORRECTED"},
     Correct  |-> {"IN_PROGRESS", "COMPLETED", "CORRECTED"}]

StatusOf(h) ==
    LET status[i \in 0 .. Len(h)] == IF i = 0 THEN "READY" ELSE After(status[i - 1], h[i])
    IN  status[Len(h)]
Corrections(h) == Cardinality({i \in DOMAIN h : h[i] = "Correct"})

\* The sections of an export, in the order in which the catalog reads them, and
\* the records a record of a section names.
Sections == <<"teams", "seasons", "teamSeasons", "players", "rosters", "rulesets", "games">>
Named ==
    [teams |-> {}, seasons |-> {}, players |-> {}, rulesets |-> {},
     teamSeasons |-> {"teams", "seasons"}, rosters |-> {"players", "teamSeasons"},
     games |-> {"seasons", "teamSeasons"}]

-----------------------------------------------------------------------------
(* What a report says of a history *)

Unfinished == {"READY", "IN_PROGRESS", "SUSPENDED"}

ReportState(h) ==
    LET status == StatusOf(h) IN
    CASE status = "READY"     -> "DRAFT"
      [] status = "CORRECTED" -> IF "Verify" \in ToSet(h) THEN "AWAITING_REVERIFICATION"
                                 ELSE "CORRECTED"
      [] OTHER                -> status

ScoreKind(state) ==
    CASE state \in {"COMPLETED", "CORRECTED", "AWAITING_REVERIFICATION", "VERIFIED"} -> "FINAL"
      [] state \in {"ABANDONED", "CANCELLED"} -> "TERMINATED"
      [] OTHER -> "CURRENT"

\* The confidence of a box score goes by the corrections in the history ...
BoxConfidence(h) ==
    LET state == ReportState(h) IN
    CASE state = "VERIFIED" -> "VERIFIED"
      [] state \in {"DRAFT", "IN_PROGRESS", "SUSPENDED"} -> "INCOMPLETE"
      [] OTHER -> IF Corrections(h) > 0 THEN "CORRECTED" ELSE "CURRENT"

\* ... that of an exported game and of a dashboard row by its status.
PortableConfidence(h) ==
    LET status == StatusOf(h) IN
    CASE status = "VERIFIED" -> "VERIFIED"
      [] status \in Unfinished -> "INCOMPLETE"
      [] status = "CORRECTED" -> "CORRECTED"
      [] OTHER -> "CURRENT"
GameConfidence(h) ==
    LET status == StatusOf(h) IN
    CASE status = "VERIFIED" -> "VERIFIED"
      [] status = "CORRECTED" -> "CORRECTED"
      [] status \in Unfinished -> "INCOMPLETE"
      [] OTHER -> "CURRENT"

\* A dashboard counts its verified games as decided and every other game in one of
\* the remaining columns.
DashboardRecord(hs) ==
    LET With(S) == {g \in DOMAIN hs : StatusOf(hs[g]) \in S} IN
    [decided    |-> With({"VERIFIED"}),
     incomplete |-> With(Unfinished \cup {"COMPLETED"}),
     abandoned  |-> With({"ABANDONED"}),
     cancelled  |-> With({"CANCELLED"}),
     corrected  |-> With({"CORRECTED"})]

\* The games whose lines a season adds up.
IncludedGames(hs) == {g \in DOMAIN hs : StatusOf(hs[g]) = "VERIFIED"}

\* The warnings of a reconciliation: none of them is blocking.
ProjectionFinding(h, c, o) ==
    CASE c = None -> {"PROJECTION_MISSING"}
      [] c # None /\ (~c.current \/ c.revision # Len(h) \/ c.overlay # o) -> {"PROJECTION_STALE"}
      [] OTHER -> {}
LifecycleFinding(h) ==
    LET status == StatusOf(h) IN
    CASE status \in Unfinished -> {"GAME_NOT_COMPLETE"}
      [] status \in {"ABANDONED", "CANCELLED"} -> {"GAME_TERMINATED_UNVERIFIED"}
      [] status = "VERIFIED" -> {}
      [] OTHER -> IF Corrections(h) > 0 THEN {"CORRECTED_HISTORY_REQUIRES_VERIFICATION"}
                  ELSE {"GAME_NOT_VERIFIED"}
Findings(h, c, o) == ProjectionFinding(h, c, o) \cup LifecycleFinding(h)

FreshnessIgnored(h, findings) == BoxConfidence(h)
ConfidenceFor(h, findings) ==
    CASE "PROJECTION_STALE" \in findings -> "STALE"
      [] /\ "PROJECTION_STALE" \notin findings
         /\ StatusOf(h) \in Unfinished \/ "PROJECTION_MISSING" \in findings -> "INCOMPLETE"
      [] OTHER -> BoxConfidence(h)

\* What the four reports answer about the histories they read.
BoxScoreOf(h, c) ==
    [revision |-> Len(h), state |-> ReportState(h), score |-> ScoreKind(ReportState(h)),
     corrections |-> Corrections(h), confidence |-> BoxConfidence(h),
     projection |-> IF c = None THEN "NOT_USED" ELSE "CURRENT"]
DashboardOf(hs) ==
    [record |-> DashboardRecord(hs), included |-> IncludedGames(hs),
     games |-> [g \in DOMAIN hs |-> [revision |-> Len(hs[g]), confidence |-> GameConfidence(hs[g])]]]
ExportedGame(row, h) ==
    [status |-> row.status, revision |-> row.revision,
     summary |-> [status |-> StatusOf(h), revision |-> Len(h), confidence |-> PortableConfidence(h)]]
ReconciliationOf(h, c, o) ==
    [revision |-> Len(h), findings |-> Findings(h, c, o),
     confidence |-> ConfidenceFor(h, Findings(h, c, o))]

-----------------------------------------------------------------------------
(* The account changes while a report is read *)

\* The report that will be asked for is chosen first, so that changes it does not
\* read can be left out (a bound, as is the end of all changes with the report).
Asked(kind) == [kind |-> kind, phase |-> "asked"]
Reading == reader.phase = "reading"
Ended == reader.phase \in {"returned", "stale", "failed"}
ChangesFor(kinds) == ~Ended /\ reader.kind \in kinds
Revisions(hs) == [g \in DOMAIN hs |-> Len(hs[g])]
Noting(r) == IF Reading THEN r ELSE reader

\* Records are created one transaction at a time, a record after those it names.
CreateRecord(section, g) ==
    /\ ChangesFor({"EXPORT"})
    /\ <<section, g>> \notin records
    /\ \A s \in Named[section] : <<s, g>> \in records
    /\ records' = records \cup {<<section, g>>}
    /\ reader' = Noting([reader EXCEPT !.grown = TRUE])
    /\ UNCHANGED <<ready, history, checkpoint, overlay>>

AcceptSetup(g) ==
    /\ ChangesFor({"EXPORT"})
    /\ g \notin ready
    /\ {<<"games", g>>, <<"rulesets", g>>, <<"rosters", g>>} \subseteq records
    /\ ready' = ready \cup {g}
    /\ reader' = Noting([reader EXCEPT !.grown = TRUE])
    /\ UNCHANGED <<records, history, checkpoint, overlay>>

\* An event is accepted: game row, event and correction rows, checkpoints in one
\* transaction.  The statistics of a correction are derived in it.
AcceptEvent(g, event) ==
    /\ ~Ended
    /\ g \in ready
    /\ Len(history[g]) < Bounds[reader.kind].events[g]
    /\ StatusOf(history[g]) \in AcceptedIn[event]
    /\ history' = [history EXCEPT ![g] = Append(@, event)]
    /\ checkpoint' = [checkpoint EXCEPT ![g] =
           IF reader.kind \notin {"BOX", "RECONCILE"} THEN None
           ELSE IF event = "Correct"
           THEN [revision |-> Len(history'[g]), overlay |-> overlay, current |-> TRUE]
           ELSE IF @ = None THEN None ELSE [@ EXCEPT !.current = FALSE]]
    /\ reader' = Noting([reader EXCEPT !.moved = @ \cup {reader.attempt},
                                       !.corrected = @ \/ event = "Correct",
                                       !.moments = @ \cup {Revisions(history')}])
    /\ UNCHANGED <<records, ready, overlay>>

PublishProjection(g) ==
    /\ ChangesFor({"BOX", "RECONCILE"})
    /\ g \in ready /\ history[g] # <<>>
    /\ checkpoint' = [checkpoint EXCEPT ![g] =
           [revision |-> Len(history[g]), overlay |-> overlay, current |-> TRUE]]
    /\ checkpoint' # checkpoint
    /\ UNCHANGED <<records, ready, history, overlay, reader>>

\* An erasure adds an overlay and deletes the checkpoints of the account.
EraseNames ==
    /\ ~Ended
    /\ overlay < Bounds[reader.kind].erasures
    /\ overlay' = overlay + 1
    /\ checkpoint' = [g \in Games |-> None]
    /\ UNCHANGED <<records, ready, history, reader>>

-----------------------------------------------------------------------------
(* A report reads *)

Nothing == [g \in {} |-> None]

\* Game row first or history first: a dashboard and an export select their games
\* before they read histories.  A reconciliation starts its three reads at once.
Plan ==
    [BOX       |-> <<"events", "corrections", "presentation", "checkpoint">>,
     SEASON    |-> <<"presentation", "events", "corrections">>,
     EXPORT    |-> Sections \o <<"overlays", "events", "corrections", "presentation">>,
     RECONCILE |-> <<"events", "corrections", "presentation", "checkpoint">>]
Kinds == DOMAIN Plan

Precedes(kind, x, y) ==
    IF kind = "RECONCILE" THEN x = "events" /\ y = "corrections"
    ELSE \E i, j \in DOMAIN Plan[kind] : i < j /\ Plan[kind][i] = x /\ Plan[kind][j] = y

Attempt(kind, wanted, n, r) ==
    [kind |-> kind, phase |-> "reading", attempt |-> n, left |-> ToSet(Plan[kind]),
     wanted |-> wanted, records |-> {}, row |-> Nothing, events |-> Nothing,
     names |-> 0, overlay |-> 0, checkpoint |-> None, grown |-> FALSE,
     moved |-> r.moved, corrected |-> FALSE, since |-> r.since,
     moments |-> {Revisions(history)}]

Begin ==
    /\ reader.phase = "asked"
    /\ \E g \in ready :
        reader' = Attempt(reader.kind, IF reader.kind \in {"BOX", "RECONCILE"} THEN {g} ELSE {}, 1,
                          [moved |-> {}, since |-> overlay])
    /\ UNCHANGED <<records, ready, history, checkpoint, overlay>>

MayRead(x) ==
    /\ Reading /\ x \in reader.left
    /\ \A y \in reader.left : ~Precedes(reader.kind, y, x)
Took(x, r) == reader' = [r EXCEPT !.left = @ \ {x}]
ReaderOnly == UNCHANGED <<records, ready, history, checkpoint, overlay>>

RowOf(g) == [revision |-> Len(history[g]), status |-> StatusOf(history[g])]
Rows(gs) == [g \in gs |-> RowOf(g)]

\* One section of the catalog; the section of the games names those to read.
ReadSection(x) ==
    /\ x \in ToSet(Sections) /\ MayRead(x)
    /\ Took(x, [reader EXCEPT
           !.records = @ \cup {r \in records : r[1] = x},
           !.wanted  = IF x = "games" THEN ready ELSE @,
           !.row     = IF x = "games" THEN Rows(ready) ELSE @])
    /\ ReaderOnly

ReadOverlays == MayRead("overlays") /\ Took("overlays", [reader EXCEPT !.names = overlay]) /\ ReaderOnly

\* The source events of the games, then the correction rows: a correction row
\* without its event, or an event without its rows, fails the whole report.
ReadEvents ==
    /\ MayRead("events")
    /\ Took("events", [reader EXCEPT !.events = [g \in reader.wanted |-> history[g]]])
    /\ ReaderOnly

CorrectionRelationshipsHold ==
    \A g \in reader.wanted : Corrections(reader.events[g]) = Corrections(history[g])
ReadCorrections ==
    /\ MayRead("corrections")
    /\ IF CorrectionRelationshipsHold THEN Took("corrections", reader)
       ELSE reader' = [reader EXCEPT !.phase = "failed"]
    /\ ReaderOnly

\* Game rows and overlays for the games asked for ...
ReadPresentation ==
    /\ reader.kind # "SEASON" /\ MayRead("presentation")
    /\ Took("presentation", [reader EXCEPT
           !.row = IF reader.kind = "EXPORT" THEN @ ELSE Rows(reader.wanted),
           !.overlay = overlay])
    /\ ReaderOnly

\* ... and for a dashboard, whose games they are: those of the season that are ready.
ReadGameSources ==
    /\ reader.kind = "SEASON" /\ MayRead("presentation")
    /\ Took("presentation", [reader EXCEPT !.wanted = ready, !.row = Rows(ready), !.overlay = overlay])
    /\ ReaderOnly

\* A box score takes the checkpoint of the revision and overlay just read ...
ReadCheckpoint ==
    /\ reader.kind = "BOX" /\ MayRead("checkpoint")
    /\ \E g \in reader.wanted :
        LET c == checkpoint[g]
            matches == /\ c # None
                       /\ c.current /\ c.revision = reader.row[g].revision
                       /\ c.overlay = reader.overlay
        IN  Took("checkpoint", [reader EXCEPT !.checkpoint = IF matches THEN c ELSE None])
    /\ ReaderOnly

\* ... a reconciliation the newest one, whatever it is of.
ReadLatestProjection ==
    /\ reader.kind = "RECONCILE" /\ MayRead("checkpoint")
    /\ \E g \in reader.wanted :
        Took("checkpoint", [reader EXCEPT !.checkpoint = checkpoint[g]])
    /\ ReaderOnly

-----------------------------------------------------------------------------
(* The report is built, or read once more *)

NoComparison == TRUE
HistoriesMatchRows ==
    \A g \in reader.wanted : Len(reader.events[g]) = reader.row[g].revision

\* A stored projection that is not of this history fails a box score.
CheckpointIsCurrent ==
    reader.kind = "BOX" /\ reader.checkpoint # None =>
        \A g \in reader.wanted : reader.checkpoint.revision = Len(reader.events[g])

Build ==
    /\ Reading /\ reader.left = {}
    /\ HistoriesMatchRows
    /\ reader' = [reader EXCEPT !.phase = IF CheckpointIsCurrent THEN "returned" ELSE "stale"]
    /\ ReaderOnly

ReadAgain ==
    /\ Reading /\ reader.left = {}
    /\ ~HistoriesMatchRows
    /\ reader' = IF reader.attempt < 2
                 THEN Attempt(reader.kind,
                              IF reader.kind \in {"BOX", "RECONCILE"} THEN reader.wanted ELSE {},
                              reader.attempt + 1, reader)
                 ELSE [reader EXCEPT !.phase = "stale"]
    /\ ReaderOnly

ReportInit ==
    /\ \E kind \in Kinds :
        /\ reader = Asked(kind)
        /\ ready = Bounds[kind].ready
        /\ records = Bounds[kind].records
    /\ history = [g \in Games |-> <<>>]
    /\ checkpoint = [g \in Games |-> None]
    /\ overlay = 0

ReportNext ==
    \/ \E g \in Games :
        \/ \E s \in DOMAIN Named : CreateRecord(s, g)
        \/ AcceptSetup(g) \/ PublishProjection(g)
        \/ \E e \in DOMAIN AcceptedIn : AcceptEvent(g, e)
    \/ EraseNames
    \/ Begin
    \/ \E x \in DOMAIN Named : ReadSection(x)
    \/ ReadOverlays \/ ReadEvents \/ ReadCorrections \/ ReadPresentation \/ ReadGameSources
    \/ ReadCheckpoint \/ ReadLatestProjection
    \/ Build \/ ReadAgain

ReportSpec == ReportInit /\ [][ReportNext]_reportVars

-----------------------------------------------------------------------------
(* The dry run of an import (validatePortableImport) *)

\* What the section reads put together refers to nothing it lacks.
ReferencesHold(r) ==
    /\ \A x \in r.records : \A s \in Named[x[1]] : <<s, x[2]>> \in r.records
    /\ \A g \in r.wanted : <<"rulesets", g>> \in r.records
SummariesMatch(r) ==
    \A g \in r.wanted :
        LET game == ExportedGame(r.row[g], r.events[g]) IN
        game.status = game.summary.status /\ game.revision = game.summary.revision
\* The target account is one that has these records, or another.
ImportVerdict(r, existing) ==
    IF r.records \cap existing # {} THEN "EXISTING_RECORD_CONFLICT"
    ELSE IF ~ReferencesHold(r) THEN "REFERENCE_MISSING"
    ELSE IF ~SummariesMatch(r) THEN "SUMMARY_MISMATCH"
    ELSE "DRY_RUN_ONLY"

-----------------------------------------------------------------------------
(* Properties *)

Returned == reader.phase = "returned"

ReportTypeOK ==
    /\ records \subseteq {<<Sections[i], g>> : i \in DOMAIN Sections, g \in Games}
    /\ ready \subseteq Games
    /\ \A g \in Games : Len(history[g]) \in 0 .. Bounds[reader.kind].events[g]
    /\ reader.kind \in Kinds
    /\ reader.phase # "asked" => reader.left \subseteq ToSet(Plan[reader.kind])

\* A report that is returned shows its games as they all were at one moment while it
\* was read, whatever was accepted between its reads: each row is of the history
\* beside it, which nobody can rewrite.
ShowsOneMoment ==
    Returned => /\ SummariesMatch(reader)
                /\ \E m \in reader.moments : \A g \in reader.wanted :
                       Len(reader.events[g]) = m[g] /\ IsPrefix(reader.events[g], history[g])

\* Only an event accepted in both attempts makes a report give up, and only a
\* correction accepted while it was read makes it fail.
GivesUpOnlyForChange ==
    /\ reader.phase = "stale" => reader.moved = {1, 2}
    /\ reader.phase = "failed" => reader.corrected

\* A name erased before a report was asked for is not in it.
ErasedNamesAreGone ==
    Returned => /\ reader.since <= reader.overlay
                /\ reader.kind = "EXPORT" => reader.since <= reader.names /\ reader.names <= reader.overlay

\* An export can be imported elsewhere unless records were added while its catalog
\* was read; the account it is from always refuses it.
ExportCanBeImported ==
    Returned /\ reader.kind = "EXPORT" =>
        /\ ImportVerdict(reader, {}) = "DRY_RUN_ONLY" \/ reader.grown
        /\ ImportVerdict(reader, records) = "EXISTING_RECORD_CONFLICT"

\* The four reports never contradict each other about a game: a reconciliation calls
\* verified what the box score calls so, with a projection of it; box score and export
\* differ only over games corrected before they ended and games reopened but not corrected.
ConfidenceAgrees ==
    Returned => \A g \in reader.wanted :
        LET h == reader.events[g]
            box == BoxScoreOf(h, reader.checkpoint)
            exported == ExportedGame(reader.row[g], h).summary
            reconciled == ReconciliationOf(h, reader.checkpoint, reader.overlay)
        IN  /\ exported.confidence = DashboardOf(reader.events).games[g].confidence
            /\ box.confidence # exported.confidence =>
                   \/ box.corrections > 0 /\ exported.status \in {"COMPLETED", "ABANDONED"}
                   \/ box.corrections = 0 /\ exported.status = "CORRECTED"
            /\ box.confidence = "VERIFIED" => box.score = "FINAL"
            /\ reader.kind = "RECONCILE" /\ reconciled.confidence = "VERIFIED" =>
                   /\ box.confidence = "VERIFIED"
                   /\ reader.checkpoint # None /\ reader.checkpoint.current
                   /\ reader.checkpoint.revision = Len(h)

\* A dashboard counts every game once, and adds up the decided ones.
DashboardCountsOnce ==
    Returned /\ reader.kind = "SEASON" =>
        LET dashboard == DashboardOf(reader.events)
            record    == dashboard.record
        IN  /\ record.decided = dashboard.included
            /\ UNION {record[c] : c \in DOMAIN record} = reader.wanted
            /\ \A c, d \in DOMAIN record : c # d => record[c] \cap record[d] = {}

ReportsHold ==
    /\ ReportTypeOK /\ ShowsOneMoment /\ GivesUpOnlyForChange /\ ErasedNamesAreGone
    /\ ExportCanBeImported /\ ConfidenceAgrees /\ DashboardCountsOnce
=============================================================================
