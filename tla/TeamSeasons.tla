------------------------------ MODULE TeamSeasons ------------------------------
(***************************************************************************)
(* One season of an account: teams and their participations, roster        *)
(* periods, and the set-up of a game up to its first event                 *)
(* (src/server/data/team-season-roster-repository.ts,                      *)
(* src/server/data/game-setup-repository.ts).                              *)
(*                                                                         *)
(* Every command is one serializable transaction, so one step; a command   *)
(* whose expected revision of a row is stale is refused and is no step.    *)
(* What is left is the order of commands by different people, each of      *)
(* which looks only at its own neighbours, and the set-up submissions,     *)
(* which a client may send again.  Abstracted: names, colours, jersey      *)
(* numbers, rulesets; of a lineup only its roster periods are kept.        *)
(***************************************************************************)
EXTENDS Naturals, Sequences, FiniteSets

CONSTANTS
    Teams, Players, HomeTeam,  \* the game is one of HomeTeam
    Lineups,          \* sets of roster periods clients submit, with the teams managed
    LastDay,          \* bound: instants are 1 .. LastDay
    MaxPeriods,       \* bound: roster periods
    Submissions,      \* client submission ids
    MaxChanges,       \* bound: archivals, restorations and transitions of a behaviour
    None

VARIABLES
    team,          \* status of each team
    season,        \* status of the season
    participation, \* TeamSeason of each team: None, "OPEN" or "ARCHIVED"
    retired,       \* archived players
    period,        \* the roster entries as they were made
    game,          \* [status, scheduledAt, setupRevision, ready]
    snapshot,      \* the set-up revisions: [submission, sides, lineup, scheduledAt]
    submitted,     \* set-up submissions sent, with the revision they expect
    changes

seasonVars == <<team, season, participation, retired, period, game, snapshot, submitted, changes>>

Days == 1 .. LastDay
Periods == DOMAIN period
Playing == {n \in Periods : period[n].status = "ACTIVE"}
Open    == season \in {"DRAFT", "ACTIVE"}
Operational == {"DRAFT", "READY", "IN_PROGRESS", "SUSPENDED", "CORRECTED"}

SeasonAssumption ==
    /\ HomeTeam \in Teams
    /\ Lineups \subseteq [sides : SUBSET Teams, lineup : SUBSET Nat]
    /\ None \notin Operational \cup {"FINAL", "OPEN", "ARCHIVED"}

\* Two teams and their first roster periods; the season may have begun.
SeasonInit ==
    /\ team = [t \in Teams |-> "ACTIVE"] /\ season \in {"DRAFT", "ACTIVE"}
    /\ participation = [t \in Teams |-> IF t = HomeTeam THEN "OPEN" ELSE None]
    /\ retired = {} /\ period = <<>>
    /\ game = [status |-> None, scheduledAt |-> 0, setupRevision |-> 0, ready |-> 0]
    /\ snapshot = <<>> /\ submitted = {} /\ changes = 0

Changes == changes < MaxChanges /\ changes' = changes + 1

-----------------------------------------------------------------------------
(* Lifecycles *)

SetTeamArchived(t, archived) ==
    /\ Changes
    /\ archived => participation[t] # "OPEN"
    /\ team' = [team EXCEPT ![t] = IF archived THEN "ARCHIVED" ELSE "ACTIVE"]
    /\ UNCHANGED <<season, participation, retired, period, game, snapshot, submitted>>

SeasonStep ==
    {<<"DRAFT", "ACTIVE">>, <<"DRAFT", "ARCHIVED">>, <<"ACTIVE", "COMPLETED">>,
     <<"COMPLETED", "ARCHIVED">>}

TransitionSeason(next) ==
    /\ Changes /\ <<season, next>> \in SeasonStep
    /\ next = "ARCHIVED" => Playing = {}
    /\ next \in {"COMPLETED", "ARCHIVED"} => game.status \notin Operational
    /\ season' = next
    /\ UNCHANGED <<team, participation, retired, period, game, snapshot, submitted>>

AddTeamSeason(t) ==
    /\ participation[t] = None /\ team[t] = "ACTIVE" /\ Open
    /\ participation' = [participation EXCEPT ![t] = "OPEN"]
    /\ UNCHANGED <<team, season, retired, period, game, snapshot, submitted, changes>>

Dependencies(t) ==
    \/ \E n \in Playing : period[n].team = t
    \/ t = HomeTeam /\ game.status \in Operational
ArchivesWithoutGames(t) == \A n \in Playing : period[n].team # t
MayArchive(t) == ~Dependencies(t)

ArchiveTeamSeason(t) ==
    /\ Changes /\ participation[t] # None /\ MayArchive(t)
    /\ participation' = [participation EXCEPT ![t] = "ARCHIVED"]
    /\ UNCHANGED <<team, season, retired, period, game, snapshot, submitted>>

RestoreTeamSeason(t) ==
    /\ Changes /\ participation[t] # None /\ team[t] = "ACTIVE" /\ Open
    /\ participation' = [participation EXCEPT ![t] = "OPEN"]
    /\ UNCHANGED <<team, season, retired, period, game, snapshot, submitted>>

SetPlayerArchived(p, archived) ==
    /\ Changes
    /\ archived => \A n \in Playing : period[n].player # p
    /\ retired' = IF archived THEN retired \cup {p} ELSE retired \ {p}
    /\ UNCHANGED <<team, season, participation, period, game, snapshot, submitted>>

-----------------------------------------------------------------------------
(* Roster periods *)

CanPlay(t, p) ==
    participation[t] = "OPEN" /\ team[t] = "ACTIVE" /\ Open /\ p \notin retired

\* RosterEntry_no_overlapping_periods
Overlaps(t, p, at) ==
    \E n \in Periods : /\ period[n].team = t /\ period[n].player = p
                       /\ period[n].status = "ACTIVE" \/ at < period[n].endsAt

Begun(t, p, at) == [team |-> t, player |-> p, startsAt |-> at, status |-> "ACTIVE", endsAt |-> 0]

AddRosterPeriod(t, p, at) ==
    /\ Len(period) < MaxPeriods
    /\ CanPlay(t, p) /\ ~Overlaps(t, p, at)
    /\ period' = Append(period, Begun(t, p, at))
    /\ UNCHANGED <<team, season, participation, retired, game, snapshot, submitted, changes>>

NeverInUse(n) == FALSE
InReadySetup(n) == game.status = "READY" /\ n \in snapshot[game.ready].lineup

Ended(n, at) == [period EXCEPT ![n].status = "INACTIVE", ![n].endsAt = at]

EndRosterPeriod(n, at) ==
    /\ n \in Playing /\ ~InReadySetup(n) /\ at > period[n].startsAt
    /\ period' = Ended(n, at)
    /\ UNCHANGED <<team, season, participation, retired, game, snapshot, submitted, changes>>

ChangeJersey(n, at) ==
    /\ n \in Playing /\ Len(period) < MaxPeriods
    /\ ~InReadySetup(n) /\ at > period[n].startsAt /\ CanPlay(period[n].team, period[n].player)
    /\ period' = Append(Ended(n, at), Begun(period[n].team, period[n].player, at))
    /\ UNCHANGED <<team, season, participation, retired, game, snapshot, submitted, changes>>

-----------------------------------------------------------------------------
(* The game and its set-up *)

CreateDraftGame(at) ==
    /\ game.status = None
    /\ participation[HomeTeam] = "OPEN" /\ team[HomeTeam] = "ACTIVE" /\ Open
    /\ game' = [game EXCEPT !.status = "DRAFT", !.scheduledAt = at]
    /\ UNCHANGED <<team, season, participation, retired, period, snapshot, submitted, changes>>

\* A client prepares a submission on the revision it was shown.
Submit(id, l, at) ==
    /\ game.status # None /\ \A s \in submitted : s.submission # id
    /\ l.lineup \subseteq Periods
    /\ submitted' = submitted \cup
          {[submission |-> id, sides |-> l.sides, lineup |-> l.lineup, scheduledAt |-> at,
            expected |-> game.setupRevision]}
    /\ UNCHANGED <<team, season, participation, retired, period, game, snapshot, changes>>

SidesEligible(sides) ==
    \A t \in sides : participation[t] = "OPEN" /\ team[t] = "ACTIVE" /\ Open

LineupEligible(sides, lineup, at) ==
    \A n \in lineup : /\ period[n].team \in sides /\ n \in Playing
                      /\ period[n].startsAt <= at /\ period[n].player \notin retired

Saved(s) == \E n \in DOMAIN snapshot : snapshot[n].submission = s.submission

EditableInPlay == game.status \in {"DRAFT", "READY", "IN_PROGRESS"}
Editable       == game.status \in {"DRAFT", "READY"}

\* A submission that has its revision is answered with it.
SaveSetupRevision(s) ==
    /\ ~Saved(s)
    /\ Editable /\ game.setupRevision = s.expected
    /\ SidesEligible(s.sides) /\ LineupEligible(s.sides, s.lineup, s.scheduledAt)
    /\ snapshot' = Append(snapshot, [submission |-> s.submission, sides |-> s.sides,
                                     lineup |-> s.lineup, scheduledAt |-> s.scheduledAt])
    /\ game' = [status |-> "DRAFT", scheduledAt |-> s.scheduledAt,
                setupRevision |-> s.expected + 1, ready |-> 0]
    /\ UNCHANGED <<team, season, participation, retired, period, submitted, changes>>

\* Both sides, the home team among them, each managed one with a lineup.
Complete(n) ==
    /\ HomeTeam \in snapshot[n].sides
    /\ \A t \in snapshot[n].sides : \E m \in snapshot[n].lineup : period[m].team = t

MarkSetupReady(n) ==
    /\ game.status = "DRAFT" /\ n = game.setupRevision
    /\ Complete(n) /\ SidesEligible(snapshot[n].sides)
    /\ LineupEligible(snapshot[n].sides, snapshot[n].lineup, snapshot[n].scheduledAt)
    /\ game' = [game EXCEPT !.status = "READY", !.ready = n]
    /\ UNCHANGED <<team, season, participation, retired, period, snapshot, submitted, changes>>

\* Acceptance of GAME_STARTED, of the last out, of a correction of a final game.
GameMoves(to) ==
    /\ <<game.status, to>> \in {<<"READY", "IN_PROGRESS">>, <<"IN_PROGRESS", "FINAL">>,
                                <<"FINAL", "CORRECTED">>}
    /\ game' = [game EXCEPT !.status = to]
    /\ UNCHANGED <<team, season, participation, retired, period, snapshot, submitted, changes>>

SeasonNext ==
    \/ \E t \in Teams :
          \/ AddTeamSeason(t) \/ ArchiveTeamSeason(t) \/ RestoreTeamSeason(t)
          \/ \E b \in BOOLEAN : SetTeamArchived(t, b)
          \/ \E p \in Players, at \in Days : AddRosterPeriod(t, p, at)
    \/ \E to \in {"ACTIVE", "COMPLETED", "ARCHIVED"} : TransitionSeason(to)
    \/ \E p \in Players, b \in BOOLEAN : SetPlayerArchived(p, b)
    \/ \E n \in Periods, at \in Days : EndRosterPeriod(n, at) \/ ChangeJersey(n, at)
    \/ \E at \in Days : CreateDraftGame(at)
    \/ \E id \in Submissions, l \in Lineups, at \in Days : Submit(id, l, at)
    \/ \E s \in submitted : SaveSetupRevision(s)
    \/ \E n \in DOMAIN snapshot : MarkSetupReady(n)
    \/ \E to \in {"IN_PROGRESS", "FINAL", "CORRECTED"} : GameMoves(to)

SeasonSpec == SeasonInit /\ [][SeasonNext]_seasonVars

-----------------------------------------------------------------------------
(* Properties *)

\* What a lifecycle encloses is closed before it: no command order leaves a player
\* on the roster of an archived participation, season or player record, a
\* participation open under an archived team, or a game to be played in a closed
\* season or participation.
LifecyclesNest ==
    /\ \A n \in Playing : /\ participation[period[n].team] = "OPEN" /\ season # "ARCHIVED"
                          /\ period[n].player \notin retired
    /\ \A t \in Teams : participation[t] = "OPEN" => team[t] = "ACTIVE"
    /\ game.status \in Operational \ {"CORRECTED"} =>
          Open /\ participation[HomeTeam] = "OPEN"

\* A game that is ready can be played as it was set up: its snapshot is the newest,
\* and everybody in it is still on the roster, whatever was ended, archived or
\* saved since.
ReadyIsPlayable ==
    game.status = "READY" =>
        LET ready == snapshot[game.ready]
        IN  /\ game.ready = Len(snapshot) /\ game.scheduledAt = ready.scheduledAt
            /\ SidesEligible(ready.sides)
            /\ LineupEligible(ready.sides, ready.lineup, ready.scheduledAt)

\* A game is scored by the set-up that was ready when it began.
ScoredAsSetUp ==
    [][game.status \in {"IN_PROGRESS", "FINAL", "CORRECTED"} =>
          snapshot' = snapshot /\ game'.ready = game.ready]_seasonVars
=============================================================================
