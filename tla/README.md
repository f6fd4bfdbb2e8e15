# Baseball Stat Track: a TLA+ verification development

This directory holds TLA+ models of the server, the scoring engine and the scorer's client of
Baseball Stat Track, the TLC configurations that check them on small instances, and proofs, checked
by TLAPS, of what matters most for every instance. Paths such as `src/domain/events/game-engine.ts`
are relative to the repository root.

| module | models | proofs | run |
|---|---|---|---|
| `GameReducer` | the pure reducer: state, guards and effects of every event | `GameReducerProofs` | |
| `GameEngine` | one game being scored, event by event | `GameEngineProofs` | `engine_*` (`MCGameEngine`) |
| `CorrectionHistory` | the append-only history of a game and its corrections | `CorrectionHistoryProofs` | `histories`, `pending` (`MCGameHistory`) |
| `GameStatistics` | the box score of a history, and what it forbids | `CorrectionHistoryProofs` | the same |
| `CorrectionPanel` | the review page of a game: list, preview, confirmation, answer | `CorrectionHistoryProofs` | `histories`, `confirm` (`MCGameHistory`) |
| `LineupPanel` | the lineup panel beside the reducer | `GameEngineProofs` | `engine_lineups` (`MCGameEngine`) |
| `AcceptedHistory` | what acceptance of events promises, in twenty lines | refined by the next | |
| `EventAcceptance` | concurrent requests, transactions, checkpoints, outbox | `EventAcceptanceProofs` | `acceptance` (`MCEventAcceptance`) |
| `WebhookDelivery` | the durable webhook queue, its workers and operators | `AccountsProofs` | `queues` (`MCQueues`) |
| `NotificationDelivery` | preferences, quiet hours, digests and their queue | `AccountsProofs` | `queues` |
| `DiscordUpdates` | signals, evaluations, deliveries, the scheduler's cycles | `DiscordUpdatesProofs` | `discord` (`MCDiscordUpdates`) |
| `Sessions`, `SignIn` | a browser's session; external sign-in and linking | `ServicesProofs` | `services` (`MCServices`) |
| `RateLimits` | quotas, remembered operations, overrides | `ServicesProofs` | `services` |
| `ConfigurationRevisions`, `InstallationSetup` | configuration and its copies; first launch | `ServicesProofs` | `services` |
| `ExternalIngestion` | runs, lineage, checkpoint, quarantine | `ServicesProofs` | `services` |
| `GameReports` | box score, dashboard, export and reconciliation while games change | `ServicesProofs` | `services` |
| `PrivacyLifecycle` | deletion requests, holds, export grants | `AccountsProofs` | `accounts` (`MCAccounts`) |
| `FantasyLeague`, `FantasyScoring` | league transactions; results of a period | `AccountsProofs` | `accounts` |
| `FantasyDomain` | leagues, teams, entries and rules as values, and the authority for a change | `AccountsProofs` | `accounts` |
| `LeagueDelegation` | decisions about delegated capabilities, and their use | `AccountsProofs` | `accounts` |
| `Authorization` | the capability policy, and the request that reads the rows it decides on | `AccountsProofs` | `accounts` |
| `FantasyProvisioning` | the form that creates a league, from authorization to the stored workspace | `AccountsProofs` | `accounts` |
| `DiscordAdministration` | installation, channels, settings, grants | `AccountsProofs` | `accounts` |
| `SetupForm` | lineup fields, the set-up form and its action | `AccountsProofs` | `accounts` |
| `TeamSeasons` | seasons, rosters, game set-ups | `GameEngineProofs` | `desk` (`MCScoringDesk`) |
| `ScoringPanels` | the plate and runner panels beside the reducer | `GameEngineProofs` | `desk` |
| `ScoringClient` | stored drafts, keys and requests of two tabs | `GameEngineProofs` | `desk`, `retry` |
| `Recursion` | definedness of recursive functions, and induction over them | its own | used by proofs |

`MCServices`, `MCAccounts`, `MCQueues`, `MCScoringDesk` and `MCGameHistory` put several models into one run. Their
*parts* share no state in the code; a behaviour is one of one part and leaves the others in an
initial state, so a run explores the union of the parts and not their product.

## 1. The system

The application is a Next.js server over PostgreSQL (Prisma). Scorekeepers enter a baseball game as
a sequence of immutable events; everything else (statistics, reports, webhooks, notifications,
Discord posts) is derived from accepted events. Several server processes may run at once. They
share nothing but the database, so what makes the system correct is in its transactions: unique
keys, conditional updates, isolation levels, leases and sequence numbers. Schedulers outside the
server call worker routes periodically.

### 1.1 Components, their state and what makes them correct

**Game event engine** (`src/domain/events/game-engine.ts`, `event-log.ts`, `game-events.ts`).
State: one record per game: lifecycle status, inning, half, outs, score, bases, batting cursors,
the lineup (active players, batting slots, positions, everyone who has participated), the defense
map, the pitcher of each side and the pitcher responsible for each runner. Operations: one case of
`applyBody` per event type. It is sequential and deterministic; what is hard is that the same fact
is stored several times (lineup entry, defense map, pitcher; base and responsibility) and updated by
different code, and that rules about a play are checked against partial views of the state. Correct
means: the redundant parts agree, nobody plays twice or comes back, outs, runs and runners add up,
and a half inning can always go on.

**Correction history** (same file, `resolveCorrections`, `buildEffectiveHistory`,
`deriveEventStates`). State: the append-only log. Nothing is changed in place; a correction is an
event that suppresses or replaces earlier events, possibly corrections. Correct means: which events
are in effect is well defined however corrections are nested, the current state is the one they lead
to, and undoing restores.

**Statistics** (`src/domain/statistics/game-statistics.ts`). A fold over the events in effect that
fails on a pending judgment, interference or an out nobody is credited with. It runs inside the
transaction of a correction, so what it refuses cannot be corrected. Correct means: batting, pitching
and fielding lines of a game agree with each other and with the score.

**Event acceptance** (`src/server/data/game-event-repository.ts`,
`src/server/app/game-event-service.ts`). State: `Game` (revision, status), `PlayTransaction`,
`SourceEvent`, `ScoringEvent`, audit rows. Operations: accept an event or a correction at an expected
revision under an idempotency key, in a Serializable transaction, with a recheck outside it when it
fails, and, for corrections, a second transaction that assembles the result. Hard: concurrent
requests, retries of lost answers, reused keys, commits nobody hears of. Correct means: each key is
recorded once, the history is append-only and in revision order, and answers are true.

**Projection checkpoints** (`src/server/data/statistic-projection-repository.ts`,
`game-box-score-repository.ts`). State: `ProjectionCheckpoint` rows keyed by revision and privacy
revision, CURRENT or STALE. Correct means: nothing but the newest is ever CURRENT.

**Webhook delivery** (`src/server/data/webhook-repository.ts`,
`src/server/app/webhook-service.ts`, `src/domain/webhooks.ts`). State: endpoints, events with an
account-wide sequence, deliveries with lease, attempts. Operations: enqueue in the transaction of a
domain write, activate, revoke, replay, claim a batch (`FOR UPDATE SKIP LOCKED`), post, record the
attempt. Hard: READ COMMITTED transactions interleaved with workers, expired leases, crashes. Correct
means: order per endpoint, an attempt trail that agrees with the delivery, settled for good, and
settled in the end.

**Notification delivery** (`src/server/data/notification-repository.ts`). The same queue with
preferences for endpoints, quiet hours, digests, opt-out and cancellation of claimed deliveries whose
preference has become inactive. Correct means the same, and that an opt-out stands.

**Discord update worker** (`src/server/data/discord-update-repository.ts`,
`src/server/app/discord-update-worker-service.ts`, `src/container/discord-update-scheduler.mjs`).
Two queues, evaluations and deliveries. A signal of a later revision supersedes waiting evaluations;
an evaluation becomes a delivery that creates, edits or appends to a message, decided from earlier
deliveries and decided again when claimed; a worker that aborts releases its claims. Correct means:
a game edited live has one message, what a message shows only advances, and every signal is answered.

**Discord administration** (`discord-installation-*.ts`, `discord-settings-repository.ts`).
Installation status, settings revisions, routes, role grants, under deferred triggers. Correct means:
what is enabled can be delivered, what is granted can be used, and no change is lost.

**External ingestion** (`src/server/data/external-ingestion-repository.ts`,
`src/server/app/external-ingestion-service.ts`). Runs by run key, records with a published version
per external identifier, checkpoints and failures with backoff per source. READ COMMITTED. Correct
means: versions form a chain with one published end, and nothing behind the checkpoint was skipped.

**Rate limits** (`src/server/data/rate-limit-repository.ts`). Counters per scope and window under an
advisory lock; a charge row makes a retried operation free. Correct means: no more than the limit is
allowed, and an operation is not charged twice.

**Sessions and identities** (`src/server/data/authentication-repository.ts`,
`src/server/app/oauth-authentication-service.ts`, `src/proxy.ts`). A session row with a current and a
previous token, a one-time OAuth attempt, identities owned by users. Correct means: a browser's
requests may overlap a rotation and keep it signed in, nothing revives a session that has ended, a
callback opens one session, for the owner of the identity.

**Configuration and installation set-up** (`application-configuration-repository.ts`,
`installation-setup-repository.ts` and their services). Revisions written under an advisory lock,
copies in every process. Correct means: no save is lost, copies of old revisions expire, one
administrator is bootstrapped, and a system that is READY is configured.

**Teams, seasons, rosters and game set-up** (`team-season-roster-repository.ts`,
`game-setup-repository.ts`, `src/components/game-setup/`, `src/features/game-setup/`,
`src/app/games/setup/actions.ts`). Optimistic revisions of every row; forms that save, mark ready and
start. Correct means: lifecycles nest, a ready game can be played, and a game is scored by the set-up
that was ready, as whoever started it saw it.

**Scoring client** (`src/features/scoring/`, `src/components/scoring/`). A draft in local storage with
the idempotency key of its proposal, shared by the tabs of a browser; panels that compute occupancy,
force, passing and the third out in code of their own. Correct means: a key names one play, a play is
recorded once, and a panel shows and offers what the server makes of it; a correction is confirmed as it was
previewed.

**Reports, reconciliation, portable data** (`src/domain/reports`, `src/server/app/data-reconciliation*`,
`src/domain/portable-data.ts`, reads of `game-event-repository.ts`). Each is put together from several
reads, each statement at its own snapshot, with one retry. Correct means: what is returned is of one
moment of the reading, reports agree, an export can be imported.

**Privacy lifecycle** (`privacy-lifecycle-repository.ts`). Requests, holds, grants of exports; the
deletion of names as an overlay over immutable events. Correct means: a request that has ended stays
so, a token is used once.

**Fantasy leagues** (`src/domain/fantasy-transactions.ts`, `fantasy-scoring.ts`,
`src/server/data/fantasy-experience-repository.ts`). A workspace row with rosters, lineups and claims;
result rows with revisions and finality. Correct means: a player has one owner, an operation applies
once, the best claim wins, results are a history in which final rests on final.

**Authorization** (`src/server/auth/`). Roles and grants of memberships; a request reads the person, the
authority and the target in queries of their own, and commands check the context it leaves, not the
rows. Correct means: what was allowed had been earned when it was asked for.

**League delegation and the creation of leagues** (`src/domain/league-delegation.ts`,
`fantasy-domain.ts`, `fantasy-experience.ts`, `src/server/app/fantasy-experience-service.ts`).
Organizations are delegated an account's league through memberships, delegations, grants and approvals,
each with its term; leagues and teams advance in stages under an authority, obtained from the
permissions of the account or from an allowed decision. Correct means: what is delegated was approved by
the account it acts on, and a league that is stored could be activated and can be read back.

The statistics API, calendar feed, analytics, providers and observability, the user interface, the Discord bot and installer scripts complete the repository;
`PROJECT.json` lists every one with its sources and why it is not modelled.

### 1.2 How they interact

- A scorer's request goes to event acceptance, which replays the stored history with the engine and
  the correction resolver, and writes, in one transaction, the event, the `Game` row, audit rows,
  stale marks on checkpoints and, for some types, webhook events.
- A correction also derives statistics inside the transaction and publishes their checkpoint.
- Projection workers read the history and publish checkpoints later; a publication enqueues
  `REPORT_READY`.
- A privacy deletion advances the overlay revision and deletes checkpoints.
- Webhook events become deliveries for the endpoints active at the time, and notifications for the
  preferences; scheduled invocations claim and send them. Discord updates are a queue of the same
  kind, fed by the bot's polls and by schedules.
- A game starts from a READY set-up, which snapshots rosters; a season's lifecycle asks for the
  status of its games.
- Reports read rows, histories, checkpoints and overlays that all the above are changing.
- A scoring panel holds the state of the page; its play is accepted only at that revision.

## 2. How the models correspond to the code

The `map` of `PROJECT.json` gives, for every definition, the lines it translates. Two conventions run
through all models. A transaction is one action when nothing can come between its statements (an
advisory lock, Serializable isolation, one statement), and otherwise an action for every read or write
that another transaction's commit can separate from the next. A request is never on time: between any
two awaits of a handler other actions may happen, and a crash or a lost answer ends it anywhere.

**`GameReducer`.** Every event type is a guard `CanX`, the conjunction of the early `throw`s of its
case, and a result `AfterX`. A play is a function `to` from the origins that move (`BATTER`, bases)
to where they end; `counts` is the set of origins whose run counts; `thirdForce` is the out marked
force and numbered three. The runner at an origin and the responsible pitcher are not part of it,
because `applyMovements` refuses any other than those of the state. `FinishOuts` is `finishOuts`;
`CanSubstitute`/`AfterSubstitution`, `CanAlign`/`AfterAlignment` and
`CanChangePitcher`/`AfterPitchingChange` are the three lineup handlers, which update lineup, defense
and pitcher by different code, as in the source. Fielding credits, batted-ball class and earned-run
judgments do not change the state and are left out.

**`GameEngine`.** State `game` (the reducer's record) and `ledger`, a history variable that counts,
in the half inning being played, the batters who came up minus the runners who crossed the plate.
One action per event type. `EventTypes` selects the types a run submits. `PassingRecorded` states an
assumption about scorers rather than about code: see section 6.

**`CorrectionHistory`.** State `history` and `game`. `Accept(e)` is `deriveEventStates`: an event
joins the history when the history that ends with it replays; `Resolve` is `resolveCorrections`,
newest first, `Effective` is `buildEffectiveHistory`, `Apply` is `applyBody` through the operators of
`GameReducer`. Actions: a plain event, `REVERSE_EVENTS`, `REPLACE_EVENT_RANGE`, with any earlier
events, corrections and lifecycle events included, as targets, because neither
`applyCorrectionCommandSchema` nor the service refuses them.

**`GameStatistics`** extends it with the fold of `deriveGameStatistics`. `ScoredSpec` is a history in
which a correction must also have a box score, as the transaction demands.

**`EventAcceptance`.** State: the stored rows (`history`, `game`, `privacy`, `checkpoints`, `outbox`,
`audits`) and, per request, its phase, submission, snapshot, found event and answer. A Serializable
transaction is a `Read`, which sees one snapshot and decides, and then one of `Commit`,
`CommitUnconfirmed` (it commits and the connection breaks), `RollBack` and `RejectIdentifier` (a
unique index). `Unchanged` is what Serializable isolation and the conditional update of the game row
guarantee: what the decision read still stands. `Recheck` is the lookup by key after a failure.
`LoadGame` and `LoadCheckpoint` are the reads of `loadCorrectionResult`, a READ COMMITTED
transaction, so they do not share a snapshot. `End` hands over or loses the answer, or is a server
that dies. `Derive`/`Publish` is a projection worker, `DeleteName` a privacy deletion. What a play
does to the game is abstracted to the status (`StatusAfter`), the only part of the derived state
acceptance decides on.

**`AcceptedHistory`.** The abstract specification: the history grows by one submission at a time,
each entered for the length it finds, under a fresh key. `EventAcceptance` implements it with the
identity as refinement mapping (`ImplementsHistory`).

**`WebhookDelivery`.** READ COMMITTED throughout, so a transaction that another commit can cut in
two is two actions: `OpenEnqueue` (the event row with its BIGSERIAL number is inserted, the active
endpoints are read) and `CommitEnqueue`; `Revoke` (its updates have run: the rows are locked) and
`CommitRevoke`; `ReadReplay` and `WriteReplay`; `ReadAttempt` and `WriteAttempt`. `Claim` is one
statement, `FOR UPDATE SKIP LOCKED`, and its `NOT EXISTS` clause is `AtHead`. An invocation takes the
deliveries of its batch in turn: is the endpoint active, post, read the row, write the attempt; the
last refuses, and the exception ends the batch, when a unique index or the lifecycle check of the
table is violated. Time is `Ripen`: a retry time or a lease passes; it costs a stall when the holder
of the lease is still at work. A crash leaves the leases behind.

**`NotificationDelivery`** has the same shape for one recipient. A local day has an open, a quiet and
a digest minute, which is all `nextAllowed` tells apart; `Tick` is the clock.

**`DiscordUpdates`.** One game, one settings row, one channel, so a delivery has the name of its
evaluation. Every repository call is one action, and the call to Discord lies between two; a cycle is
a record with the batch it claimed, what it loaded or decided (`aim`) and what it still holds. A lease
expires with `Ripen`, before its holder is done only at the price of a stall. `history` keeps what the
properties speak of: whether evaluations were enqueued in revision order and leases kept.

**`Sessions`** models the row of one browser's session, its cookie, the requests under way and the
replies under way. A token is known by the version it was issued for. Time is in thirds of the
rotation grace, and `Flight` bounds how long a request or a reply travels. **`SignIn`** has the four
transactions of a callback and the exchange between them. **`RateLimits`**: `Decide` is the whole
transaction under its lock. **`ConfigurationRevisions`** has one step per await of a call, with the
time it took (`CallTime`), and **`InstallationSetup`** makes those calls, with crashes between them.
**`ExternalIngestion`** has one action per statement of a run, since its transactions are READ
COMMITTED. **`GameReports`** has one action per read of a report, in the order of the code's awaits
(`Precedes`) or in any order where it reads concurrently.

**`PrivacyLifecycle`**, **`FantasyLeague`**, **`TeamSeasons`**: Serializable commands, an action each;
what is hard there is the order of commands. A fantasy command is a function from the stored state to
the next one, written as an operator whose value is the set with the next state or the empty set.
**`FantasyScoring`** separates the read of a publisher from its append. **`DiscordAdministration`**:
`Write` is a transaction up to its deferred triggers and `Commit` what happens after them; `doubt`
records what a race between the two may have left wrong.

**`CorrectionPanel`** puts a page beside the histories: what it lists and audits
(`buildRecentPlayHistory`), its preview with the state that the panel and the rendered page keep
separately, and a confirmation that is charged, examined, admitted and assembled by different
transactions while others record. **`LineupPanel`** restates the three forms of the live lineup panel,
what they offer, what they warn of and what they send.

**`FantasyDomain`** holds functions of values: one that throws is the empty set, one that returns is the
set of its result. **`LeagueDelegation`** states `evaluateLeagueDelegation` as one verdict per group of
its checks, in their order; rows change status while a caller keeps what it was allowed, because nothing
looks at the rows again. **`Authorization`** has one action per query of a request, and rows that end, or
a membership that its owner reactivates by signing in locally, between any two. **`FantasyProvisioning`**
follows one submission: four authorizations at once, the transaction that reads the sources, the pure
construction, the transaction that stores. Its result takes over the identifiers that the form makes
anew for each submission as `league` and `team`.

**`ScoringPanels`** restates what the panels compute beside `GameReducer`; **`ScoringClient`** has the
draft store, two tabs, the requests under way and the remembered charges of the server;
**`SetupForm`** the rows of a lineup as the form edits them, and the exchange of a form's requests.

## 3. What the runs check

Times are those of two TLC workers on a small machine.

| run | instance | checks | time |
|---|---|---|---|
| `engine_lineups` | two starters and a bench player a side, pitcher batting or not, the other a fielder or only a hitter; walks, doubles, outs, wild pitches; half an inning | `TypeOK`, `LineupsAgree`, `BattingOrderKept`, `NoReentry`, `LineupPanelIsRight` | 80 s |
| `engine_plays` | orders of six, two half innings, a run a side, runner plays and the whole lifecycle | `BoxScoreBalances`, `HalfCanEnd`, `RunnersAreSound`, `LifecycleHolds` | 147 s |
| `histories` | two parts: six events, two of them corrections of at most two events; a review page beside other scorers | `CorrectionsMeanWhatTheySay`, `PlayableWithoutCorrections`, `VerifiedStandsAsReviewed`, `BoxScoreHolds`, `PageHolds`, `UndoRestores` | 150 s |
| `acceptance` | two requests that are reused without end, plays, corrections, verifications, changed input, a projection worker, a privacy deletion | `TypeOK`, `KeysRecordedOnce`, `AnswersHold`, `RowsAgree`, `CurrentCheckpointIsLatest`, `ImplementsHistory` | 155 s |
| `queues` | two invocations, crashes, stalls, replays, repeated enqueues, revocation; preferences with quiet hours and digests | `QueuesHold`, `OptOutStands`, `QueuesSettle` | 97 s |
| `discord` | every strategy undisturbed; live edits with two revisions, two cycles, two attempts, a settings change, a crash, an abort, a stall | `MessagesHold`, `ContentAdvances`, `SignalAnswered` | 54 s |
| `accounts` | ten parts: deletion requests with exports, a league, its results, Discord administration, lineup fields, set-up forms, evidence for a delegation, a delegated league, authorization, the creation of a league | `GrantsHold`, `LeagueHolds`, `SetupHolds`, `AuthorityHolds`, `AccountStepsHold` | 141 s |
| `services` | six parts: sessions, sign-in, rate limits, set-up with configuration, ingestion, reports | `AuthenticationHolds`, `ConfigurationHolds`, `DataHolds`, `ServiceStepsHold` | 134 s |
| `desk` | three parts: a season with its games, the panels in a half inning, two tabs of a client | `SeasonHolds`, `PanelsAreRight`, `DraftsHold`, `ScoredAsSetUp` | 115 s |
| `pending` | two plays with pending runs | violates `PendingCanBeSettled` | |
| `confirm` | a page that is refreshed under a preview | violates `ConfirmedAsPreviewed` | |
| `retry` | a client whose answer was lost | violates `RetryIsAnswered` | |

What they show:

- **Lineups.** However substitutions, position changes and pitching changes are chained between
  plays, the three copies of "who plays where" agree, the pitcher charged is the one on the mound,
  the batting order keeps its slots (so the cursor, an index, keeps meaning the next hitter) and
  nobody returns. With the bench and positions of the instance every branch of the three handlers
  is taken: a reliever from the bench or the field, a pitcher who bats or does not, a pinch runner, a
  hitter without a position. In every state met, what the lineup panel offers is accepted and has the
  effect it announces, and what it does not offer would be refused, but for the exceptions named in
  section 6.
- **Plays.** In a half inning, batters who came up equal runs, outs and runners; every runner is on
  one base, active and somebody's responsibility; the hitter is not on base; and a strike-out is
  always acceptable, so scoring never gets stuck. Orders of six are the smallest for which the hitter
  cannot still be on base: three runners and two outs precede him at most. Two half innings turn
  the sides over; one run a side reaches a lead, a tie and a walk-off. Suspension, completion,
  verification, reopening and abandonment happen in every such situation.
- **Corrections.** The code resolves corrections newest first, marking what they suppress; the
  property says without any order which corrections are in effect (those no correction in effect
  names), that there is exactly one such choice, and that the code finds it. The state equals the
  effect of the events in effect, and could have been scored without any correction. Two corrections
  are enough for a reversal of a replacement and for overlapping targets. A game whose plays are
  judged has a box score whose lines balance. On the review page the
  list reads as the game was played once corrected, its effects add up to the score, a correction accepted
  at the revision it was previewed at does what the preview announced, and what an answer says of a
  request is so. Three plays a page and six events give a second page and a
  correction of a correction.
- **Acceptance.** Requests overlap at one revision, are sent again with the same or a changed body,
  reuse an event identifier, are rolled back, commit unheard, or die; verifications and corrections
  race with plays, projection workers and a privacy deletion. Two requests at a time are enough for
  every pairwise conflict on a key, a revision or an identifier, and each is reused without bound.
- **Queues.** Webhook order holds for the events one writer enqueues after another, also when
  invocations share an identity (one scheduler whose calls overlap). Attempts agree although the row
  is read and written without a test of status or owner in between: a unique index and the table's
  lifecycle check are what saves it. An opt-out is never undone on its preference. Every delivery is
  settled in the end, unless its endpoint is revoked or its recipient does not receive.
- **Discord updates.** A game edited live has at most one message that is not forgotten, however
  cycles overlap, die, are given up or outlive their leases; while leases are kept, what it shows only
  advances; every evaluation is answered in the end. The worker decides twice whether to edit or to
  post, and both decisions are needed.
- **Services.** Two calls at a time under every interleaving: a browser keeps its session through a
  rotation while requests overlap; a callback that arrives twice opens one session; quotas hold while
  overrides and policies change; no configuration save is lost; a set-up that is READY has its
  administrator and values; overlapping ingestion runs keep one chain; a report is of one moment.
- **Accounts.** A request that has been executed or cancelled stays so; an export token is good for
  one download; a player has one owner, an operation applies once, the best claim wins; results of a
  period form a history and a final result rests on final ones; Discord settings and grants change at
  the revision their editor saw, and without a race enabled settings can be delivered; a lineup the
  form finds ready can be stored and played; a game begins as whoever began it saw it.
- **Authority.** Whatever rows a caller presents, when it asks and when it uses the answer: a capability
  delegated to it had been approved by the account it acts on, by rows in force at the decision, and a
  league and its team only advance as far as that allows, in turn. With owner, administrator and grants
  in two accounts of one person, a request that is allowed had an assignment that permits it, of a
  membership that had not ended when it was made. A league is stored for a season of its account, with
  an owner who was a member, activated on two assignments or more, and can be read back.
- **Desk.** A season does not end before its games, a ready game can be played and is scored by the
  set-up that was ready; every play the plate and runner panels offer is judged and shown as the
  reducer makes it, in every state of a half inning; a submission key stands for one play, and a play
  is recorded once, whatever two tabs do with the shared draft.

### Bounds

Every bound is a constant with a name. Engine: `MaxHalves`, `MaxScore` (no event is explored past
them). Histories: `MaxEvents`, `MaxCorrections`, `MaxTargets`. Acceptance: `MaxPrivacy`; histories are
bounded by the submissions, each recorded at most once. Queues: `MaxReplays`, `MaxRepublished`,
`MaxCrashes`, `MaxStalls`; `BatchLimit` and `MaxAttempts` are parameters of the code (25 and 8), set to
2 so that a full batch and a last attempt happen. Discord: `MaxRevision`, `MaxChanges`, `MaxCycles`,
`MaxAttempts`, and per scenario the crashes, aborts and overlaps (`left`). Services: the clocks
`MaxClock`, `MaxInstant`, `LastInstant`; lifetimes are chosen small in the proportions of the code
(`Rotation` 4, `Grace` 3, `IdleLimit` 4, `Absolute` 6, `Flight` 1); `MaxAttempts` and `MaxCallbacks` of
sign-in, `MaxVersion`, `MaxWait` and `MaxFaults` of ingestion, and for reports the numbers of events,
records and erasures in `Bounds`. Accounts: two administrators with three requests and two channels,
two publishers with last revisions, scripts of four transactions, two tabs of a form; for authority the
clock `LastMoment`, rows changed or ended (`MaxAdministrations`, `MaxEnded`), authorities kept
(`MaxDelegated`) and leagues stored (`MaxLeagues`), each 1 or 2: one row that ends is what one decision
can miss, and decisions do not build on each other. Review: `PageSize`, `MaxRequests`, `Judgments`, one
page beside scorers who record elsewhere. Desk: two
periods, two forms with two changes; two tabs, two plays, three keys, two sends, two events.

Deadlock is checked in `EventAcceptance`, where a request can always end and another be sent. It is
not in the others, where a game may be over, a history full or a queue empty.

### Fairness

Only the `FairSpec`s of `MCQueues` and `MCDiscordUpdates` assume any, weakly: an invocation under
way, or due to start, takes its next step (the scheduler keeps calling the route, and a post ends by
its timeout); a transaction that has begun commits; retry times and leases of workers that are gone
run out. Crashes, stalls, enqueues, replays, changes of settings and preferences are under no
fairness, nor is any answer of the receiver: retries are bounded by `MaxAttempts`, so settlement does
not need one. The bounds on crashes and stalls are what "eventually" rests on: a scheduler whose every
call dies delivers nothing.

## 4. What is proved

The proof modules prove, for all values of the constants that satisfy the named assumptions of the
modules (`LineupAssumption`, `BoundsAssumption`, `SubmissionAssumption`, `DiscordAssumption`,
`ServicesAssumption`, `AccountsAssumption`, ...; TLC evaluates each on the run of its module):

| theorem | property |
|---|---|
| `EngineInvariant`, `TypeCorrect` (`GameEngineProofs`) | the inductive invariant of scoring, `TypeOK` |
| `LineupsCorrect` | `LineupsAgree` (defense, pitcher on the mound, batting order) |
| `SlotsKeptForever`, `NobodyReenters`, `LifecycleCorrect` | `BattingOrderKept`, `NoReentry`, `LifecycleHolds` |
| `BoxScoreCorrect`, `RunnersCorrect`, `HalfEndCorrect` | `BoxScoreBalances`, `RunnersAreSound`, `HalfCanEnd` |
| `HistoryInvariant` (`CorrectionHistoryProofs`) | the inductive invariant of histories |
| `CorrectionsCorrect`, `VerifiedCorrect`, `PlayableCorrect`, `UndoCorrect` | `CorrectionsMeanWhatTheySay`, `VerifiedStandsAsReviewed`, `PlayableWithoutCorrections`, `UndoRestores` |
| `StatisticsCorrect` (`CorrectionHistoryProofs`) | `BoxScoreHolds` |
| `ReviewCorrect`, `PageCorrect` (`CorrectionHistoryProofs`) | `ReviewHolds` of the review page alone, `PageHolds` of the runs' two parts |
| `AcceptanceInvariant`, `TypeCorrect` (`EventAcceptanceProofs`) | the inductive invariant of acceptance, `TypeOK` |
| `RecordedOnce`, `CheckpointCorrect`, `AnswersCorrect`, `RowsCorrect` | `KeysRecordedOnce`, `CurrentCheckpointIsLatest`, `AnswersHold`, `RowsAgree` |
| `HistoryImplemented` | `ImplementsHistory` (the refinement of `AcceptedHistory`) |
| `UpdatesInvariant`, `MessagesCorrect`, `ContentsCorrect` (`DiscordUpdatesProofs`) | the invariant of the worker, `MessagesHold`, `ContentAdvances` |
| `ServicesInvariant` (`ServicesProofs`) | the six inductive invariants of the services |
| `AuthenticationCorrect`, `ConfigurationCorrect`, `DataCorrect`, `ServiceStepsCorrect` | `AuthenticationHolds`, `ConfigurationHolds`, `DataHolds`, `ServiceStepsHold` |
| `QueuesInvariant` (`AccountsProofs`) | the inductive invariants of the two queues |
| `QueuesCorrect`, `OptOutCorrect` | `QueuesHold`, `OptOutStands` |
| `AccountsInvariant` (`AccountsProofs`) | the inductive invariants of deletions and exports, leagues, results, Discord administration, lineups and forms |
| `GrantsCorrect`, `LeagueCorrect`, `SetupCorrect`, `AccountStepsCorrect` | `GrantsHold`, `LeagueHolds`, `SetupHolds`, `AccountStepsHold` |
| `AuthorityCorrect` | `AuthorityHolds` |
| `DeskInvariant` (`GameEngineProofs`) | the inductive invariants of a season and of a browser's tabs |
| `SeasonCorrect`, `SetupCorrect`, `DraftsCorrect` | `SeasonHolds`, `ScoredAsSetUp`, `DraftsHold` |
| `PanelsCorrect` | `PanelsAreRight` |
| `LineupPanelCorrect` | `LineupPanelIsRight` |

**Recursion.** A replay is written as a recursive function, and a definition like that means something
only if such a function exists. `Recursion` proves that it does for any first value and step, and what
induction gives (`UptoUnfolds`, `UptoAgrees`, `InductionUpto`, and the mirror images). The library's
induction theorems take an operator as a parameter, which the provers cannot instantiate; here the
induction is over a set of numbers, and a proof instantiates the module with the first value and the
step of the definition it is about. Replays, resolutions and effective histories of any length are
proved about this way.

**Engine.** The invariant of lineups is `TypeOK` with four facts: defense and lineup agree
(`DefenseMatches`), the pitcher stands on the mound (`Standing`), no slot is shared
(`SlotsDistinct`), and every active player bats or fields (`EverybodyPlays`). None of the first three
is inductive alone: a trade of places keeps the defense right only if the pitcher is where the
lineup says, and a reliever keeps the batting order only because a player without a slot has a
position. Plays leave the six lineup components alone (`SameLineup`); for each lineup change one lemma
states its effect component by component and another derives the invariant. The box score
(`BalancedAt`) counts origins and destinations of a play: the ledger equals outs plus occupied bases in
every status, and nothing happened before the start. The bases need more (`SoundRunners`): with orders
1 .. n, n at least six, every runner holds one base, is charged to one opposing pitcher, and, since a
runner was last due up, everybody who has batted is out or on base behind him. That is why the hitter
cannot be on base, and why orders of six (`SixInEachOrder`) and scorers who record no pass
(`~PassingRecorded`) are hypotheses of those two theorems, and of `PanelsCorrect` and
`LineupPanelCorrect`.

**Corrections.** The invariant: references point backwards, only permitted targets are named, and the
game is the replay of its history. Everything else is about pure functions of a history: the newest
correction in effect is decided first, so resolution by induction downwards finds the one consistent
choice; the effective history replays to the state because each body of it was applied in an order
that resolution keeps; suppressing a correction gives the resolution of the history without it.

**Statistics.** The theorem is about `ScoredSpec`, the part `log` of the runs. The box score is a second recursion over the effective history, beside the replay; what
holds of both after *i* bodies (`Established`) relates the counters to the state reached, and is not
provable from the counters alone. `Balanced`: the lines of a side add up to its score, to the runs of
the other side's pitchers and to the outs of the half innings it has fielded; the sums over lines are
themselves recursions, and grow by the number of runs or outs attributed (`SumGrows`, `SideGrows`).
`WithinInherited`: what a pitcher let in of others' runners, with those of them still on base
(`LeftOver`), is at most what he inherited; a play moves each such runner to one base at most
(`LeftOverAfterPlay`, by an injection from the bases held after to those held before). `Appeared`: whoever
is charged, may yet be (a runner of his is on base) or stands on the mound has appeared. The runners
being of the side at bat, and their pitchers of the other (`OwnSides`), is why a judged play that the
reducer accepts can always be attributed (`JudgedIsAttributable`), so that statistics refuse no
correction of a judged game.

**Review page.** `ReviewInv` is inductive beside the invariant of histories: every correction is a draft
of the page (one entry of its list, reversed or with another play in its place; `Drafted`), every
revision of the history replays (`Replays`), a preview and a request were made at a revision at which
the game could be corrected (`Reviewed`), what came with a request is what it asked for, and an answer
does not deny it (`OriginsInv`, `AnswersInv`). The list is read by a walk over the history, and what was
asked for by another; they agree at every entry (`ListReads`) because a draft names one entry and
corrections in effect never share one (`NamingIs`). The effects add up (`TotalIs`) because an entry that
is not listed changes no score at the end of the history (`PlainAppended`). The audit of a correction
looks for a verification anywhere in the history before it, the preview at the status there: they agree
(`AuditIs`) because no draft ever takes a verification back (`VerificationStands`), and a game that was
verified is never merely completed again (`VerifiedIsFinal`). The invariant of histories allows for the
replacements that the page makes of submitted plays (`Admitted`). `PanelAssumption` says that a reopening
is one of the bodies and that plate appearances have the fields the page rewrites.

**Acceptance.** The invariant adds to `TypeOK`: event *i* was entered at revision *i - 1* and the game
row counts the events (`Numbered`); keys are distinct; a CURRENT checkpoint is the latest; and, per
request, `Known` (what it has learnt stays true while others go on) and `Told` (its answer stays true:
one told it is stale is behind the history and not in it, one told its key is taken finds the key in the
history with other input). `Numbered` is why a stale answer is final: a submission can only be
recorded at the length it expects, which is past. Only the two commits write the history, so each
conjunct is preserved by one lemma about a commit and one about everything else; the refinement follows
from `WriteAppends`. That the row, the transactions and the sources agree is a replay, by induction.

**Discord updates.** The invariant: rows are well formed; while evaluations are enqueued in revision
order (`history.inOrder`) there is one per revision, claimed, answered and delivered in that order; when
messages are edited live, nothing before a delivery that creates one has succeeded or still can
(`Fruitless`), and a claim that finds no earlier success has none (`GreatestSource`); while leases are
kept (`history.onTime`) what is in hand is leased to one cycle, contents grow with their source, and
nothing that can still be sent is older than what is shown. One lemma per action; most actions are
instances of one lemma for steps that neither enqueue, claim nor post.

**Services.** They share no variables, so the conjunction of six invariants is inductive.

- *Rate limits*: what was admitted is at most what is charged, per counter; an operation admitted less
  than `ChargeLife` ago is remembered with its charge; a target has one active override, so the limits
  in force are determined.
- *Ingestion*: every version a walking run has passed is staged, but for the one it works on; the prior
  it is about to supersede was published.
- *Sign-in*: one callback holds an attempt, and none once a session was opened with it; a callback about
  to create a session names the identity's owner, and owners do not change.
- *Configuration and set-up*: a call's read revision was current at its start; a copy expires within
  `CacheTtl` of now, and within `CallTime + CacheTtl` of its replacement.
- *Sessions*, for `2 * Flight < Grace` and `2 * Flight < Rotation`: a request under way carries the
  current token, or the one before it and was then sent at most a flight after the rotation; one reply
  at most holds a token while the session lives; a planned rotation has waited `Rotation`.
- *Reports*: records are closed under references; each row and each history read is of a prefix of the
  game's history, equal to it unless an event was accepted in this attempt; some moment of the reading
  has all the lengths read; overlays lie between the one asked at and the present one.

**Queues.** The queues share no state, so each has its invariant. *Webhooks*: events are numbered as
their transactions open, and a writer opens one after its earlier ones committed (`EventsInOrder`); a
delivery that a worker holds, or has posted, was at the head of its endpoint when it was claimed, so
every earlier delivery of that endpoint that exists was posted before it (`Preceded`). That stays true
although the claim is over by the time of the post, because a row can only appear later for an event of
another writer or one that is enqueued again. The attempts of a row are numbered without a gap and end
with its status (`AttemptsSound`); what makes the write safe after the row was read is that the number
read is at most the row's, and equal to it only while the row is live or cancelled (`HoldingSound`): a
worker whose lease ran out finds a higher number and writes nothing. *Notifications*: what an invocation
carries is in its turn (`Turn`: each earlier event of the scope was sent, cancelled or had no row), and
no row appears before one that is there. An opt-out stands because the administrator's write looks at
the row once more and does not decide on what it read.

**Accounts.** *Deletions and exports*: a worker executes only requests that stand, since what it read
is tested again in its transaction; the tokens of usable grants have been issued, differ, and have not
been used, and once the account is deleted no token a tab holds can be
used. *Discord administration*: rows that
are locked belong to one transaction; what a transaction is about to commit is sound, and advances each
revision it writes by one, unless another committed after it read (`raced` then records that two
transactions met, which is the exception section 6 explains). The triggers are needed for the first
part and the revisions for the second. *Set-up*: each revision was made by somebody who had been told of
the one before it, and what is ready is the newest; what a form was told is stored and not older than what it expects (`FormSound`); a request
that has passed its check knows a revision with the content it carries (`SubmissionSound`); and a form
that waits still expects what it submitted (`Awaits`), which is why the answer it gets can be taken as
it stands. In a lineup, pitchers pitch whatever is edited, and a lineup without a complaint has an order
1 .. n of different players.

**Leagues.** *Transactions*: rosters repeat no player within a team, ids of claims differ, the priority
covers the teams, and owners agree with rosters (`LeagueInv`); together they give each player one place.
The difficult part is a waiver batch, a recursion over the claims in an order fixed before the first
award. `BatchSound` states what holds after *i* of them: a team either is as it was before the batch
(`Untouched`) or has been awarded a player at this instant and, since a roster takes effect later than
the one before it, cannot be awarded another; a player that was free and is free has been free all the
time; a claim that was passed was applied or could not be awarded when it came. `BestOfBatch` reads
`BestClaimWins` off the last *i*: if the better claim was passed although it could have been awarded in
the state before the batch, its team had changed when it came, so it had won another player.
*Results*: a row rests on rows that are stored, final on final (`Rests`), and follows the one before it
(`Succeeds`); what a publisher holds has been calculated from the newest row or is out of date
(`Current`), so that it either follows what it is appended to or is refused by the unique index.

**Authority.** Three invariants (`AuthorityInv`). *Requests* (`PermissionsInv`): every check is idle,
refused, waiting or allowed, and what it has found was in force at some instant after it began; a
submission that creates a league is trusted, and its creator was a member when the sources were read,
so what is stored is founded (`StoredSound`: it can be activated and read back). This part needs what
the schema says of the rows: the ids of the leagues a listing returns are unique, and a person's rows
are not an account's. *Evidence* (`EvidenceInv`): no row an allowed decision rested on was revoked before
the instant of the decision; an approval revoked later leaves what was delegated under it as it was.
*Turns* (`TurnInv`): a league that was ever active has the instant it became so, active rules and a
signature for it, a team has been active only if its league has, and every signature is of the league's own
account.

**Desk.** *Season*: lifecycles nest, and the newest set-up submitted is the one the row counts, so what
is played is what was ready; a set-up that is ready stays complete, because a team, a season or a roster
period cannot be ended under a ready game. *Client*: the keys of the tabs differ, and a key names one
play wherever it is held, in a tab, in the stored draft, in a request or in the history (`KeysAgree`); a
tab without a proposal holds a key nobody has used; a play that a tab may still send is not recorded at
the revision it was entered at, so whichever tab sends it, it is recorded once.

**Panels.** The panel's bases, batter due and passing test are shown to be the reducer's (`SameBases`,
`BatterDueIsAt`, `PassingSeen`), so a play it offers and lands is legal (`PanelLegal`) and is shown as
it will be (`PanelShows`). What the panel fills in by itself moves every runner at least as far as the
one behind him, which is why nobody collides and nobody is passed (`OrderPasses`, `DefaultsInOrder`).
`RunnersCorrect` gives the state of the half inning they start from. The attempt to prove this found
the two exceptions the properties now name: a passed ball with nobody recorded as catcher, and an
interference with a runner on first, for which the panel has no default that makes room for the batter.
The lineup panel's four lists, its defaults and the role it announces are compared with the guards of the
reducer one by one (`ListsHold`, `FormsHold`, `RolesHold`, `DefenseHolds`), from what the engine's
invariants say of an order, an alignment and the players used: two slots never hold one player, a player
in use is never on the bench, and every order has its defenders. That the position a form offers is a
position of the game (`OfferedInUse`) is a hypothesis, as the code has one fixed list of them.

Checked by TLC only:

- `QueuesSettle` and `SignalAnswered`: liveness under fairness, out of the prover's reach.

## 5. What is not modelled

Section 1.1 and the components of `PROJECT.json` say which parts are left out. Within the modelled
parts: the schema validation of an event body (a malformed body never reaches the engine); fielding
credits and judgments as far as they only label an event; loading of the
scoring page; season checkpoints; secret rotation, signatures and URL checks of webhook endpoints; the
text of messages, templates and documents; local sign-in, but for the membership it reactivates;
workloads and resource targets other than accounts, teams, seasons and games; the pages of a league.
Outside `Authorization` and `FantasyProvisioning`, authorization appears only as the capability a
submission was authorized with. Retention jobs that delete old rows are not modelled.

## 6. Where the code and the documents disagree

Three have a run whose counterexample shows them:

- *Pending plays cannot be settled one by one* (`pending`). `docs/STATISTIC_DERIVATION.md:50` has a
  correction supply the final classification; the transaction of a correction derives the statistics
  of the whole game (`game-event-repository.ts:868`) and fails on the other pending play.
- *A correction is confirmed at a revision it was not previewed at* (`confirm`). The confirmation form
  carries the revision of the newest render (`scoring-corrections-panel.tsx:517`), and the preview
  outlives a refresh, against `docs/SCORING_CORRECTION_UX.md:93`: "Any source-revision change requires a
  fresh history load, preview, and confirmation".
- *A retry is told of a conflict* (`retry`). The fingerprint of the rate-limit charge holds the event
  identifiers, which are made anew for every attempt (`game-event-service.ts:131`), against
  `docs/SCORING_AUTOSAVE_AND_RECOVERY.md:67`.

Others were met while modelling and are facts of the models without a run of their own.

Engine and corrections:

- With an order of four or five, or a scorer who records a pass, a batter still on base can come up
  and hold two bases (`docs/SCORING_SEMANTICS.md:83`, `game-engine.ts:508`). Hence the orders of six.
- A trailing runner may score past a runner who stays on base (`:273`): `finalRanks` holds only runners
  still on a base. `PassingRecorded = FALSE` excludes such entries where properties need it.
- A run may count on a play whose third out retires the batter before first base, against `:278`,
  unless the out is marked as a force.
- A reversal of the `GameVerified` event is accepted on a VERIFIED game
  (`docs/CORRECTION_AUDIT_AND_REPLAY.md:77`, `game-engine.ts:1193`): it suppresses the status before it
  is tested. So with `GameCompleted` and `GameSuspended` (`:75`, `:78`).
- Between the reads of `loadCorrectionResult` a checkpoint can go stale; a committed correction is
  then reported as rejected (`src/app/games/score/actions.ts:218`).
- The retry of an accepted correction is answered `STALE_SOURCE_REVISION` when another event follows,
  against `docs/IMMUTABLE_GAME_EVENT_MODEL.md:103`. `AnswersHold` therefore speaks of plain
  submissions.
- A correction whose plays hold INTERFERENCE or an unattributed out is rolled back by the statistics.

Queues:

- A revocation leaves the PENDING delivery of a concurrent enqueue (`docs/WEBHOOKS.md:29`,
  `webhook-repository.ts:391`); account sequence order is not kept across writers (`:88`, `:509`).
- `configurePreference` racing an opt-out creates an ACTIVE preference for another scope
  (`docs/OUTBOUND_NOTIFICATIONS.md:43`); an opt-out without any preference records nothing; retries
  ignore quiet hours; an event committed after an opt-out leaves PENDING rows that are never sent; a
  digest minute inside quiet hours rolls the announcing transaction back (`webhook-repository.ts:178`).
- Discord: a manual refresh after a dead letter collides with a unique key; due schedules take a
  manual refresh regardless of quiet hours (`docs/DISCORD_UPDATE_CADENCE.md:27`); `completeEvaluation`
  wipes a refresh requested meanwhile; a lease of 60 s is shorter than the 55 s abort and a 10 s send;
  one play with two triggers posts two live messages (`docs/DISCORD_UPDATE_WORKER.md:21`).
- Discord administration: triggers check just before commit under READ COMMITTED, so a disconnection
  racing an enabling write or a grant can leave settings enabled, or a grant ACTIVE, on a DISCONNECTED
  installation (`docs/DISCORD_INSTALLATION_AND_ONBOARDING.md:42`), after which the triggers refuse
  every Discord transaction of the account until it is repaired. A disconnection leaves the guild
  before its row is written; the callback of a connection may reactivate after a disconnection.

Accounts and services:

- Privacy: `placeHold` is READ COMMITTED, so a hold committed between the snapshot and the commit of
  an execution does not stop it (`docs/PRIVACY_LIFECYCLE.md:103`). Erasure sets `endsAt` on ended roster
  periods too and fails for ever for two adjacent ones (`privacy-lifecycle-repository.ts:569`). An export
  authorized before an archival may leave an AVAILABLE grant on an ARCHIVED account; a grant is
  consumed before the export is generated; preparing with the same key resets even used grants.
- Fantasy: one team wins at most one claim per batch; a known operation id is answered without a
  comparison of contents; a drop, award or trade in the lock window changes a locked lineup
  (`docs/FANTASY_TRANSACTIONS.md:32`, `fantasy-transactions.ts:998`); a result without a scored source
  cannot be stored; trades, cancellations, waiver processing and `recordResult` have no deployed
  caller.
- Creation of leagues: `fantasy.league.activate` needs two authority references
  (`fantasy-domain.ts:424`), but a context names one for each assignment that permits it
  (`capability-policy.ts:223`, `authorization-service.ts:71`), so an owner or administrator with one role
  is always refused with the general message (the tests supply two references). A retry makes new
  identifiers and so a second league; the membership is looked at when the sources are read, not when
  the workspace is written.
- Delegation: an authority obtained from a decision is not examined again when it is used, against
  `docs/LEAGUE_DELEGATION_MODEL.md:219` ("Long-running operations reauthorize at commit"); `completedAt` may
  precede `activatedAt`; the kind of a target is not compared with the policy. Nothing deployed calls it.
- Ingestion: after one quarantined version every later one is quarantined; a dead or FAILED run
  answers its key for ever; the run that ends last may move the checkpoint back; an exception of
  `storeRecord` quarantines a VALID record as INVALID.
- Sessions: the rotation grace must exceed two flights; a slower request leaves the session live and
  brings the cookie back (`docs/AUTHENTICATION_PROVIDERS.md:95`); a lost reply with a rotated token signs
  the browser out when the grace has passed; a double sign-out appends REVOKED twice.
- Configuration: two seeds, or a stale copy of revision 0, leave the second without effect though it
  answers success; a read in flight can refill the copy with the old revision for its whole lifetime
  (`docs/CONFIGURATION_MANAGEMENT.md:207`); an interrupted first configuration cannot be resumed with
  the same form (`docs/FIRST_LAUNCH_SETUP.md:35`).
- Reports: a correction committed between the event and the correction reads fails the report without
  the retry (`game-event-repository.ts:371`); box score and export judge confidence differently for a
  game corrected in progress and then completed (`docs/DATA_QUALITY_RECONCILIATION.md:23`); a record
  created while an export is read can make it refuse to import; reconciliation may record STALE for a
  projection that was current.
- Set-up: the engine refuses two designated or extra hitters the form and schema accept
  (`docs/GAME_SETUP_AND_LINEUPS.md:49`), so "mark ready" fails after the save; a START whose answer was
  lost is answered STALE_SETUP_REVISION on its retry (`docs/GAME_SETUP_WORKFLOW.md:83`); after edit, save,
  an unchanged "save and mark ready" and another edit the form sends the old submission id again and is
  refused (`:79`, `game-setup-wizard.tsx:323`); a COMPLETED season may contain CORRECTED games.
- Client: a success in any tab removes the stored draft whoever stored it; the keyboard still
  chooses an outcome when controls are locked after an error (`plate-appearance-panel.tsx:160`); the
  panel offers a forced play the server refuses (`docs/LIVE_PLATE_APPEARANCE_SCORING.md:69`). The lineup
  panel says that runners "remain charged to the outgoing pitcher" (`live-lineup-changes.ts:191`) though
  they may be an earlier one's; when a pitcher is due up its batting form holds an outgoing player that
  its list does not contain, and a position, `PITCHER`, that it does not show.

## 7. Plan

What is left: local sign-in beyond a membership's return; the pages of a fantasy league; drafts and the
eligibility rules of scoring; season statistics; the statistics API and calendar feed.
