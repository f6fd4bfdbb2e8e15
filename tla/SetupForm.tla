------------------------------- MODULE SetupForm -------------------------------
(***************************************************************************)
(* The set-up of one game as its forms see it: the rows of a lineup as a   *)
(* form edits them (LineupFields), what the form checks before it offers   *)
(* readiness (validateSetupDraft) beside what the server and the engine    *)
(* check after it, and the exchange between forms in several tabs and the  *)
(* set-up action that saves, marks ready and starts                        *)
(* (src/components/game-setup/game-setup-wizard.tsx,                       *)
(* src/features/game-setup/workflow.ts, src/app/games/setup/actions.ts).   *)
(*                                                                         *)
(* The transactions of the server are those of TeamSeasons; here they      *)
(* keep of a draft only which one it is.  Abstracted: dates, weather,      *)
(* rulesets and names; authorization; where the focus goes.                *)
(***************************************************************************)
EXTENDS Naturals, Sequences, FiniteSets

CONSTANTS
    Tabs,
    Drafts,       \* what a form may hold
    Complete,     \* the drafts that pass the checks of the form
    Accepted,     \* those the ruleset and the engine accept too
    MaxEdits, MaxRequests, MaxReloads,  \* bounds
    MaxOrder,     \* bound: places of a batting order
    MaxRows,      \* bound: players a form lists
    None

VARIABLES
    kind, rows,   \* the lineup of one side: "MANAGED" or "EXTERNAL", and its rows
    setup,        \* the game: [status, ready, revisions]
    form,         \* the form of each tab
    request,      \* requests the server has not finished or whose answer is on its way
    issued,       \* submission ids handed out
    used          \* edits, requests and reloads so far

rowVars == <<kind, rows>>
exchangeVars == <<setup, form, request, issued, used>>
formVars == <<rowVars, exchangeVars>>

Orders    == 1 .. MaxOrder
Positions == {"PITCHER", "CATCHER", "DESIGNATED_HITTER"}

SetupAssumption ==
    /\ IsFiniteSet(Tabs) /\ MaxOrder \in Nat
    /\ None \notin Nat \cup Positions

-----------------------------------------------------------------------------
(* The rows of a lineup *)

Unshared(position) == position \notin {None, "DESIGNATED_HITTER", "EXTRA_HITTER"}

\* A player of the roster, with the slot the stored set-up gives him, if any; a slot
\* whose roster entry is no longer listed is kept and not eligible.
ManagedRow(eligible, primary, slot) ==
    [selected |-> slot # None, eligible |-> eligible,
     order    |-> IF slot = None THEN None ELSE slot.order,
     position |-> IF slot = None \/ slot.position = None THEN primary ELSE slot.position,
     pitcher  |-> slot # None /\ slot.pitcher]

\* An external row counts once it has a name.
BlankRow == [selected |-> FALSE, eligible |-> TRUE, order |-> None, position |-> None,
             pitcher |-> FALSE]

Slot(order, position, pitcher) == [order |-> order, position |-> position, pitcher |-> pitcher]

\* The form of a game without set-up, of one with, and of one with a slot of a player who left.
RowsInit ==
    \/ kind = "EXTERNAL" /\ rows = <<BlankRow>>
    \/ /\ kind = "MANAGED"
       /\ \E first, second \in {None, Slot(1, "PITCHER", TRUE), Slot(2, "CATCHER", FALSE)},
             eligible \in BOOLEAN :
             rows = <<ManagedRow(TRUE, "CATCHER", None), ManagedRow(TRUE, None, first),
                      ManagedRow(eligible, "PITCHER", second)>>

Shown(row) == kind = "EXTERNAL" \/ row.selected
Listed == {n \in DOMAIN rows : Shown(rows[n])}
\* Order, position and pitcher of a row can be edited.
Open(n) == n \in Listed /\ (kind = "MANAGED" => rows[n].eligible)

\* Ticking a player, or typing and clearing the name of an external one.
Choose(n) == rows' = [rows EXCEPT ![n].selected = ~@]
SetOrder(n, order) == Open(n) /\ rows' = [rows EXCEPT ![n].order = order]
SetPosition(n, position) ==
    /\ Open(n)
    /\ rows' = [rows EXCEPT ![n].position = position,
                            ![n].pitcher = @ /\ position = "PITCHER"]
SetPitcher(n, pitcher) ==
    /\ Open(n)
    /\ rows' = [rows EXCEPT ![n].pitcher = pitcher,
                            ![n].position = IF pitcher THEN "PITCHER" ELSE @]

\* swapBattingOrder: the other row is the first with that place, listed or not.
Swapped(n, to) ==
    LET others == {m \in DOMAIN rows : rows[m].order = to}
        other  == CHOOSE m \in others : \A k \in others : m <= k
    IN  [rows EXCEPT ![n].order = to, ![other].order = rows[n].order]
\* The buttons ask for a row that is listed.
MayMove(n, to) ==
    /\ n \in Listed /\ rows[n].order # None
    /\ \E m \in Listed : rows[m].order = to
Move(n, to) ==
    /\ MayMove(n, to) /\ to \in {rows[n].order - 1, rows[n].order + 1}
    /\ rows' = Swapped(n, to)

AddPlayer == kind = "EXTERNAL" /\ Len(rows) < MaxRows /\ rows' = Append(rows, BlankRow)
RemovePlayer(n) ==
    /\ kind = "EXTERNAL"
    /\ rows' = SubSeq(rows, 1, n - 1) \o SubSeq(rows, n + 1, Len(rows))

EditRows ==
    /\ UNCHANGED <<kind, exchangeVars>>
    /\ \/ AddPlayer
       \/ \E n \in DOMAIN rows :
             \/ Choose(n) \/ RemovePlayer(n)
             \/ \E order \in Orders \cup {None} : SetOrder(n, order)
             \/ \E position \in Positions \cup {None} : SetPosition(n, position)
             \/ \E pitcher \in BOOLEAN : SetPitcher(n, pitcher)
             \/ \E to \in Orders : Move(n, to)

-----------------------------------------------------------------------------
(* What is checked of a lineup *)

Chosen   == {n \in DOMAIN rows : rows[n].selected}
Batting  == {n \in Chosen : rows[n].order # None}
Pitching == {n \in Chosen : rows[n].pitcher}

UniqueOrders == \A m, n \in Batting : rows[m].order = rows[n].order => m = n
Contiguous   == {rows[n].order : n \in Batting} = 1 .. Cardinality(Batting)
UniquePositions ==
    \A m, n \in Chosen :
       Unshared(rows[m].position) /\ rows[m].position = rows[n].position => m = n

\* validateLineup: no complaint.
FormAccepts ==
    /\ kind = "MANAGED" => \A n \in Chosen : rows[n].eligible
    /\ Batting # {} /\ UniqueOrders /\ Contiguous
    /\ Cardinality(Pitching) = 1 /\ \A n \in Pitching : rows[n].position = "PITCHER"
    /\ UniquePositions

\* saveSetupRevisionCommandSchema, which also takes an unfinished lineup.
SchemaAccepts ==
    /\ UniqueOrders /\ UniquePositions
    /\ \A n \in Pitching : rows[n].position = "PITCHER"

\* Two designated or two extra hitters.
SharedHitters ==
    \E m, n \in Chosen : /\ m # n /\ rows[m].position = rows[n].position
                         /\ rows[m].position \notin {None, "PITCHER", "CATCHER"}

\* mapAcceptedSetup and createInitialState: no two share any position, hitters included.
EngineAccepts ==
    LET placed == {n \in Chosen : rows[n].position # None}
    IN  /\ \E n \in placed : Pitching = {n} /\ rows[n].position = "PITCHER"
        /\ UniqueOrders /\ Contiguous
        /\ \A m, n \in placed : rows[m].position = rows[n].position => m = n

-----------------------------------------------------------------------------
(* A form and its submissions *)

NoResult == [kind |-> "IDLE", accepted |-> 0, next |-> 0, revision |-> 0, status |-> "DRAFT"]

\* The page: the newest revision of the set-up, under a fresh submission id.
Page(id) ==
    LET revision == Len(setup.revisions)
        content  == IF revision = 0 THEN None ELSE setup.revisions[revision].content
    IN  [draft |-> content, expected |-> revision, id |-> id, edited |-> FALSE,
         status |-> setup.status, result |-> NoResult, pending |-> 0,
         \* History: what it has been told is stored, and an edit not told apart from it.
         told |-> content, late |-> FALSE]

ActionIsCurrent(f) == f.result.kind = "SUCCESS" /\ f.id = f.result.accepted
CurrentDraft(f) ==
    IF ActionIsCurrent(f)
    THEN [draft |-> f.draft, expected |-> f.result.revision, id |-> f.result.next]
    ELSE [draft |-> f.draft, expected |-> f.expected, id |-> f.id]
GameStatus(f) == IF ActionIsCurrent(f) THEN f.result.status ELSE f.status
Dirty(f) == f.edited /\ ~ActionIsCurrent(f)
Reuses(f) == ~Dirty(f) /\ CurrentDraft(f).expected > 0

ExchangeInit ==
    /\ setup = [status |-> "DRAFT", ready |-> 0, revisions |-> <<>>]
    /\ issued = Cardinality(Tabs)
    /\ \E ids \in [Tabs -> 1 .. Cardinality(Tabs)] :
          /\ \A t, u \in Tabs : ids[t] = ids[u] => t = u
          /\ form = [t \in Tabs |->
                [draft |-> None, expected |-> 0, id |-> ids[t], edited |-> FALSE,
                 status |-> "DRAFT", result |-> NoResult, pending |-> 0,
                 told |-> None, late |-> FALSE]]
    /\ request = {} /\ used = [edits |-> 0, requests |-> 0, reloads |-> 0]

Uses(what, max) == used[what] < max /\ used' = [used EXCEPT ![what] = @ + 1]

\* updateDraft; the fields stay open while a request is pending.
Edit(t, draft) ==
    LET current == CurrentDraft(form[t])
    IN  /\ Uses("edits", MaxEdits)
        /\ GameStatus(form[t]) # "IN_PROGRESS" /\ draft # form[t].draft
        /\ form' = [form EXCEPT ![t].draft = draft, ![t].expected = current.expected,
                                ![t].id = current.id, ![t].edited = TRUE,
                                ![t].late = form[t].pending # 0]
        /\ UNCHANGED <<rowVars, setup, request, issued>>

\* Which button is there and enabled.
MaySave(f)  == GameStatus(f) # "IN_PROGRESS" /\ (Dirty(f) \/ CurrentDraft(f).expected = 0)
MayReady(f) == GameStatus(f) # "IN_PROGRESS" /\ f.draft \in Complete
MayStart(f) == GameStatus(f) = "READY" /\ ~Dirty(f)
Offered(f, intent) ==
    CASE intent = "SAVE" -> MaySave(f) [] intent = "READY" -> MayReady(f)
      [] intent = "START" -> MayStart(f)

\* Before its first edit a form holds the defaults of the page, which are a draft too.
Submit(t, intent) ==
    LET f == form[t]
        current == CurrentDraft(f)
        number == used.requests + 1
    IN  /\ f.pending = 0 /\ current.draft # None /\ Offered(f, intent)
        /\ Uses("requests", MaxRequests)
        /\ request' = request \cup
              {[number |-> number, tab |-> t, intent |-> intent, content |-> current.draft,
                expected |-> current.expected, id |-> current.id, reuse |-> Reuses(f),
                told |-> f.told, late |-> f.late, step |-> "arrived", revision |-> 0,
                answer |-> NoResult]}
        /\ form' = [form EXCEPT ![t].pending = number]
        /\ UNCHANGED <<rowVars, setup, issued>>

\* Reloading, or leaving a page whose answer got lost; the request goes on.
Reload(t) ==
    /\ Uses("reloads", MaxReloads)
    /\ issued' = issued + 1 /\ form' = [form EXCEPT ![t] = Page(issued + 1)]
    /\ UNCHANGED <<rowVars, setup, request>>

-----------------------------------------------------------------------------
(* mutateGameSetupAction: each step a transaction *)

Answered(r, answer) == [r EXCEPT !.step = "answered", !.answer = answer]
Proceeds(r, next) == request' = (request \ {r}) \cup {next}
Error == [NoResult EXCEPT !.kind = "ERROR"]
Success(r, revision, status) ==
    [kind |-> "SUCCESS", accepted |-> r.id, next |-> issued + 1, revision |-> revision,
     status |-> status]

Earlier(r) == {n \in DOMAIN setup.revisions : setup.revisions[n].id = r.id}
Stored(r) == [id |-> r.id, content |-> r.content, expected |-> r.expected, told |-> r.told]
\* The same submission again: the hash covers the draft and the revision it expects.
Replays(r, n) ==
    setup.revisions[n].content = r.content /\ setup.revisions[n].expected = r.expected

Saves(r) == r.intent = "SAVE" \/ (r.intent = "READY" /\ ~(r.reuse /\ r.expected > 0))
ExpectsAny(r) == TRUE
Expects(r) == r.expected = Len(setup.revisions)

\* After the save: a saved draft is answered, one to be ready goes on.
AfterSave(r, n) ==
    IF r.intent = "SAVE"
    THEN /\ Proceeds(r, Answered([r EXCEPT !.revision = n], Success(r, n, "DRAFT")))
         /\ issued' = issued + 1
    ELSE Proceeds(r, [r EXCEPT !.step = "saved", !.revision = n]) /\ UNCHANGED issued

SaveRevision(r) ==
    /\ r.step = "arrived" /\ Saves(r)
    /\ r.intent = "READY" => r.content \in Complete
    /\ \/ \E n \in Earlier(r) : Replays(r, n) /\ AfterSave(r, n) /\ UNCHANGED setup
       \/ /\ Earlier(r) = {} /\ setup.status \in {"DRAFT", "READY"} /\ Expects(r)
          /\ setup' = [status |-> "DRAFT", ready |-> 0,
                       revisions |-> Append(setup.revisions, Stored(r))]
          /\ AfterSave(r, r.expected + 1)
    /\ UNCHANGED <<rowVars, form, used>>

\* Readiness of what is stored already.
LoadStored(r) ==
    /\ r.step = "arrived" /\ r.intent = "READY" /\ ~Saves(r)
    /\ r.content \in Complete /\ Expects(r)
    /\ Proceeds(r, [r EXCEPT !.step = "saved", !.revision = Len(setup.revisions)])
    /\ UNCHANGED <<rowVars, setup, form, issued, used>>

MarkReady(r) ==
    /\ r.step = "saved"
    /\ \/ setup.status = "READY" /\ setup.ready = r.revision /\ UNCHANGED setup
       \/ /\ setup.status = "DRAFT" /\ r.revision = Len(setup.revisions)
          /\ setup.revisions[r.revision].content \in Accepted
          /\ setup' = [setup EXCEPT !.status = "READY", !.ready = r.revision]
    /\ Proceeds(r, Answered(r, Success(r, r.revision, "READY"))) /\ issued' = issued + 1
    /\ UNCHANGED <<rowVars, form, used>>

LoadReady(r) ==
    /\ r.step = "arrived" /\ r.intent = "START"
    /\ setup.status = "READY" /\ Expects(r)
    /\ Proceeds(r, [r EXCEPT !.step = "loaded", !.revision = setup.ready])
    /\ UNCHANGED <<rowVars, setup, form, issued, used>>

\* GameStarted is accepted on the set-up that is ready now.
StartGame(r) ==
    /\ r.step = "loaded" /\ setup.status = "READY" /\ setup.ready = r.revision
    /\ setup' = [setup EXCEPT !.status = "IN_PROGRESS"]
    /\ Proceeds(r, Answered(r, Success(r, r.revision, "IN_PROGRESS"))) /\ issued' = issued + 1
    /\ UNCHANGED <<rowVars, form, used>>

\* A step that finds something else, or fails for another reason (a player left the
\* roster, the database is away): what the steps before it stored stays.
Fails(r) ==
    /\ r.step # "answered"
    /\ Proceeds(r, Answered(r, Error))
    /\ UNCHANGED <<rowVars, setup, form, issued, used>>

\* An answer reaches the form that waits for it.  A success refreshes the page, of which
\* the form takes the status of the game and not the draft.
Receive(r) ==
    LET f == form[r.tab]
    IN  /\ r.step = "answered" /\ request' = request \ {r}
        /\ IF f.pending = r.number
           THEN LET answered == [f EXCEPT !.pending = 0, !.result = r.answer]
                IN  form' = [form EXCEPT ![r.tab] =
                       IF r.answer.kind = "SUCCESS"
                       THEN [answered EXCEPT !.status = setup.status,
                                !.told = IF ActionIsCurrent(answered)
                                         THEN setup.revisions[r.revision].content ELSE @]
                       ELSE answered]
           ELSE UNCHANGED form
        /\ UNCHANGED <<rowVars, setup, issued, used>>

Exchange ==
    \/ \E t \in Tabs :
          \/ \E draft \in Drafts : Edit(t, draft)
          \/ \E intent \in {"SAVE", "READY", "START"} : Submit(t, intent)
          \/ Reload(t)
    \/ \E r \in request :
          \/ SaveRevision(r) \/ LoadStored(r) \/ MarkReady(r) \/ LoadReady(r) \/ StartGame(r)
          \/ Fails(r) \/ Receive(r)

-----------------------------------------------------------------------------
(* Properties *)

\* A lineup the form finds ready is one the schema takes, and one the engine can play
\* unless it has two designated or two extra hitters.
ReadyForAll == FormAccepts => SchemaAccepts /\ (SharedHitters \/ EngineAccepts)

\* No order of edits makes a starting pitcher of a row the schema refuses.
PitchersPitch == \A n \in DOMAIN rows : rows[n].pitcher => rows[n].position = "PITCHER"

\* Moving a player keeps a batting order whole, unless a player taken out of the lineup
\* kept a place in it.
MovesKeepOrder ==
    [][\A n \in DOMAIN rows, to \in Orders :
          /\ Move(n, to) /\ UniqueOrders /\ Contiguous
          /\ \A m \in DOMAIN rows \ Chosen : rows[m].order = None
          => UniqueOrders' /\ Contiguous']_rowVars

\* Nobody overwrites a set-up without having been told of it.
NothingOverwritten ==
    \A n \in DOMAIN setup.revisions :
       setup.revisions[n].told = IF n = 1 THEN None ELSE setup.revisions[n - 1].content

\* A form without unsaved changes shows the revision it names, unless it was edited
\* while an answer was due.
CleanFormIsStored ==
    \A t \in Tabs :
       LET current == CurrentDraft(form[t])
       IN  ~Dirty(form[t]) /\ ~form[t].late /\ current.expected > 0 =>
              setup.revisions[current.expected].content = current.draft

\* A game begins with the set-up on the screen of whoever began it, and that set-up is
\* one the engine takes; only an edit made while an answer was due is not in it.
BeginsAsShown ==
    /\ setup.status # "DRAFT" => setup.revisions[setup.ready].content \in Accepted
    /\ \A r \in request :
          r.step = "loaded" /\ ~r.late /\ setup.status = "READY" /\ setup.ready = r.revision =>
             setup.revisions[r.revision].content = r.content

SetupHolds == NothingOverwritten /\ CleanFormIsStored /\ BeginsAsShown
LineupHolds == ReadyForAll /\ PitchersPitch
===============================================================================
