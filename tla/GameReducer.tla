----------------------------- MODULE GameReducer -----------------------------
(***************************************************************************)
(* The deterministic baseball reducer, src/domain/events/game-engine.ts.   *)
(*                                                                         *)
(* A game starts from an accepted setup (createInitialState) and every     *)
(* accepted event is one call of applyBody.  Each event type is a pair of  *)
(* operators over the state record: a guard CanX(s, ...), the conjunction  *)
(* of every early "throw" of its case, and a result AfterX(s, ...).        *)
(* GameEngine applies them to the game being played; CorrectionHistory     *)
(* replays them over a stored history.                                     *)
(*                                                                         *)
(* Abstracted: identities of account, game and ruleset; fielding credits,  *)
(* batted-ball class and earned-run judgments (they label an event and     *)
(* never change the state); the `forced` label of a safe advance.  The     *)
(* batting cursor is kept modulo the length of the order, which the        *)
(* property BattingOrderKept of GameEngine shows is constant.              *)
(***************************************************************************)
EXTENDS Integers, FiniteSets

CONSTANTS
    Players,          \* everybody on either lineup
    Team,             \* [Players -> Sides], fixed by the setup snapshot
    Positions,        \* defensive and hitting positions in use
    Setups,           \* the accepted setups the game may start from
    ScheduledInnings, \* scheduled innings of the setup
    None              \* null / undefined

Sides    == {"HOME", "AWAY"}
Bases    == {"FIRST", "SECOND", "THIRD"}
Statuses == {"READY", "IN_PROGRESS", "SUSPENDED", "COMPLETED", "VERIFIED",
             "CORRECTED", "ABANDONED", "CANCELLED"}
Endings  == {"REGULATION", "WALK_OFF", "MERCY_RULE", "TIME_LIMIT", "FORFEIT"}

Setup == [order    : [Players -> Nat],
          position : [Players -> Positions \cup {None}],
          pitcher  : [Sides -> Players]]

ASSUME LineupAssumption ==
    /\ IsFiniteSet(Players)
    /\ Team \in [Players -> Sides]
    /\ None \notin Players \cup Positions
    /\ "PITCHER" \in Positions
    /\ Setups \subseteq Setup
    /\ ScheduledInnings \in Nat \ {0}

-----------------------------------------------------------------------------
(* Setup *)

\* A slot is in the game when it bats, fields or starts on the mound.
InitiallyActive(setup) ==
    {p \in Players : \/ setup.order[p] # 0
                     \/ setup.position[p] # None
                     \/ setup.pitcher[Team[p]] = p}

\* validateSetupSide for one side: distinct positions, an order that is
\* exactly 1, 2, ... , n, and a starter who is active at PITCHER.
ValidSide(setup, side) ==
    LET active  == {p \in InitiallyActive(setup) : Team[p] = side}
        batters == {p \in active : setup.order[p] # 0}
        starter == setup.pitcher[side]
    IN  /\ \A p, q \in active :
              setup.position[p] = setup.position[q] /\ setup.position[p] # None
                  => p = q
        /\ \A p, q \in batters : setup.order[p] = setup.order[q] => p = q
        /\ \A p \in batters : setup.order[p] <= Cardinality(batters)
        /\ starter \in active
        /\ setup.position[starter] = "PITCHER"

ValidSetup(setup) == \A side \in Sides : ValidSide(setup, side)

\* The defense is derived from the lineup: position -> player.
DefenseFor(setup, side) ==
    [pos \in Positions |->
        IF \E p \in InitiallyActive(setup) :
              Team[p] = side /\ setup.position[p] = pos
        THEN CHOOSE p \in InitiallyActive(setup) :
              Team[p] = side /\ setup.position[p] = pos
        ELSE None]

InitialState(setup) ==
    [status       |-> "READY",
     inning       |-> 0,
     half         |-> "NONE",
     outs         |-> 0,
     score        |-> [side \in Sides |-> 0],
     bases        |-> [b \in Bases |-> None],
     cursor       |-> [side \in Sides |-> 0],
     active       |-> InitiallyActive(setup),
     order        |-> setup.order,
     position     |-> setup.position,
     participated |-> InitiallyActive(setup),
     defense      |-> [side \in Sides |-> DefenseFor(setup, side)],
     pitcher      |-> setup.pitcher,
     resp         |-> [p \in Players |-> None]]

-----------------------------------------------------------------------------
(* Who is at bat, who is in the field *)

Other(side)      == IF side = "HOME" THEN "AWAY" ELSE "HOME"
BattingSide(s)   == IF s.half = "TOP" THEN "AWAY" ELSE "HOME"
FieldingSide(s)  == Other(BattingSide(s))
Batters(s, side) == {p \in s.active : Team[p] = side /\ s.order[p] # 0}
Occupied(s)      == {b \in Bases : s.bases[b] # None}
Runners(s)       == {s.bases[b] : b \in Occupied(s)}

LiveWhileSuspended(s) == s.status \in {"IN_PROGRESS", "SUSPENDED"}
Live(s) == s.status = "IN_PROGRESS"

\* The batter with exactly `cursor` batters of the side ahead of him.
BatterAt(s, p) ==
    LET order == Batters(s, BattingSide(s))
    IN  /\ p \in order
        /\ Cardinality({q \in order : s.order[q] < s.order[p]})
              = s.cursor[BattingSide(s)]

-----------------------------------------------------------------------------
(* Runner movements: applyMovements and finishOuts                          *)
(*                                                                         *)
(* A play is `to`, a function from the origins that move to where they end. *)
(* The runner of an origin and the pitcher charged with him are determined  *)
(* by the state, since the reducer refuses any other.  `counts` is the set  *)
(* of origins whose run counts; thirdForce says whether the out numbered 3  *)
(* was recorded as a force.                                                 *)

Destinations == Bases \cup {"HOME", "OUT"}
Rank == [BATTER |-> 0, FIRST |-> 1, SECOND |-> 2, THIRD |-> 3, HOME |-> 4]

Outs(to)  == {o \in DOMAIN to : to[o] = "OUT"}
Home(to)  == {o \in DOMAIN to : to[o] = "HOME"}
Safe(to)  == {o \in DOMAIN to : to[o] \in Bases}

RunnerFrom(s, batter, o) == IF o = "BATTER" THEN batter ELSE s.bases[o]

StillHeld(s, to, b)  == s.bases[b]
LeftBehind(s, to, b) == IF b \in DOMAIN to THEN None ELSE s.bases[b]

BasesAfter(s, batter, to) ==
    [b \in Bases |->
        IF \E o \in Safe(to) : to[o] = b
        THEN RunnerFrom(s, batter, CHOOSE o \in Safe(to) : to[o] = b)
        ELSE LeftBehind(s, to, b)]

\* The runners whose responsible pitcher is forgotten.
GoneByHomeOnly(s, batter, to)  == {RunnerFrom(s, batter, o) : o \in Home(to)}
EveryoneMoved(s, batter, to)   == {RunnerFrom(s, batter, o) : o \in DOMAIN to}
Gone(s, batter, to) == {RunnerFrom(s, batter, o) : o \in Outs(to) \cup Home(to)}

RespAfter(s, batter, to) ==
    [p \in Players |->
        IF p \in Gone(s, batter, to) THEN None
        ELSE IF "BATTER" \in Safe(to) /\ p = batter
        THEN s.pitcher[FieldingSide(s)]
        ELSE s.resp[p]]

\* The furthest base a runner is recorded on.
RankOn(bases, r) ==
    LET held == {b \in Bases : bases[b] = r}
    IN  CHOOSE n \in {Rank[b] : b \in held} : \A b \in held : Rank[b] <= n

\* The passing test of the reducer: it compares the runners who are on a base
\* after the play, so a runner who ends at HOME is in neither place.
NobodyPassed(s, batter, to) ==
    LET after == BasesAfter(s, batter, to)
        start(r) == IF "BATTER" \in DOMAIN to /\ r = batter
                    THEN 0 ELSE RankOn(s.bases, r)
        known == Runners(s) \cup (IF "BATTER" \in DOMAIN to THEN {batter} ELSE {})
        left  == {r \in known : \E b \in Bases : after[b] = r}
    IN  \A trail, lead \in left :
            start(trail) < start(lead)
                => RankOn(after, trail) < RankOn(after, lead)

AnyDestination(s, to)   == TRUE
DestinationsFree(s, to) ==
    \A o \in Safe(to) : s.bases[to[o]] = None \/ to[o] \in DOMAIN to

LegalMovements(s, batter, to, counts, thirdForce) ==
    LET origins == DOMAIN to
    IN  /\ \A o, q \in origins :
              RunnerFrom(s, batter, o) = RunnerFrom(s, batter, q) => o = q
        /\ \A o, q \in Safe(to) : to[o] = to[q] => o = q
        /\ \A o \in origins \ Outs(to) : Rank[to[o]] > Rank[o]
        /\ \A o \in origins \ {"BATTER"} :
              s.bases[o] # None /\ s.resp[s.bases[o]] # None
        /\ DestinationsFree(s, to)
        /\ s.outs + Cardinality(Outs(to)) <= 3
        /\ counts \subseteq Home(to)
        /\ (s.outs + Cardinality(Outs(to)) = 3 /\ Outs(to) # {} /\ thirdForce)
              => counts = {}
        /\ NobodyPassed(s, batter, to)

AfterMovements(s, batter, to, counts) ==
    [s EXCEPT !.bases = BasesAfter(s, batter, to),
              !.resp  = RespAfter(s, batter, to),
              !.score[BattingSide(s)] = @ + Cardinality(counts)]

FourthOutEnds(s, outs) == s.outs + outs > 3
HalfOver(s, outs)      == s.outs + outs >= 3

\* The third out clears the bases and turns the half inning over.
FinishOuts(s, outs) ==
    IF ~HalfOver(s, outs)
    THEN [s EXCEPT !.outs = @ + outs]
    ELSE [s EXCEPT !.outs   = 0,
                   !.bases  = [b \in Bases |-> None],
                   !.resp   = [p \in Players |-> None],
                   !.half   = IF s.half = "TOP" THEN "BOTTOM" ELSE "TOP",
                   !.inning = IF s.half = "TOP" THEN @ ELSE @ + 1]

-----------------------------------------------------------------------------
(* Lifecycle events *)

StartGame(s) == [s EXCEPT !.status = "IN_PROGRESS", !.inning = 1, !.half = "TOP"]

CanComplete(s, ending) ==
    /\ Live(s)
    /\ ending = "REGULATION" =>
          /\ s.score["HOME"] # s.score["AWAY"]
          /\ \/ s.inning > ScheduledInnings /\ s.half = "TOP"
             \/ /\ s.inning >= ScheduledInnings
                /\ s.half = "BOTTOM"
                /\ s.score["HOME"] > s.score["AWAY"]
    /\ ending = "WALK_OFF" =>
          /\ s.inning >= ScheduledInnings
          /\ s.half = "BOTTOM"
          /\ s.score["HOME"] > s.score["AWAY"]

ResumesAnything(s) == s.status \in {"SUSPENDED", "COMPLETED"}
CanResume(s)  == s.status = "SUSPENDED"
CanVerify(s)  == s.status \in {"COMPLETED", "CORRECTED"}
CanAbandon(s) == s.status \in {"IN_PROGRESS", "SUSPENDED", "COMPLETED", "CORRECTED"}

\* A correction event itself: what it replaces is resolved by the replay.
ScoringResumes(s) == [s EXCEPT !.status = "IN_PROGRESS"]
CanCorrect(s)   == s.status \in {"IN_PROGRESS", "COMPLETED", "CORRECTED"}
CorrectedGame(s) ==
    [s EXCEPT !.status = IF Live(s) THEN "IN_PROGRESS" ELSE "CORRECTED"]

-----------------------------------------------------------------------------
(* Plate appearances and runner plays *)

AllPlayTypes == {"OPTIONAL_ADVANCE", "ERROR", "STOLEN_BASE", "CAUGHT_STEALING",
                 "PICKOFF", "RUNNER_OUT", "WILD_PITCH", "PASSED_BALL"}

\* Where the outcome sends the batter (validateBatterResolution).
BatterDestination ==
    [WALK |-> "FIRST", INTENTIONAL_WALK |-> "FIRST", HIT_BY_PITCH |-> "FIRST",
     STRIKEOUT_SWINGING |-> "OUT", STRIKEOUT_LOOKING |-> "OUT",
     SINGLE |-> "FIRST", DOUBLE |-> "SECOND", TRIPLE |-> "THIRD",
     HOME_RUN |-> "HOME", BATTER_OUT |-> "OUT", FIELDER_CHOICE |-> "FIRST",
     REACHED_ON_ERROR |-> "FIRST", SACRIFICE_BUNT |-> "OUT",
     SACRIFICE_FLY |-> "OUT", INTERFERENCE |-> "FIRST"]

CanRecordPlateAppearance(s, batter, outcome, to, counts, thirdForce) ==
    /\ Live(s)
    /\ BatterAt(s, batter)
    /\ outcome \in {"SACRIFICE_BUNT", "SACRIFICE_FLY"} => s.outs # 2
    /\ "BATTER" \in DOMAIN to
    /\ to["BATTER"] = BatterDestination[outcome]
    /\ LegalMovements(s, batter, to, counts, thirdForce)

CursorStays(s, side)     == s.cursor[side]
CursorRunsOff(s, side)   == s.cursor[side] + 1
NextCursor(s, side) == (s.cursor[side] + 1) % Cardinality(Batters(s, side))

AfterPlateAppearance(s, batter, to, counts) ==
    LET side  == BattingSide(s)
        moved == AfterMovements(s, batter, to, counts)
    IN  FinishOuts([moved EXCEPT !.cursor[side] = NextCursor(s, side)],
                   Cardinality(Outs(to)))

\* How many outs each kind of standalone play may record.
OutsAllowed(playType) ==
    CASE playType \in {"CAUGHT_STEALING", "PICKOFF"} -> {1}
      [] playType = "RUNNER_OUT" -> 1 .. 3
      [] OTHER -> {0}

CanMoveRunners(s, to, counts, thirdForce) ==
    /\ Live(s)
    /\ DOMAIN to # {}
    /\ "BATTER" \notin DOMAIN to
    /\ LegalMovements(s, None, to, counts, thirdForce)

CanRecordRunnerPlay(s, playType, to, counts, thirdForce) ==
    /\ Cardinality(Outs(to)) \in OutsAllowed(playType)
    /\ playType = "PASSED_BALL" =>
          \E pos \in Positions :
              pos = "CATCHER" /\ s.defense[FieldingSide(s)][pos] # None
    /\ CanMoveRunners(s, to, counts, thirdForce)

AfterRunnerPlay(s, to, counts) ==
    FinishOuts(AfterMovements(s, None, to, counts), Cardinality(Outs(to)))

-----------------------------------------------------------------------------
(* Lineup changes *)

RemoveNobody(defense, players) == defense
Remove(defense, players) ==
    [pos \in Positions |->
        IF defense[pos] \in players THEN None ELSE defense[pos]]

AnyoneMayLeave(s, side, out) == out \in s.active /\ Team[out] = side
MayLeave(s, side, out) ==
    /\ out \in s.active /\ Team[out] = side
    /\ out # s.pitcher[side]

AnyoneMayEnter(s, side, in) == in \notin s.active /\ Team[in] = side
MayEnter(s, side, in) ==
    /\ in \notin s.active /\ Team[in] = side
    /\ in \notin s.participated

CanSubstitute(s, side, out, in, pos) ==
    /\ Live(s)
    /\ MayLeave(s, side, out)
    /\ MayEnter(s, side, in)
    /\ pos # "PITCHER"
    /\ s.defense[side][pos] \in {None, out}
    /\ \A b \in Bases : s.bases[b] = out => s.resp[out] # None

\* A runner who is replaced leaves his base and his responsible pitcher to
\* the incoming player.
AfterSubstitution(s, side, out, in, pos) ==
    LET held == {b \in Bases : s.bases[b] = out}
        base == CHOOSE b \in held : \A c \in held : Rank[b] <= Rank[c]
        next == [s EXCEPT
            !.active           = (@ \ {out}) \cup {in},
            !.position         = [@ EXCEPT ![out] = None, ![in] = pos],
            !.order[in]        = s.order[out],
            !.participated     = @ \cup {in},
            !.defense[side]    = [Remove(@, {out}) EXCEPT ![pos] = in]]
    IN  IF held = {} THEN next
        ELSE [next EXCEPT !.bases[base] = in,
                          !.resp = [@ EXCEPT ![out] = None, ![in] = s.resp[out]]]

\* assign is a function from the players of the fielding side who move to
\* their new positions.
CanAlign(s, side, assign) ==
    LET rest == Remove(s.defense[side], DOMAIN assign)
    IN  /\ Live(s)
        /\ side = FieldingSide(s)
        /\ DOMAIN assign # {}
        /\ \A p \in DOMAIN assign : p \in s.active /\ Team[p] = side
        /\ \A p, q \in DOMAIN assign : assign[p] = assign[q] => p = q
        /\ \A p \in DOMAIN assign : rest[assign[p]] = None
        /\ \/ \E p \in DOMAIN assign :
                 assign[p] = "PITCHER" /\ p = s.pitcher[side]
           \/ /\ \A p \in DOMAIN assign : assign[p] # "PITCHER"
              /\ rest["PITCHER"] = s.pitcher[side]

AfterAlignment(s, side, assign) ==
    [s EXCEPT
        !.defense[side] =
            [pos \in Positions |->
                IF \E p \in DOMAIN assign : assign[p] = pos
                THEN CHOOSE p \in DOMAIN assign : assign[p] = pos
                ELSE Remove(@, DOMAIN assign)[pos]],
        !.position =
            [p \in Players |->
                IF p \in DOMAIN assign THEN assign[p] ELSE @[p]]]

\* A hitter without a position cannot take the mound from a pitcher who bats:
\* the pitcher would leave his batting slot empty.
SlotIgnored(s, out, in) == FALSE
LeavesSlotEmpty(s, out, in) ==
    in \in s.active /\ s.position[in] = None /\ s.order[out] # 0 /\ s.order[in] # 0

CanChangePitcher(s, side, in) ==
    LET out == s.pitcher[side]
    IN  /\ Live(s)
        /\ side = FieldingSide(s)
        /\ out \in s.active
        /\ Team[in] = side
        /\ in # out
        /\ in \in s.active \/ in \notin s.participated
        /\ ~LeavesSlotEmpty(s, out, in)

SlotTaken(s, out, in) == IF in \in s.active THEN s.order[in] ELSE s.order[out]

\* A reliever from the field trades places with the pitcher; any other
\* reliever takes over for him, and bats in his slot if he was not playing.
AfterPitchingChange(s, side, in) ==
    LET out    == s.pitcher[side]
        trades == in \in s.active /\ s.position[in] # None
        fresh  == in \notin s.active
        rest   == Remove(s.defense[side], {out, in})
        field  == IF trades THEN [rest EXCEPT ![s.position[in]] = out] ELSE rest
    IN  [s EXCEPT
            !.active        = (IF trades THEN @ ELSE @ \ {out}) \cup {in},
            !.position      = [@ EXCEPT ![out] = IF trades THEN s.position[in] ELSE None,
                                        ![in]  = "PITCHER"],
            !.order[in]     = SlotTaken(s, out, in),
            !.participated  = IF fresh THEN @ \cup {in} ELSE @,
            !.pitcher[side] = in,
            !.defense[side] = [field EXCEPT !["PITCHER"] = in]]

-----------------------------------------------------------------------------
(* What a state is, and what a sound lineup is *)

Halves     == {"NONE", "TOP", "BOTTOM"}
OutCounts  == 0 .. 2
Tallies    == [Sides -> Nat]
Diamonds   == [Bases -> Players \cup {None}]
Orders     == [Players -> Nat]
Placements == [Players -> Positions \cup {None}]
Defenses   == [Sides -> [Positions -> Players \cup {None}]]
Mounds     == [Sides -> Players]
Charges    == [Players -> Players \cup {None}]

State == [status : Statuses, inning : Nat, half : Halves, outs : OutCounts,
          score : Tallies, bases : Diamonds, cursor : Tallies,
          active : SUBSET Players, order : Orders, position : Placements,
          participated : SUBSET Players, defense : Defenses, pitcher : Mounds,
          resp : Charges]

\* A position is held by p exactly when p is an active player of that side
\* recorded at that position.
DefenseMatches(s) ==
    \A side \in Sides, pos \in Positions, p \in Players :
        s.defense[side][pos] = p
            <=> p \in s.active /\ Team[p] = side /\ s.position[p] = pos

\* Each side's pitcher is an active player of it who stands at PITCHER.
Standing(s) ==
    \A side \in Sides :
        LET p == s.pitcher[side]
        IN  p \in s.active /\ Team[p] = side /\ s.position[p] = "PITCHER"

\* Slots of the batting order a side fills with active players.
Slots(s, side) == {s.order[p] : p \in Batters(s, side)}

\* No two active players of a side share a slot; every active player bats or
\* has a position.
SlotsDistinct(s) ==
    \A p, q \in s.active :
        Team[p] = Team[q] /\ s.order[p] = s.order[q] /\ s.order[p] # 0 => p = q
EverybodyPlays(s) ==
    \A p \in s.active : s.order[p] # 0 \/ s.position[p] # None

\* Everything about a game but its lifecycle status and its clock.
Situation(s) == <<s.outs, s.score, s.bases, s.cursor, s.active, s.order, s.position,
                  s.participated, s.defense, s.pitcher, s.resp>>
=============================================================================
