-------------------------- MODULE CorrectionHistory --------------------------
(***************************************************************************)
(* The append-only history of one game and its corrections                 *)
(* (src/domain/events/game-engine.ts, resolveCorrections to                *)
(* deriveEventStates; what the service lets through is                     *)
(* applyCorrectionCommandSchema).                                          *)
(*                                                                         *)
(* Nothing is ever deleted: a correction is an event of its own that       *)
(* names earlier events and what to put in their place.  The state of the  *)
(* game is the replay of what is left in effect, and an event is accepted  *)
(* when the history that ends with it replays.                             *)
(*                                                                         *)
(* An event is named by its sequence number, which is its place in the     *)
(* history, and a correction is                                            *)
(*   [type, policy, targets, with]                                         *)
(* where `with` lists the replacement bodies by their `order`.  Envelope   *)
(* fields (account, revision, hashes) are the business of EventAcceptance. *)
(***************************************************************************)
EXTENDS GameReducer, Sequences

CONSTANTS
    Bodies,         \* the bodies of scoring and lifecycle events submitted
    MaxEvents,      \* bound: length of the history
    MaxCorrections, \* bound: corrections in the history
    MaxTargets      \* bound: events one correction names

ASSUME HistoryAssumption ==
    MaxEvents \in Nat /\ MaxCorrections \in Nat /\ MaxTargets \in Nat
\* The game has a setup that was accepted.
ASSUME SetupAssumption == \E setup \in Setups : ValidSetup(setup)

\* What the schemas of event bodies let through.
BodyTypes == {"GameStarted", "GameSuspended", "GameResumed", "GameCompleted",
              "GameVerified", "GameReopened", "GameAbandoned",
              "PlateAppearanceRecorded", "RunnerPlayRecorded",
              "DefensiveSubstitutionMade", "PitchingChangeMade"}
Paths == UNION {[origins -> Destinations] : origins \in SUBSET (Bases \cup {"BATTER"})}
ASSUME BodyAssumption ==
    \A b \in Bodies :
        /\ b.type \in BodyTypes
        /\ b.type \in {"PlateAppearanceRecorded", "RunnerPlayRecorded"} => b.to \in Paths
        /\ b.type \in {"DefensiveSubstitutionMade", "PitchingChangeMade"} =>
              b.side \in Sides /\ b.in \in Players
        /\ b.type = "DefensiveSubstitutionMade" => b.pos \in Positions

VARIABLES
    history, \* the accepted events, in sequence order
    game     \* the state that replaying the history yields

vars == <<history, game>>

-----------------------------------------------------------------------------
(* Corrections *)

Replaceable == {"PlateAppearanceRecorded", "RunnerPlayRecorded",
                "DefensiveSubstitutionMade", "PitchingChangeMade"}

IsCorrection(e)     == e.type = "CorrectionApplied"
IsReversal(e)       == IsCorrection(e) /\ e.policy = "REVERSE_EVENTS"
CorrectionsOf(h)    == {i \in DOMAIN h : IsCorrection(h[i])}
Earliest(targets)   == CHOOSE i \in targets : \A j \in targets : i <= j

Reversal(targets) == [type |-> "CorrectionApplied", policy |-> "REVERSE_EVENTS",
                      targets |-> targets, with |-> <<>>]
Replacement(targets, bodies) ==
    [type |-> "CorrectionApplied", policy |-> "REPLACE_EVENT_RANGE",
     targets |-> targets, with |-> bodies]

\* Corrections may be reversed, never replaced, and only plays are replaceable.
AnyTargets(h, e)     == TRUE
TargetsAllowed(h, e) ==
    \A t \in e.targets : IsReversal(e) \/ h[t].type \in Replaceable

\* What a correction that is itself in effect adds to the resolution: its
\* targets leave the effective history and belong to it alone, and the
\* replacements stand at one place of the history.
Suppress(r, e, place, allowed) ==
    [suppressed |-> r.suppressed \cup e.targets,
     inserted   |-> IF e.with = <<>> THEN r.inserted
                    ELSE [r.inserted EXCEPT ![place] = e.with],
     valid      |-> r.valid /\ allowed]
Unowned(r, e) == e.targets \cap r.suppressed = {}

TakeOverShared(r, h, e) == Suppress(r, e, Earliest(e.targets), TargetsAllowed(h, e))
TakeOverAtLatest(r, h, e) ==
    Suppress(r, e, CHOOSE i \in e.targets : \A j \in e.targets : i >= j,
             TargetsAllowed(h, e) /\ Unowned(r, e))
TakeOver(r, h, e) ==
    Suppress(r, e, Earliest(e.targets), TargetsAllowed(h, e) /\ Unowned(r, e))

Untouched(h) == [suppressed |-> {}, inserted |-> [i \in DOMAIN h |-> <<>>], valid |-> TRUE]

\* resolveCorrections: newest first, skipping what a newer one suppressed.
ResolveOldestFirst(h) ==
    LET upTo[i \in 0 .. Len(h)] ==
          IF i = 0 THEN Untouched(h)
          ELSE IF ~IsCorrection(h[i]) \/ i \in upTo[i - 1].suppressed THEN upTo[i - 1]
          ELSE TakeOver(upTo[i - 1], h, h[i])
    IN  upTo[Len(h)]
Resolve(h) ==
    LET from[i \in 1 .. Len(h) + 1] ==
          IF i > Len(h) THEN Untouched(h)
          ELSE IF ~IsCorrection(h[i]) \/ i \in from[i + 1].suppressed THEN from[i + 1]
          ELSE TakeOver(from[i + 1], h, h[i])
    IN  from[1]

\* The bodies in effect, a replacement standing where its earliest target stood.
EffectiveWithoutCorrections(h) ==
    LET r == Resolve(h)
        upTo[i \in 0 .. Len(h)] ==
          IF i = 0 THEN <<>>
          ELSE upTo[i - 1] \o r.inserted[i] \o
               (IF i \in r.suppressed \/ IsCorrection(h[i]) THEN <<>> ELSE <<h[i]>>)
    IN  upTo[Len(h)]
Effective(h) ==
    LET r == Resolve(h)
        upTo[i \in 0 .. Len(h)] ==
          IF i = 0 THEN <<>>
          ELSE upTo[i - 1] \o r.inserted[i] \o
               (IF i \in r.suppressed THEN <<>> ELSE <<h[i]>>)
    IN  upTo[Len(h)]

-----------------------------------------------------------------------------
(* Replay *)

\* applyBody: may the body be applied, and what it does.
Accepts(s, b) ==
    CASE b.type = "GameStarted"       -> s.status = "READY"
      [] b.type = "GameSuspended"     -> Live(s)
      [] b.type = "GameResumed"       -> CanResume(s)
      [] b.type = "GameCompleted"     -> CanComplete(s, b.ending)
      [] b.type = "GameVerified"      -> CanVerify(s)
      [] b.type = "GameReopened"      -> s.status = "VERIFIED"
      [] b.type = "GameAbandoned"     -> CanAbandon(s)
      [] b.type = "CorrectionApplied" -> CanCorrect(s)
      [] b.type = "PlateAppearanceRecorded" ->
            CanRecordPlateAppearance(s, b.batter, b.outcome, b.to, b.counts, FALSE)
      [] b.type = "RunnerPlayRecorded" ->
            CanRecordRunnerPlay(s, b.playType, b.to, b.counts, FALSE)
      [] b.type = "DefensiveSubstitutionMade" ->
            CanSubstitute(s, b.side, b.out, b.in, b.pos)
      [] b.type = "PitchingChangeMade" -> CanChangePitcher(s, b.side, b.in)

Apply(s, b) ==
    CASE b.type = "GameStarted"       -> StartGame(s)
      [] b.type = "GameSuspended"     -> [s EXCEPT !.status = "SUSPENDED"]
      [] b.type = "GameResumed"       -> [s EXCEPT !.status = "IN_PROGRESS"]
      [] b.type = "GameCompleted"     -> [s EXCEPT !.status = "COMPLETED"]
      [] b.type = "GameVerified"      -> [s EXCEPT !.status = "VERIFIED"]
      [] b.type = "GameReopened"      -> [s EXCEPT !.status = "CORRECTED"]
      [] b.type = "GameAbandoned"     -> [s EXCEPT !.status = "ABANDONED"]
      [] b.type = "CorrectionApplied" -> CorrectedGame(s)
      [] b.type = "PlateAppearanceRecorded" ->
            AfterPlateAppearance(s, b.batter, b.to, b.counts)
      [] b.type = "RunnerPlayRecorded" -> AfterRunnerPlay(s, b.to, b.counts)
      [] b.type = "DefensiveSubstitutionMade" ->
            AfterSubstitution(s, b.side, b.out, b.in, b.pos)
      [] b.type = "PitchingChangeMade" -> AfterPitchingChange(s, b.side, b.in)

\* Applying bodies one after the other: the set of the one state they lead to,
\* or the empty set when one of them is refused.
ApplyAll(s, bodies) ==
    LET upTo[i \in 0 .. Len(bodies)] ==
          IF i = 0 THEN {s}
          ELSE {Apply(t, bodies[i]) : t \in {u \in upTo[i - 1] : Accepts(u, bodies[i])}}
    IN  upTo[Len(bodies)]

TheSetup == CHOOSE setup \in Setups : ValidSetup(setup)

Replay(h) ==
    IF Resolve(h).valid THEN ApplyAll(InitialState(TheSetup), Effective(h)) ELSE {}

-----------------------------------------------------------------------------
(* The state machine *)

\* deriveEventStates: the proposed event joins the history if the whole replays.
Accept(e) ==
    /\ Len(history) < MaxEvents
    /\ history' = Append(history, e)
    /\ game' \in Replay(history')

Init == history = <<>> /\ game = InitialState(TheSetup)

EventRecorded == \E b \in Bodies : Accept(b)

\* Targets are any earlier events of the game; corrections included.
TargetSets == {ts \in SUBSET DOMAIN history : ts # {} /\ Cardinality(ts) <= MaxTargets}
RoomForCorrection == Cardinality(CorrectionsOf(history)) < MaxCorrections

EventsReversed ==
    RoomForCorrection /\ \E targets \in TargetSets : Accept(Reversal(targets))

PlaysReplaced ==
    /\ RoomForCorrection
    /\ \E targets \in TargetSets :
         \E bodies \in [1 .. Cardinality(targets) -> {b \in Bodies : b.type \in Replaceable}] :
           Accept(Replacement(targets, bodies))

Next == EventRecorded \/ EventsReversed \/ PlaysReplaced

Spec == Init /\ [][Next]_vars

-----------------------------------------------------------------------------
(* Properties *)

\* Type invariant: a history of known events, whose corrections name earlier
\* events that they may name, and a well-formed state.
TypeOK ==
    /\ \A i \in DOMAIN history \ CorrectionsOf(history) : history[i] \in Bodies
    /\ \A i \in CorrectionsOf(history) : \A target \in history[i].targets :
          /\ target \in 1 .. i - 1
          /\ IsReversal(history[i]) \/ history[target].type \in Replaceable
    /\ game \in State

\* Which corrections are in effect, said without an order of resolution: those
\* that no correction in effect names.
Kernels(h) ==
    {active \in SUBSET CorrectionsOf(h) :
        \A c \in CorrectionsOf(h) :
            c \in active <=> ~ \E d \in active : c \in h[d].targets}
Active(h)   == CHOOSE active \in Kernels(h) : TRUE
InEffect(h) == {i \in DOMAIN h : ~ \E c \in Active(h) : i \in h[c].targets}

\* Newest-first resolution computes the only consistent choice of corrections
\* in effect, however corrections of corrections are nested
\* (docs/CORRECTION_AUDIT_AND_REPLAY.md "duplicate active targets ... fail closed").
ResolutionIsUnique ==
    /\ Cardinality(Kernels(history)) = 1
    /\ Resolve(history).suppressed = DOMAIN history \ InEffect(history)
    /\ \A c, d \in Active(history) :
          history[c].targets \cap history[d].targets # {} => c = d

\* The sequence of bodies the accepted corrections ask for.
Intended(h) ==
    LET here(i) == {c \in Active(h) : h[c].with # <<>> /\ Earliest(h[c].targets) = i}
        upTo[i \in 0 .. Len(h)] ==
          IF i = 0 THEN <<>>
          ELSE upTo[i - 1]
                 \o (IF here(i) = {} THEN <<>> ELSE h[CHOOSE c \in here(i) : TRUE].with)
                 \o (IF i \in InEffect(h) THEN <<h[i]>> ELSE <<>>)
    IN  upTo[Len(h)]

\* The current state is the one the events in effect lead to, with every
\* replacement at the place of its earliest target: a superseded play has no
\* effect left, and no later play is in effect that could not have been scored.
GameIsIntended == ApplyAll(InitialState(TheSetup), Intended(history)) = {game}

\* The bodies that are no corrections themselves.
WithoutCorrections(bodies) ==
    LET upTo[i \in 0 .. Len(bodies)] ==
          IF i = 0 THEN <<>>
          ELSE IF IsCorrection(bodies[i]) THEN upTo[i - 1]
          ELSE Append(upTo[i - 1], bodies[i])
    IN  upTo[Len(bodies)]

\* The corrected game is a game of baseball somebody could have scored in the
\* first place: without its corrections, the same plays are accepted one by one
\* and lead to the same situation.
PlayableWithoutCorrections ==
    LET plays == WithoutCorrections(Intended(history))
    IN  \E s \in ApplyAll(InitialState(TheSetup), plays) : Situation(s) = Situation(game)

\* Corrections mean what they say: the stored history is well formed, which of
\* its corrections are in effect is beyond doubt, and the game is the one they
\* ask for.
CorrectionsMeanWhatTheySay == TypeOK /\ ResolutionIsUnique /\ GameIsIntended

\* Reversing a correction restores the situation as if it had never been made,
\* whatever was accepted in between
\* (docs/IMMUTABLE_GAME_EVENT_MODEL.md:81 "Reversing a correction reactivates
\* the original history deterministically").
WithoutTargets(h, c) == [h EXCEPT ![c].targets = {}, ![c].with = <<>>]
UndoRestores ==
    [][\A c \in CorrectionsOf(history) :
         history' = Append(history, Reversal({c})) =>
           \E s \in Replay(WithoutTargets(history, c)) : Situation(s) = Situation(game')
      ]_vars

\* What a reviewer verified is what stands: after a verification nothing has
\* been appended that could have changed it.
VerifiedStandsAsReviewed ==
    game.status = "VERIFIED" => history[Len(history)].type = "GameVerified"
=============================================================================
