------------------------------ MODULE LineupPanel ------------------------------
(***************************************************************************)
(* The panel for lineup and pitching changes beside a live game            *)
(* (src/components/scoring/live-lineup-changes-panel.tsx,                  *)
(* src/features/scoring/live-lineup-changes.ts).                           *)
(*                                                                         *)
(* The panel lists who may leave, enter, swap or pitch with tests of its   *)
(* own, fills in a change when a mode is chosen, and names the role of     *)
(* whoever enters.  Its preview then asks the reducer.  The panel is made  *)
(* anew for every revision, so its selects are functions of the state: a   *)
(* form is what they hold.  Which player of a list comes first is open.    *)
(***************************************************************************)
EXTENDS ScoringPanels

\* What a hitter without a position, or a defender without one, is offered at first.
OfferedPosition == [BATTING |-> "DESIGNATED_HITTER", DEFENSE |-> "CATCHER"]
Modes == DOMAIN OfferedPosition

SideOf(s, mode) == IF mode = "BATTING" THEN BattingSide(s) ELSE FieldingSide(s)

-----------------------------------------------------------------------------
(* The lists *)

ActivePlayers(s, side) == {p \in s.active : Team[p] = side}

\* (Mutant: whoever has left may be listed again.)
EverybodyOut(s, side) == {p \in Players \ s.active : Team[p] = side}

Unused(s, side) == {p \in Players \ s.active : Team[p] = side /\ p \notin s.participated}

Leaving(s, side) == ActivePlayers(s, side) \ {s.pitcher[side]}

Roles == Positions \ {"PITCHER"}

MovableDefenders(s) ==
    {p \in Leaving(s, FieldingSide(s)) : s.position[p] # None}

PitchingCandidates(s) ==
    LET side == FieldingSide(s)
        out  == s.pitcher[side]
    IN  {p \in (ActivePlayers(s, side) \cup Unused(s, side)) \ {out} :
            ~(/\ p \in s.active /\ s.position[p] = None
              /\ s.order[out] # 0 /\ s.order[p] # 0)}

-----------------------------------------------------------------------------
(* The form *)

\* The first entry of a list, or the empty choice.
FirstOf(list) == IF list = {} THEN {None} ELSE list

FirstLeaving(s, mode) ==
    IF mode = "BATTING" THEN {BatterDue(s, 0)} ELSE FirstOf(Leaving(s, FieldingSide(s)))

PositionFor(s, mode, out) ==
    IF out = None \/ s.position[out] = None THEN OfferedPosition[mode] ELSE s.position[out]

\* A mode is chosen: the panel fills in both players and the position.
ChooseMode(s, mode) ==
    {[outgoing |-> out, incoming |-> in, position |-> PositionFor(s, mode, out)] :
        out \in FirstLeaving(s, mode), in \in FirstOf(Unused(s, SideOf(s, mode)))}

\* A selection of the leaving player takes his position along, unless he pitches.
SelectOutgoing(s, form, p) ==
    [form EXCEPT !.outgoing = p,
                 !.position = IF s.position[p] \in Roles THEN s.position[p] ELSE @]

\* What the selects hold after any number of selections.
LineupForms(s, mode) ==
    LET opened == ChooseMode(s, mode)
        side   == SideOf(s, mode)
    IN  opened
        \cup {SelectOutgoing(s, f, p) : f \in opened, p \in Leaving(s, side)}
        \cup [outgoing : {f.outgoing : f \in opened} \cup Leaving(s, side),
              incoming : FirstOf(Unused(s, side)), position : Roles]

\* The previews are the reducer's; the panel asks for one when both players are chosen.
PreviewSubstitution(s, side, f) == CanSubstitute(s, side, f.outgoing, f.incoming, f.position)
PreviewPitchingChange(s, in) == CanChangePitcher(s, FieldingSide(s), in)
Recordable(s, mode, f) ==
    None \notin {f.outgoing, f.incoming} /\ PreviewSubstitution(s, SideOf(s, mode), f)

\* Two defenders trade positions; the panel lists the same ones for both.
SwapChoices(s) == MovableDefenders(s) \X MovableDefenders(s)
Swap(s, pair) ==
    [p \in {pair[1], pair[2]} |-> s.position[IF p = pair[1] THEN pair[2] ELSE pair[1]]]
PreviewAlignmentSwap(s, pair) ==
    pair[1] # pair[2] /\ CanAlign(s, FieldingSide(s), Swap(s, pair))

SubstitutionRole(s, side, out) ==
    CASE \E b \in Bases : s.bases[b] = out -> "PINCH_RUNNER"
      [] side = BattingSide(s) /\ BatterDue(s, 0) = out
             /\ \A b \in Bases : s.bases[b] # out -> "PINCH_HITTER"
      [] OTHER -> IF side = FieldingSide(s) THEN "DEFENSIVE_REPLACEMENT"
                  ELSE "BATTING_SUBSTITUTION"

-----------------------------------------------------------------------------
(* Properties *)

\* The selects list all that can be recorded, and what they list together is recorded
\* if its position is free, unless the player leaving is a runner nobody answers for.
ListsAreRight(s) ==
    \A mode \in Modes, out, in \in Players, pos \in Positions :
        LET side == SideOf(s, mode)
        IN  CanSubstitute(s, side, out, in, pos) <=>
                /\ out \in Leaving(s, side) /\ in \in Unused(s, side) /\ pos \in Roles
                /\ s.defense[side][pos] \in {None, out}
                /\ out \in Runners(s) => s.resp[out] # None

\* What a form holds is what its selects show whenever it can be recorded; and what is
\* filled in can be recorded, except for a pitcher due up, an empty bench or a taken position.
FormsAreRight(s) ==
    \A mode \in Modes :
        LET side == SideOf(s, mode)
        IN  /\ \A f \in LineupForms(s, mode) : Recordable(s, mode, f) =>
                   f.outgoing \in Leaving(s, side) /\ f.incoming \in Unused(s, side)
            /\ \A f \in ChooseMode(s, mode) :
                   \/ Recordable(s, mode, f)
                   \/ None \in {f.outgoing, f.incoming} \/ f.outgoing = s.pitcher[side]
                   \/ s.defense[side][f.position] \notin {None, f.outgoing}
                   \/ f.outgoing \in Runners(s) /\ s.resp[f.outgoing] = None

\* The role announced is the one the player gets: a pinch runner stands on the base and
\* keeps the pitcher charged with it, a pinch hitter is due up, anybody else is neither.
RolesAreRight(s) ==
    \A mode \in Modes : \A f \in LineupForms(s, mode) : Recordable(s, mode, f) =>
        LET side == SideOf(s, mode)
            next == AfterSubstitution(s, side, f.outgoing, f.incoming, f.position)
            role == SubstitutionRole(s, side, f.outgoing)
        IN  /\ role = "PINCH_RUNNER" <=> f.incoming \in Runners(next)
            /\ role = "PINCH_RUNNER" => next.resp[f.incoming] = s.resp[f.outgoing]
            /\ role = "PINCH_HITTER" => BatterDue(next, 0) = f.incoming
            /\ role \in {"DEFENSIVE_REPLACEMENT", "BATTING_SUBSTITUTION"} =>
                   next.bases = s.bases /\ BatterDue(next, 0) = BatterDue(s, 0)

\* Any two defenders can be swapped, and stand where they should; the list of
\* relievers is exactly who can take the mound.
DefenseIsRight(s) ==
    /\ \A pair \in SwapChoices(s) : pair[1] # pair[2] =>
          /\ PreviewAlignmentSwap(s, pair)
          /\ DefenseMatches(AfterAlignment(s, FieldingSide(s), Swap(s, pair)))
    /\ PitchingCandidates(s) = {p \in Players : PreviewPitchingChange(s, p)}

\* The panel offers what the server records, in every state of a live game.
LineupPanelIsRight ==
    Live(game) => ListsAreRight(game) /\ FormsAreRight(game)
                      /\ RolesAreRight(game) /\ DefenseIsRight(game)
=============================================================================
