-------------------------- MODULE GameReducerProofs --------------------------
(***************************************************************************)
(* What each handler of the reducer does to a state, for every lineup.     *)
(*                                                                         *)
(* Runner plays are separated from lineup changes: a play leaves the six   *)
(* lineup components of the state alone (SameLineup), and the three       *)
(* lineup changes leave bases, score and clock alone but for the runner    *)
(* who is replaced.                                                        *)
(***************************************************************************)
EXTENDS GameReducer, FiniteSetTheorems, TLAPS

\* The components no runner play touches.
Lineup(s) == <<s.active, s.order, s.position, s.participated, s.defense, s.pitcher>>

\* The lineup invariants of a state.  That everybody plays is what keeps the slots
\* of the order: a pitching change finds nobody without a slot or a position.
SoundLineup(s) ==
    DefenseMatches(s) /\ Standing(s) /\ SlotsDistinct(s) /\ EverybodyPlays(s)

-----------------------------------------------------------------------------
\* Every set of origins, and so every set of runs or outs, is finite.
LEMMA OriginsFinite ==
  ASSUME NEW S, S \subseteq Bases \cup {"BATTER"}
  PROVE  IsFiniteSet(S) /\ Cardinality(S) \in Nat
<1>1. IsFiniteSet({"FIRST", "SECOND", "THIRD", "BATTER"})
  <2>1. IsFiniteSet({}) BY FS_EmptySet
  <2>2. IsFiniteSet({} \cup {"FIRST"}) BY <2>1, FS_AddElement
  <2>3. IsFiniteSet(({} \cup {"FIRST"}) \cup {"SECOND"}) BY <2>2, FS_AddElement
  <2>4. IsFiniteSet((({} \cup {"FIRST"}) \cup {"SECOND"}) \cup {"THIRD"})
    BY <2>3, FS_AddElement
  <2>5. IsFiniteSet(((({} \cup {"FIRST"}) \cup {"SECOND"}) \cup {"THIRD"}) \cup {"BATTER"})
    BY <2>4, FS_AddElement
  <2>6. ((({} \cup {"FIRST"}) \cup {"SECOND"}) \cup {"THIRD"}) \cup {"BATTER"}
           = {"FIRST", "SECOND", "THIRD", "BATTER"}
    OBVIOUS
  <2> QED BY <2>5, <2>6
<1>2. S \subseteq {"FIRST", "SECOND", "THIRD", "BATTER"} BY DEF Bases
<1>3. IsFiniteSet(S) BY <1>1, <1>2, FS_Subset
<1> QED BY <1>3, FS_CardinalityType

\* A play the reducer accepts: origins on the bases or at the plate.
Entered(s, batter, to, counts) ==
    /\ DOMAIN to \subseteq Bases \cup {"BATTER"}
    /\ "BATTER" \in DOMAIN to => batter \in Players
    /\ counts \subseteq DOMAIN to
    /\ s.outs + Cardinality(Outs(to)) <= 3

\* applyMovements yields a well-typed state and leaves the lineup alone.
LEMMA MovementsType ==
  ASSUME NEW s \in State, NEW batter, NEW to, NEW counts,
         Entered(s, batter, to, counts)
  PROVE  /\ AfterMovements(s, batter, to, counts) \in State
         /\ Lineup(AfterMovements(s, batter, to, counts)) = Lineup(s)
         /\ AfterMovements(s, batter, to, counts).outs = s.outs
<1>1. BasesAfter(s, batter, to) \in Diamonds
  <2> SUFFICES ASSUME NEW b \in Bases
               PROVE  BasesAfter(s, batter, to)[b] \in Players \cup {None}
    BY DEF BasesAfter, Diamonds
  <2>1. CASE \E o \in Safe(to) : to[o] = b
    <3> DEFINE o == CHOOSE o \in Safe(to) : to[o] = b
    <3>1. o \in Safe(to) BY <2>1
    <3>2. o \in DOMAIN to BY <3>1 DEF Safe
    <3>3. BasesAfter(s, batter, to)[b] = RunnerFrom(s, batter, o)
      BY <2>1 DEF BasesAfter
    <3> HIDE DEF o
    <3> QED BY <3>2, <3>3 DEF RunnerFrom, Entered, State, Diamonds
  <2>2. CASE ~ \E o \in Safe(to) : to[o] = b
    BY <2>2 DEF BasesAfter, LeftBehind, State, Diamonds
  <2> QED BY <2>1, <2>2
<1>2. RespAfter(s, batter, to) \in Charges
  <2>1. s.pitcher[FieldingSide(s)] \in Players
    BY DEF FieldingSide, BattingSide, Other, Sides, State, Mounds
  <2> QED BY <2>1 DEF RespAfter, State, Charges
<1>3. Cardinality(counts) \in Nat BY OriginsFinite DEF Entered
<1>4. BattingSide(s) \in Sides BY DEF BattingSide, Sides
<1>5. [s.score EXCEPT ![BattingSide(s)] = @ + Cardinality(counts)] \in Tallies
  BY <1>3, <1>4 DEF State, Tallies
<1> QED BY <1>1, <1>2, <1>5 DEF AfterMovements, State, Lineup

\* finishOuts yields a well-typed state, with at most two outs, and leaves
\* the lineup alone.
LEMMA FinishOutsType ==
  ASSUME NEW s \in State, NEW n \in Nat, s.outs + n <= 3
  PROVE  FinishOuts(s, n) \in State /\ Lineup(FinishOuts(s, n)) = Lineup(s)
<1>1. CASE HalfOver(s, n)
  <2> DEFINE half   == IF s.half = "TOP" THEN "BOTTOM" ELSE "TOP"
             inning == IF s.half = "TOP" THEN s.inning ELSE s.inning + 1
             bases  == [b \in Bases |-> None]
             resp   == [p \in Players |-> None]
  <2>1. FinishOuts(s, n) = [s EXCEPT !.outs = 0, !.bases = bases, !.resp = resp,
                                     !.half = half, !.inning = inning]
    BY <1>1 DEF FinishOuts
  <2>2. half \in Halves /\ inning \in Nat /\ 0 \in OutCounts
    BY DEF State, Halves, OutCounts
  <2>3. bases \in Diamonds /\ resp \in Charges
    BY DEF Diamonds, Charges
  <2> HIDE DEF half, inning, bases, resp
  <2> QED BY <2>1, <2>2, <2>3 DEF State, Lineup
<1>2. CASE ~HalfOver(s, n)
  <2>1. FinishOuts(s, n) = [s EXCEPT !.outs = s.outs + n]
    BY <1>2 DEF FinishOuts
  <2>2. s.outs + n \in OutCounts
    BY <1>2 DEF HalfOver, State, OutCounts
  <2> QED BY <2>1, <2>2 DEF State, Lineup
<1> QED BY <1>1, <1>2

\* What a play leaves alone is all the lineup invariants speak of.
LEMMA SameLineup ==
  ASSUME NEW s \in State, NEW t \in State, Lineup(t) = Lineup(s), SoundLineup(s)
  PROVE  SoundLineup(t)
BY DEF Lineup, SoundLineup, DefenseMatches, Standing, SlotsDistinct, EverybodyPlays

-----------------------------------------------------------------------------
(* The two kinds of play *)

\* recordPlateAppearance: well typed, and the lineup is untouched.
LEMMA PlateAppearanceType ==
  ASSUME NEW s \in State, NEW batter \in Players, NEW to, NEW counts,
         Entered(s, batter, to, counts), Batters(s, BattingSide(s)) # {}
  PROVE  /\ AfterPlateAppearance(s, batter, to, counts) \in State
         /\ Lineup(AfterPlateAppearance(s, batter, to, counts)) = Lineup(s)
<1> DEFINE side  == BattingSide(s)
           moved == AfterMovements(s, batter, to, counts)
           n     == Cardinality(Outs(to))
           next  == [moved EXCEPT !.cursor[side] = NextCursor(s, side)]
<1>1. side \in Sides BY DEF BattingSide, Sides
<1>2. NextCursor(s, side) \in Nat
  <2>1. IsFiniteSet(Batters(s, side))
    BY LineupAssumption, FS_Subset DEF Batters, State
  <2>2. Cardinality(Batters(s, side)) \in Nat \ {0}
    BY <2>1, FS_CardinalityType, FS_EmptySet
  <2>3. s.cursor[side] \in Nat BY <1>1 DEF State, Tallies
  <2> QED BY <2>2, <2>3 DEF NextCursor
<1>3. moved \in State /\ Lineup(moved) = Lineup(s) /\ moved.outs = s.outs
  BY MovementsType
<1>4. [moved.cursor EXCEPT ![side] = NextCursor(s, side)] \in Tallies
  BY <1>1, <1>2, <1>3 DEF State, Tallies
<1>5. n \in Nat /\ s.outs + n <= 3
  BY OriginsFinite DEF Entered, Outs
<1> HIDE DEF side, moved, n
<1>6. next \in State /\ Lineup(next) = Lineup(s) /\ next.outs = s.outs
  BY <1>3, <1>4 DEF State, Lineup
<1>7. AfterPlateAppearance(s, batter, to, counts) = FinishOuts(next, n)
  BY DEF AfterPlateAppearance, side, moved, n
<1> HIDE DEF next
<1>8. FinishOuts(next, n) \in State /\ Lineup(FinishOuts(next, n)) = Lineup(next)
  BY <1>5, <1>6, FinishOutsType
<1> QED BY <1>6, <1>7, <1>8

\* Every runner play: well typed, and the lineup is untouched.
LEMMA RunnerPlayType ==
  ASSUME NEW s \in State, NEW to, NEW counts, Entered(s, None, to, counts)
  PROVE  /\ AfterRunnerPlay(s, to, counts) \in State
         /\ Lineup(AfterRunnerPlay(s, to, counts)) = Lineup(s)
<1> DEFINE moved == AfterMovements(s, None, to, counts)
           n     == Cardinality(Outs(to))
<1>1. moved \in State /\ Lineup(moved) = Lineup(s) /\ moved.outs = s.outs
  BY MovementsType
<1>2. n \in Nat /\ s.outs + n <= 3
  BY OriginsFinite DEF Entered, Outs
<1> HIDE DEF moved, n
<1>3. AfterRunnerPlay(s, to, counts) = FinishOuts(moved, n)
  BY DEF AfterRunnerPlay, moved, n
<1> QED BY <1>1, <1>2, <1>3, FinishOutsType

-----------------------------------------------------------------------------
(* The three lineup changes *)

\* Each lineup change starts by taking players out of the defense.
LEMMA RemoveType ==
  ASSUME NEW d \in [Positions -> Players \cup {None}], NEW S
  PROVE  /\ Remove(d, S) \in [Positions -> Players \cup {None}]
         /\ \A pos \in Positions :
               Remove(d, S)[pos] = IF d[pos] \in S THEN None ELSE d[pos]
BY DEF Remove

\* What a substitution does to the lineup, whether or not a runner is replaced.
Substituted(t, s, side, out, in, pos) ==
    /\ t \in State
    /\ t.active = (s.active \ {out}) \cup {in}
    /\ \A p \in Players : t.position[p] =
          IF p = in THEN pos ELSE IF p = out THEN None ELSE s.position[p]
    /\ \A p \in Players : t.order[p] = IF p = in THEN s.order[out] ELSE s.order[p]
    /\ t.pitcher = s.pitcher
    /\ \A d \in Sides, q \in Positions : t.defense[d][q] =
          IF d # side THEN s.defense[d][q]
          ELSE IF q = pos THEN in
          ELSE IF s.defense[d][q] = out THEN None ELSE s.defense[d][q]
    /\ t.participated = s.participated \cup {in}

LEMMA SubstitutionEffect ==
  ASSUME NEW s \in State, NEW side \in Sides, NEW out \in Players,
         NEW in \in Players, NEW pos \in Positions
  PROVE  Substituted(AfterSubstitution(s, side, out, in, pos), s, side, out, in, pos)
<1> DEFINE active   == (s.active \ {out}) \cup {in}
           position == [[s.position EXCEPT ![out] = None] EXCEPT ![in] = pos]
           order    == [s.order EXCEPT ![in] = s.order[out]]
           part     == s.participated \cup {in}
           rest     == Remove(s.defense[side], {out})
           field    == [rest EXCEPT ![pos] = in]
           defense  == [s.defense EXCEPT ![side] = field]
           held     == {b \in Bases : s.bases[b] = out}
           base     == CHOOSE b \in held : \A c \in held : Rank[b] <= Rank[c]
           next     == [s EXCEPT !.active = active, !.position = position,
                                 !.order = order, !.participated = part,
                                 !.defense = defense]
           bases    == [s.bases EXCEPT ![base] = in]
           resp     == [[s.resp EXCEPT ![out] = None] EXCEPT ![in] = s.resp[out]]
           moved    == [next EXCEPT !.bases = bases, !.resp = resp]
<1>1. active \in SUBSET Players /\ part \in SUBSET Players BY DEF State
<1>2. /\ position \in Placements
      /\ \A p \in Players : position[p] =
            IF p = in THEN pos ELSE IF p = out THEN None ELSE s.position[p]
  BY DEF State, Placements
<1>3. /\ order \in Orders
      /\ \A p \in Players : order[p] = IF p = in THEN s.order[out] ELSE s.order[p]
  BY DEF State, Orders
<1>4. /\ defense \in Defenses
      /\ \A d \in Sides, q \in Positions : defense[d][q] =
            IF d # side THEN s.defense[d][q]
            ELSE IF q = pos THEN in
            ELSE IF s.defense[d][q] = out THEN None ELSE s.defense[d][q]
  <2>1. s.defense \in [Sides -> [Positions -> Players \cup {None}]]
    BY DEF State, Defenses
  <2>2. /\ rest \in [Positions -> Players \cup {None}]
        /\ \A q \in Positions :
              rest[q] = IF s.defense[side][q] = out THEN None ELSE s.defense[side][q]
    BY <2>1, RemoveType
  <2> HIDE DEF rest
  <2>3. /\ field \in [Positions -> Players \cup {None}]
        /\ \A q \in Positions : field[q] = IF q = pos THEN in ELSE rest[q]
    BY <2>2
  <2> HIDE DEF field
  <2>4. /\ defense \in [Sides -> [Positions -> Players \cup {None}]]
        /\ \A d \in Sides : defense[d] = IF d = side THEN field ELSE s.defense[d]
    BY <2>1, <2>3
  <2> HIDE DEF defense
  <2> QED BY <2>2, <2>3, <2>4 DEF Defenses
<1>5. bases \in Diamonds BY DEF State, Diamonds
<1>6. resp \in Charges BY DEF State, Charges
<1>7. AfterSubstitution(s, side, out, in, pos) = IF held = {} THEN next ELSE moved
  BY DEF AfterSubstitution
<1> HIDE DEF active, position, order, part, defense, bases, resp, held
<1>8. /\ next \in State /\ next.active = active /\ next.position = position
      /\ next.order = order /\ next.pitcher = s.pitcher
      /\ next.defense = defense /\ next.participated = part
  BY <1>1, <1>2, <1>3, <1>4 DEF State
<1> HIDE DEF next
<1>9. /\ moved \in State /\ moved.active = active /\ moved.position = position
      /\ moved.order = order /\ moved.pitcher = s.pitcher
      /\ moved.defense = defense /\ moved.participated = part
  BY <1>5, <1>6, <1>8 DEF State
<1> HIDE DEF moved
<1>10. active = (s.active \ {out}) \cup {in} /\ part = s.participated \cup {in}
  BY DEF active, part
<1>11. CASE held = {}
  BY <1>2, <1>3, <1>4, <1>7, <1>8, <1>10, <1>11 DEF Substituted
<1>12. CASE held # {}
  BY <1>2, <1>3, <1>4, <1>7, <1>9, <1>10, <1>12 DEF Substituted
<1> QED BY <1>11, <1>12

\* A substitution keeps the lineup sound.
LEMMA SubstitutionSound ==
  ASSUME NEW s \in State, NEW side \in Sides, NEW out \in Players,
         NEW in \in Players, NEW pos \in Positions, NEW t,
         Substituted(t, s, side, out, in, pos),
         CanSubstitute(s, side, out, in, pos), SoundLineup(s)
  PROVE  SoundLineup(t)
<1>1. /\ out \in s.active /\ Team[out] = side /\ out # s.pitcher[side]
      /\ in \notin s.active /\ Team[in] = side /\ pos # "PITCHER"
      /\ s.defense[side][pos] \in {None, out}
  BY DEF CanSubstitute, MayLeave, MayEnter
<1>2. s.active \subseteq Players /\ s.pitcher \in [Sides -> Players]
  BY DEF State, Mounds
<1>3. DefenseMatches(t)
  <2> SUFFICES ASSUME NEW d \in Sides, NEW q \in Positions, NEW p \in Players
               PROVE  t.defense[d][q] = p
                        <=> p \in t.active /\ Team[p] = d /\ t.position[p] = q
    BY DEF DefenseMatches
  <2>1. s.defense[d][q] = p <=> p \in s.active /\ Team[p] = d /\ s.position[p] = q
    BY DEF SoundLineup, DefenseMatches
  <2>2. p \in t.active <=> p = in \/ (p \in s.active /\ p # out)
    BY DEF Substituted
  <2>3. p \in s.active /\ Team[p] = side /\ s.position[p] = pos => p = out
    BY <1>1, LineupAssumption DEF SoundLineup, DefenseMatches
  <2>4. t.position[p] = IF p = in THEN pos ELSE IF p = out THEN None ELSE s.position[p]
    BY DEF Substituted
  <2>5. t.defense[d][q] = IF d # side THEN s.defense[d][q]
                          ELSE IF q = pos THEN in
                          ELSE IF s.defense[d][q] = out THEN None ELSE s.defense[d][q]
    BY DEF Substituted
  <2>6. None # p /\ None # q /\ in # out BY <1>1, LineupAssumption
  <2>7. CASE d # side
    BY <1>1, <2>1, <2>2, <2>4, <2>5, <2>7
  <2>8. CASE d = side /\ q = pos
    BY <1>1, <2>2, <2>3, <2>4, <2>5, <2>6, <2>8
  <2>9. CASE d = side /\ q # pos
    BY <1>1, <2>1, <2>2, <2>4, <2>5, <2>6, <2>9
  <2> QED BY <2>7, <2>8, <2>9
<1>4. Standing(t)
  BY <1>1, <1>2, LineupAssumption DEF SoundLineup, Standing, Substituted
<1>5. SlotsDistinct(t)
  BY <1>1, <1>2 DEF SoundLineup, SlotsDistinct, Substituted
<1>6. EverybodyPlays(t)
  BY <1>1, <1>2, LineupAssumption DEF SoundLineup, EverybodyPlays, Substituted
<1> QED BY <1>3, <1>4, <1>5, <1>6 DEF SoundLineup

\* What a defensive alignment does to the lineup.
Aligned(t, s, side, assign) ==
    /\ t \in State
    /\ t.active = s.active /\ t.order = s.order
    /\ t.pitcher = s.pitcher /\ t.participated = s.participated
    /\ \A p \in Players : t.position[p] =
          IF p \in DOMAIN assign THEN assign[p] ELSE s.position[p]
    /\ \A d \in Sides, q \in Positions : t.defense[d][q] =
          IF d # side THEN s.defense[d][q]
          ELSE IF \E p \in DOMAIN assign : assign[p] = q
          THEN CHOOSE p \in DOMAIN assign : assign[p] = q
          ELSE IF s.defense[d][q] \in DOMAIN assign THEN None ELSE s.defense[d][q]

LEMMA AlignmentEffect ==
  ASSUME NEW s \in State, NEW side \in Sides, NEW movers \in SUBSET Players,
         NEW assign \in [movers -> Positions]
  PROVE  Aligned(AfterAlignment(s, side, assign), s, side, assign)
<1> DEFINE rest     == Remove(s.defense[side], DOMAIN assign)
           mover(q) == CHOOSE p \in DOMAIN assign : assign[p] = q
           field    == [q \in Positions |->
                          IF \E p \in DOMAIN assign : assign[p] = q
                          THEN mover(q) ELSE rest[q]]
           defense  == [s.defense EXCEPT ![side] = field]
           position == [p \in Players |->
                          IF p \in DOMAIN assign THEN assign[p] ELSE s.position[p]]
<1>1. s.defense \in [Sides -> [Positions -> Players \cup {None}]]
  BY DEF State, Defenses
<1>2. /\ rest \in [Positions -> Players \cup {None}]
      /\ \A q \in Positions : rest[q] =
            IF s.defense[side][q] \in DOMAIN assign THEN None ELSE s.defense[side][q]
  BY <1>1, RemoveType
<1>3. field \in [Positions -> Players \cup {None}]
  <2> SUFFICES ASSUME NEW q \in Positions
               PROVE  field[q] \in Players \cup {None}
    OBVIOUS
  <2>1. CASE \E p \in DOMAIN assign : assign[p] = q
    <3>1. mover(q) \in DOMAIN assign BY <2>1
    <3> QED BY <2>1, <3>1
  <2>2. CASE ~ \E p \in DOMAIN assign : assign[p] = q
    <3> HIDE DEF rest
    <3> QED BY <1>2, <2>2
  <2> QED BY <2>1, <2>2
<1>4. position \in Placements BY DEF State, Placements
<1>5. AfterAlignment(s, side, assign)
        = [s EXCEPT !.defense = defense, !.position = position]
  BY DEF AfterAlignment
<1>6. \A q \in Positions : field[q] =
        IF \E p \in DOMAIN assign : assign[p] = q THEN mover(q) ELSE rest[q]
  OBVIOUS
<1>7. \A p \in Players : position[p] =
        IF p \in DOMAIN assign THEN assign[p] ELSE s.position[p]
  OBVIOUS
<1> HIDE DEF rest, field
<1>8. /\ defense \in [Sides -> [Positions -> Players \cup {None}]]
      /\ \A d \in Sides : defense[d] = IF d = side THEN field ELSE s.defense[d]
  BY <1>1, <1>3
<1>9. \A d \in Sides, q \in Positions : defense[d][q] =
          IF d # side THEN s.defense[d][q]
          ELSE IF \E p \in DOMAIN assign : assign[p] = q THEN mover(q)
          ELSE IF s.defense[d][q] \in DOMAIN assign THEN None ELSE s.defense[d][q]
  BY <1>2, <1>6, <1>8
<1>10. defense \in Defenses BY <1>8 DEF Defenses
<1> HIDE DEF defense, position
<1>11. LET t == [s EXCEPT !.defense = defense, !.position = position]
       IN  /\ t \in State /\ t.active = s.active /\ t.order = s.order
           /\ t.pitcher = s.pitcher /\ t.participated = s.participated
           /\ t.defense = defense /\ t.position = position
  BY <1>4, <1>10 DEF State
<1> QED BY <1>5, <1>7, <1>9, <1>11 DEF Aligned

\* An alignment keeps the lineup sound.
LEMMA AlignmentSound ==
  ASSUME NEW s \in State, NEW side \in Sides,
         NEW movers \in SUBSET {p \in s.active : Team[p] = side},
         NEW assign \in [movers -> Positions], NEW t,
         Aligned(t, s, side, assign), CanAlign(s, side, assign), SoundLineup(s)
  PROVE  SoundLineup(t)
<1>1. s.active \subseteq Players /\ s.pitcher \in [Sides -> Players]
  BY DEF State, Mounds
<1>2. s.defense[side] \in [Positions -> Players \cup {None}]
  BY DEF State, Defenses
<1>3. \A q \in Positions : Remove(s.defense[side], DOMAIN assign)[q] =
        IF s.defense[side][q] \in DOMAIN assign THEN None ELSE s.defense[side][q]
  BY <1>2, RemoveType
<1>4. /\ \A p, q \in movers : assign[p] = assign[q] => p = q
      /\ \A p \in movers : Remove(s.defense[side], DOMAIN assign)[assign[p]] = None
      /\ \/ \E p \in movers : assign[p] = "PITCHER" /\ p = s.pitcher[side]
         \/ Remove(s.defense[side], DOMAIN assign)["PITCHER"] = s.pitcher[side]
  BY DEF CanAlign
<1>5. DefenseMatches(t)
  <2> SUFFICES ASSUME NEW d \in Sides, NEW q \in Positions, NEW p \in Players
               PROVE  t.defense[d][q] = p
                        <=> p \in t.active /\ Team[p] = d /\ t.position[p] = q
    BY DEF DefenseMatches
  <2>1. s.defense[d][q] = p <=> p \in s.active /\ Team[p] = d /\ s.position[p] = q
    BY DEF SoundLineup, DefenseMatches
  <2>2. t.active = s.active BY DEF Aligned
  <2>3. t.position[p] = IF p \in movers THEN assign[p] ELSE s.position[p]
    BY DEF Aligned
  <2>4. None # p BY LineupAssumption
  <2>5. CASE d # side
    <3>1. t.defense[d][q] = s.defense[d][q] BY <2>5 DEF Aligned
    <3> QED BY <2>1, <2>2, <2>3, <2>5, <3>1
  <2>6. CASE d = side /\ \E m \in movers : assign[m] = q
    <3>1. PICK m \in movers : assign[m] = q BY <2>6
    <3>2. t.defense[d][q] = CHOOSE x \in DOMAIN assign : assign[x] = q
      BY <2>6 DEF Aligned
    <3>3. (CHOOSE x \in DOMAIN assign : assign[x] = q) = m BY <1>4, <3>1
    <3>4. t.defense[d][q] = m BY <3>2, <3>3
    <3>5. s.defense[side][q] \in movers \cup {None} BY <1>3, <1>4, <3>1
    <3>6. CASE p \in movers
      BY <1>4, <2>2, <2>3, <2>6, <3>1, <3>4, <3>6
    <3>7. CASE p \notin movers
      BY <2>1, <2>2, <2>3, <2>4, <2>6, <3>1, <3>4, <3>5, <3>7
    <3> QED BY <3>6, <3>7
  <2>7. CASE d = side /\ ~ \E m \in movers : assign[m] = q
    <3>1. t.defense[d][q] =
            IF s.defense[d][q] \in movers THEN None ELSE s.defense[d][q]
      BY <2>7 DEF Aligned
    <3>2. CASE p \in movers
      BY <2>3, <2>4, <2>7, <3>1, <3>2
    <3>3. CASE p \notin movers
      BY <2>1, <2>2, <2>3, <2>4, <3>1, <3>3
    <3> QED BY <3>2, <3>3
  <2> QED BY <2>5, <2>6, <2>7
<1>6. Standing(t)
  <2> SUFFICES ASSUME NEW d \in Sides
               PROVE  t.position[t.pitcher[d]] = "PITCHER"
    BY DEF Standing, SoundLineup, Aligned
  <2> DEFINE ace == s.pitcher[d]
  <2>1. /\ ace \in Players /\ ace \in s.active /\ Team[ace] = d
        /\ s.position[ace] = "PITCHER" /\ t.pitcher[d] = ace
    BY <1>1 DEF SoundLineup, Standing, Aligned
  <2>2. t.position[ace] = IF ace \in movers THEN assign[ace] ELSE s.position[ace]
    BY <2>1 DEF Aligned
  <2>3. CASE ace \notin movers
    BY <2>1, <2>2, <2>3
  <2>4. CASE ace \in movers
    <3>1. d = side BY <2>1, <2>4
    <3>2. s.defense[side]["PITCHER"] = ace
      BY <2>1, <3>1, LineupAssumption DEF SoundLineup, DefenseMatches
    <3>3. Remove(s.defense[side], DOMAIN assign)["PITCHER"] = None
      BY <1>3, <2>4, <3>2, LineupAssumption
    <3>4. \E p \in movers : assign[p] = "PITCHER" /\ p = ace
      BY <1>4, <2>1, <3>1, <3>3, LineupAssumption
    <3> QED BY <2>1, <2>2, <3>4
  <2> QED BY <2>3, <2>4
<1>7. SlotsDistinct(t) BY DEF SoundLineup, SlotsDistinct, Aligned
<1>8. EverybodyPlays(t)
  BY <1>1, LineupAssumption DEF SoundLineup, EverybodyPlays, Aligned
<1> QED BY <1>5, <1>6, <1>7, <1>8 DEF SoundLineup

\* What a pitching change does to the lineup: a reliever from the field trades
\* places with the pitcher, any other reliever replaces him.
Trades(s, in) == in \in s.active /\ s.position[in] # None
Relieved(t, s, side, in) ==
    LET out == s.pitcher[side]
    IN  /\ t \in State
        /\ t.active = (IF Trades(s, in) THEN s.active ELSE s.active \ {out}) \cup {in}
        /\ \A p \in Players : t.position[p] =
              IF p = in THEN "PITCHER"
              ELSE IF p = out THEN IF Trades(s, in) THEN s.position[in] ELSE None
              ELSE s.position[p]
        /\ \A p \in Players : t.order[p] =
              IF p = in /\ in \notin s.active THEN s.order[out] ELSE s.order[p]
        /\ \A d \in Sides : t.pitcher[d] = IF d = side THEN in ELSE s.pitcher[d]
        /\ \A d \in Sides, q \in Positions : t.defense[d][q] =
              IF d # side THEN s.defense[d][q]
              ELSE IF q = "PITCHER" THEN in
              ELSE IF Trades(s, in) /\ q = s.position[in] THEN out
              ELSE IF s.defense[d][q] \in {out, in} THEN None ELSE s.defense[d][q]

LEMMA PitchingChangeEffect ==
  ASSUME NEW s \in State, NEW side \in Sides, NEW in \in Players
  PROVE  Relieved(AfterPitchingChange(s, side, in), s, side, in)
<1> DEFINE out      == s.pitcher[side]
           trades   == Trades(s, in)
           active   == (IF trades THEN s.active ELSE s.active \ {out}) \cup {in}
           vacated  == IF trades THEN s.position[in] ELSE None
           position == [[s.position EXCEPT ![out] = vacated] EXCEPT ![in] = "PITCHER"]
           order    == [s.order EXCEPT ![in] = SlotTaken(s, out, in)]
           part     == IF in \notin s.active THEN s.participated \cup {in}
                       ELSE s.participated
           pitcher  == [s.pitcher EXCEPT ![side] = in]
           rest     == Remove(s.defense[side], {out, in})
           field    == IF trades THEN [rest EXCEPT ![s.position[in]] = out] ELSE rest
           mound    == [field EXCEPT !["PITCHER"] = in]
           defense  == [s.defense EXCEPT ![side] = mound]
<1>1. out \in Players BY DEF State, Mounds
<1>2. active \in SUBSET Players /\ part \in SUBSET Players BY DEF State
<1>3. s.position \in [Players -> Positions \cup {None}] BY DEF State, Placements
<1>4. vacated \in Positions \cup {None} /\ "PITCHER" \in Positions
  BY <1>3, LineupAssumption
<1>5. /\ position \in Placements
      /\ \A p \in Players : position[p] =
            IF p = in THEN "PITCHER" ELSE IF p = out THEN vacated ELSE s.position[p]
  <2> HIDE DEF vacated, out
  <2> QED BY <1>1, <1>3, <1>4 DEF Placements
<1>6. /\ order \in Orders
      /\ \A p \in Players : order[p] =
            IF p = in /\ in \notin s.active THEN s.order[out] ELSE s.order[p]
  BY <1>1 DEF SlotTaken, State, Orders
<1>7. /\ pitcher \in Mounds
      /\ \A d \in Sides : pitcher[d] = IF d = side THEN in ELSE s.pitcher[d]
  BY DEF State, Mounds
<1>8. /\ defense \in Defenses
      /\ \A d \in Sides, q \in Positions : defense[d][q] =
            IF d # side THEN s.defense[d][q]
            ELSE IF q = "PITCHER" THEN in
            ELSE IF trades /\ q = s.position[in] THEN out
            ELSE IF s.defense[d][q] \in {out, in} THEN None ELSE s.defense[d][q]
  <2>1. s.defense \in [Sides -> [Positions -> Players \cup {None}]]
    BY DEF State, Defenses
  <2>2. /\ rest \in [Positions -> Players \cup {None}]
        /\ \A q \in Positions :
              rest[q] = IF s.defense[side][q] \in {out, in} THEN None
                        ELSE s.defense[side][q]
    BY <2>1, RemoveType
  <2> HIDE DEF rest
  <2>3. /\ field \in [Positions -> Players \cup {None}]
        /\ \A q \in Positions :
              field[q] = IF trades /\ q = s.position[in] THEN out ELSE rest[q]
    BY <1>1, <2>2
  <2> HIDE DEF field
  <2>4. /\ mound \in [Positions -> Players \cup {None}]
        /\ \A q \in Positions : mound[q] = IF q = "PITCHER" THEN in ELSE field[q]
    BY <2>3
  <2> HIDE DEF mound
  <2>5. /\ defense \in [Sides -> [Positions -> Players \cup {None}]]
        /\ \A d \in Sides : defense[d] = IF d = side THEN mound ELSE s.defense[d]
    BY <2>1, <2>4
  <2> HIDE DEF defense
  <2> QED BY <2>2, <2>3, <2>4, <2>5 DEF Defenses
<1>9. AfterPitchingChange(s, side, in) =
        [s EXCEPT !.active = active, !.position = position, !.order = order,
                  !.participated = part, !.pitcher = pitcher, !.defense = defense]
  BY DEF AfterPitchingChange, Trades
<1>10. active = (IF trades THEN s.active ELSE s.active \ {out}) \cup {in}
  OBVIOUS
<1> HIDE DEF active, position, order, part, pitcher, defense
<1>11. LET t == [s EXCEPT !.active = active, !.position = position, !.order = order,
                   !.participated = part, !.pitcher = pitcher, !.defense = defense]
       IN  /\ t \in State /\ t.active = active /\ t.position = position
           /\ t.order = order /\ t.pitcher = pitcher /\ t.defense = defense
  BY <1>2, <1>5, <1>6, <1>7, <1>8 DEF State
<1> QED BY <1>5, <1>6, <1>7, <1>8, <1>9, <1>10, <1>11 DEF Relieved

\* A pitching change keeps the lineup sound.
LEMMA PitchingChangeSound ==
  ASSUME NEW s \in State, NEW side \in Sides, NEW in \in Players, NEW t,
         Relieved(t, s, side, in), CanChangePitcher(s, side, in), SoundLineup(s)
  PROVE  SoundLineup(t)
<1> DEFINE out == s.pitcher[side]
<1>1. /\ out \in Players /\ out \in s.active /\ Team[out] = side
      /\ s.position[out] = "PITCHER" /\ Team[in] = side /\ in # out
  BY DEF CanChangePitcher, SoundLineup, Standing, State, Mounds
<1>2. /\ s.active \subseteq Players /\ s.pitcher \in [Sides -> Players]
      /\ s.position \in [Players -> Positions \cup {None}]
  BY DEF State, Mounds, Placements
<1>3. s.defense[side]["PITCHER"] = out
  BY <1>1, LineupAssumption DEF SoundLineup, DefenseMatches
<1>4. in \in s.active => s.position[in] # "PITCHER"
  BY <1>1, <1>3, LineupAssumption DEF SoundLineup, DefenseMatches
<1>5. DefenseMatches(t)
  <2> SUFFICES ASSUME NEW d \in Sides, NEW q \in Positions, NEW p \in Players
               PROVE  t.defense[d][q] = p
                        <=> p \in t.active /\ Team[p] = d /\ t.position[p] = q
    BY DEF DefenseMatches
  <2>1. s.defense[d][q] = p <=> p \in s.active /\ Team[p] = d /\ s.position[p] = q
    BY DEF SoundLineup, DefenseMatches
  <2>2. s.defense[d][q] = in <=> in \in s.active /\ Team[in] = d /\ s.position[in] = q
    BY DEF SoundLineup, DefenseMatches
  <2>3. t.active = (IF Trades(s, in) THEN s.active ELSE s.active \ {out}) \cup {in}
    BY DEF Relieved
  <2>4. t.position[p] =
          IF p = in THEN "PITCHER"
          ELSE IF p = out THEN IF Trades(s, in) THEN s.position[in] ELSE None
          ELSE s.position[p]
    BY DEF Relieved
  <2>5. t.defense[d][q] =
          IF d # side THEN s.defense[d][q]
          ELSE IF q = "PITCHER" THEN in
          ELSE IF Trades(s, in) /\ q = s.position[in] THEN out
          ELSE IF s.defense[d][q] \in {out, in} THEN None ELSE s.defense[d][q]
    BY DEF Relieved
  <2>6. None # p /\ None # q /\ None # in BY LineupAssumption
  <2>7. CASE d # side
    BY <1>1, <2>1, <2>3, <2>4, <2>5, <2>7
  <2>8. CASE d = side /\ q = "PITCHER"
    <3>1. s.position[p] = "PITCHER" /\ p \in s.active /\ Team[p] = side => p = out
      BY <1>3, <2>1, <2>8
    <3> HIDE DEF out
    <3> QED BY <1>1, <1>4, <2>3, <2>4, <2>5, <2>6, <2>8, <3>1 DEF Trades
  <2>9. CASE d = side /\ q # "PITCHER" /\ Trades(s, in) /\ q = s.position[in]
    <3>1. s.position[p] = q /\ p \in s.active /\ Team[p] = side => p = in
      BY <1>1, <2>1, <2>2, <2>9 DEF Trades
    <3> HIDE DEF out
    <3> QED BY <1>1, <2>3, <2>4, <2>5, <2>9, <3>1 DEF Trades
  <2>10. CASE d = side /\ q # "PITCHER" /\ ~(Trades(s, in) /\ q = s.position[in])
    <3> HIDE DEF out
    <3> QED BY <1>1, <2>1, <2>2, <2>3, <2>4, <2>5, <2>6, <2>10 DEF Trades
  <2> QED BY <2>7, <2>8, <2>9, <2>10
<1>6. Standing(t)
  <2> SUFFICES ASSUME NEW d \in Sides
               PROVE  /\ t.pitcher[d] \in t.active /\ Team[t.pitcher[d]] = d
                      /\ t.position[t.pitcher[d]] = "PITCHER"
    BY DEF Standing
  <2>1. s.pitcher[d] \in s.active /\ Team[s.pitcher[d]] = d
        /\ s.position[s.pitcher[d]] = "PITCHER"
    BY DEF SoundLineup, Standing
  <2>2. CASE d = side BY <1>1, <2>2 DEF Relieved
  <2>3. CASE d # side BY <1>1, <1>2, <2>1, <2>3 DEF Relieved
  <2> QED BY <2>2, <2>3
<1>7. SlotsDistinct(t)
  <2> SUFFICES ASSUME NEW p \in t.active, NEW q \in t.active, Team[p] = Team[q],
                      t.order[p] = t.order[q], t.order[p] # 0
               PROVE  p = q
    BY DEF SlotsDistinct
  <2>1. p \in Players /\ q \in Players BY DEF Relieved, State
  <2>2. \A x, y \in s.active :
          Team[x] = Team[y] /\ s.order[x] = s.order[y] /\ s.order[x] # 0 => x = y
    BY DEF SoundLineup, SlotsDistinct
  <2>3. /\ t.active = (IF Trades(s, in) THEN s.active ELSE s.active \ {out}) \cup {in}
        /\ t.order[p] = IF p = in /\ in \notin s.active THEN s.order[out] ELSE s.order[p]
        /\ t.order[q] = IF q = in /\ in \notin s.active THEN s.order[out] ELSE s.order[q]
    BY <2>1 DEF Relieved
  <2> HIDE DEF out
  <2>4. CASE in \in s.active BY <2>2, <2>3, <2>4
  <2>5. CASE in \notin s.active BY <1>1, <2>2, <2>3, <2>5 DEF Trades
  <2> QED BY <2>4, <2>5
<1>8. EverybodyPlays(t)
  <2> SUFFICES ASSUME NEW p \in t.active
               PROVE  t.order[p] # 0 \/ t.position[p] # None
    BY DEF EverybodyPlays
  <2>1. p \in Players BY DEF Relieved, State
  <2>2. p \in s.active => s.order[p] # 0 \/ s.position[p] # None
    BY DEF SoundLineup, EverybodyPlays
  <2> QED BY <1>1, <2>1, <2>2, LineupAssumption DEF Relieved, Trades
<1> QED BY <1>5, <1>6, <1>7, <1>8 DEF SoundLineup

-----------------------------------------------------------------------------
(* Who is where after a play *)

\* How a play moves the runners of a state: every origin is a runner's base or
\* the plate, and the reducer found the movements legal.
Moves(s, batter, to, counts) ==
    /\ DOMAIN to \subseteq Occupied(s) \cup {"BATTER"}
    /\ \A o \in DOMAIN to : to[o] \in Destinations
    /\ "BATTER" \in DOMAIN to => batter \in Players
    /\ \E thirdForce \in BOOLEAN : LegalMovements(s, batter, to, counts, thirdForce)

LEMMA MovesOrigins ==
  ASSUME NEW s \in State, NEW batter, NEW to, NEW counts, Moves(s, batter, to, counts)
  PROVE  /\ DOMAIN to \subseteq Bases \cup {"BATTER"}
         /\ Entered(s, batter, to, counts)
         /\ \A o \in DOMAIN to : RunnerFrom(s, batter, o) \in Players
         /\ \A o, q \in DOMAIN to : RunnerFrom(s, batter, o) = RunnerFrom(s, batter, q) => o = q
         /\ \A o, q \in Safe(to) : to[o] = to[q] => o = q
         /\ \A o \in Safe(to) : s.bases[to[o]] = None \/ to[o] \in DOMAIN to
<1>1. DOMAIN to \subseteq Bases \cup {"BATTER"} BY DEF Moves, Occupied
<1>2. Entered(s, batter, to, counts)
  BY <1>1 DEF Moves, LegalMovements, Entered, Home
<1>3. \A o \in DOMAIN to : RunnerFrom(s, batter, o) \in Players
  BY DEF Moves, RunnerFrom, Occupied, State, Diamonds, Bases
<1> QED BY <1>1, <1>2, <1>3 DEF Moves, LegalMovements, DestinationsFree

\* Every runner of a play ends out, at home or on a base, and those who are not
\* part of it stay.
LEMMA PlayKeepsCount ==
  ASSUME NEW s \in State, NEW batter, NEW to, NEW counts, Moves(s, batter, to, counts)
  PROVE  /\ Cardinality(Outs(to)) \in Nat /\ Cardinality(Home(to)) \in Nat
         /\ Cardinality(Occupied(s)) \in Nat
         /\ Cardinality(Occupied(AfterMovements(s, batter, to, counts)))
              = Cardinality(Occupied(s)) + (IF "BATTER" \in DOMAIN to THEN 1 ELSE 0)
                  - Cardinality(Outs(to)) - Cardinality(Home(to))
<1> DEFINE D == DOMAIN to
           landed == {to[o] : o \in Safe(to)}
           stayed == Occupied(s) \ D
           moved  == Occupied(s) \cap D
<1>1. /\ D \subseteq Occupied(s) \cup {"BATTER"} /\ Occupied(s) \subseteq Bases
      /\ "BATTER" \notin Bases
  BY DEF Moves, Occupied, Bases
<1>2. /\ IsFiniteSet(D) /\ IsFiniteSet(Occupied(s)) /\ IsFiniteSet(Outs(to))
      /\ IsFiniteSet(Home(to)) /\ IsFiniteSet(Safe(to)) /\ IsFiniteSet(landed)
  BY <1>1, OriginsFinite DEF Outs, Home, Safe
<1>3. Cardinality(D) = Cardinality(Outs(to)) + Cardinality(Home(to)) + Cardinality(Safe(to))
  <2>1. /\ D = (Outs(to) \cup Home(to)) \cup Safe(to)
        /\ Outs(to) \cap Home(to) = {} /\ (Outs(to) \cup Home(to)) \cap Safe(to) = {}
    BY DEF Moves, Destinations, Outs, Home, Safe, Bases
  <2>2. Cardinality({}) = 0 BY FS_EmptySet
  <2>3. /\ IsFiniteSet(Outs(to) \cup Home(to))
        /\ Cardinality(Outs(to) \cup Home(to)) = Cardinality(Outs(to)) + Cardinality(Home(to)) - 0
    BY <1>2, <2>1, <2>2, FS_Union
  <2>4. Cardinality(D) = Cardinality(Outs(to) \cup Home(to)) + Cardinality(Safe(to)) - 0
    BY <1>2, <2>1, <2>2, <2>3, FS_Union
  <2>5. /\ Cardinality(Outs(to)) \in Nat /\ Cardinality(Home(to)) \in Nat
        /\ Cardinality(Safe(to)) \in Nat
    BY <1>2, FS_CardinalityType
  <2> QED BY <2>3, <2>4, <2>5
<1>4. Cardinality(D) = Cardinality(moved) + (IF "BATTER" \in D THEN 1 ELSE 0)
  <2>1. IsFiniteSet(moved) BY <1>2, FS_Intersection
  <2>2. D = IF "BATTER" \in D THEN moved \cup {"BATTER"} ELSE moved BY <1>1
  <2>3. "BATTER" \notin moved BY <1>1
  <2>4. Cardinality(moved) \in Nat BY <2>1, FS_CardinalityType
  <2>5. Cardinality(moved \cup {"BATTER"}) = Cardinality(moved) + 1
    BY <2>1, <2>3, FS_AddElement
  <2> QED BY <2>2, <2>4, <2>5
<1>5. IsFiniteSet(stayed) /\ Cardinality(stayed) = Cardinality(Occupied(s)) - Cardinality(moved)
  BY <1>2, FS_Difference
<1>6. Cardinality(landed) = Cardinality(Safe(to))
  <2> DEFINE f == [o \in Safe(to) |-> to[o]]
  <2>1. f \in Bijection(Safe(to), landed)
    BY MovesOrigins DEF Bijection, Injection, Surjection, IsInjective
  <2>2. ExistsBijection(Safe(to), landed) BY <2>1 DEF ExistsBijection
  <2> QED BY <1>2, <2>2, FS_Bijection
<1>7. landed \cap stayed = {}
  BY MovesOrigins DEF Occupied
<1>8. Occupied(AfterMovements(s, batter, to, counts)) = landed \cup stayed
  <2>1. AfterMovements(s, batter, to, counts).bases = BasesAfter(s, batter, to)
    BY DEF AfterMovements, State
  <2>2. ASSUME NEW b \in Bases
        PROVE  BasesAfter(s, batter, to)[b] # None <=> b \in landed \cup stayed
    <3>1. CASE b \in landed
      <4> DEFINE o == CHOOSE o \in Safe(to) : to[o] = b
      <4>1. o \in Safe(to) BY <3>1
      <4>2. o \in DOMAIN to BY <4>1 DEF Safe
      <4>3. BasesAfter(s, batter, to)[b] = RunnerFrom(s, batter, o)
        BY <3>1 DEF BasesAfter
      <4> HIDE DEF o
      <4>4. RunnerFrom(s, batter, o) \in Players BY <4>2, MovesOrigins
      <4> QED BY <3>1, <4>3, <4>4, LineupAssumption
    <3>2. CASE b \notin landed
      <4>1. ~ \E o \in Safe(to) : to[o] = b BY <3>2
      <4>2. BasesAfter(s, batter, to)[b] = IF b \in D THEN None ELSE s.bases[b]
        BY <4>1 DEF BasesAfter, LeftBehind
      <4> QED BY <3>2, <4>2 DEF Occupied
    <3> QED BY <3>1, <3>2
  <2>3. landed \subseteq Bases BY DEF Safe
  <2> HIDE DEF landed, stayed
  <2>4. stayed \subseteq Bases BY <1>1 DEF stayed
  <2> QED BY <2>1, <2>2, <2>3, <2>4 DEF Occupied
<1>9. Cardinality(landed \cup stayed) = Cardinality(landed) + Cardinality(stayed)
  <2>1. Cardinality({}) = 0 BY FS_EmptySet
  <2>2. /\ Cardinality(landed) \in Nat /\ Cardinality(stayed) \in Nat
    BY <1>2, <1>5, FS_CardinalityType
  <2>3. Cardinality(landed \cup stayed) = Cardinality(landed) + Cardinality(stayed) - 0
    BY <1>2, <1>5, <1>7, <2>1, FS_Union
  <2> QED BY <2>2, <2>3
<1>10. /\ Cardinality(Outs(to)) \in Nat /\ Cardinality(Home(to)) \in Nat
       /\ Cardinality(Occupied(s)) \in Nat /\ Cardinality(moved) \in Nat
       /\ Cardinality(Safe(to)) \in Nat
  BY <1>2, FS_CardinalityType, FS_Intersection
<1> HIDE DEF landed, stayed, moved, D
<1> QED BY <1>3, <1>4, <1>5, <1>6, <1>8, <1>9, <1>10 DEF D

\* Every runner stands on one base, and the batter on none.
OneBase(s) == \A b, c \in Occupied(s) : s.bases[b] = s.bases[c] => b = c
Apart(s, batter, to) == "BATTER" \in DOMAIN to => batter \notin Runners(s)

\* The origins whose runners are on a base after the play, and which base.
Keep(s, to)  == Safe(to) \cup (Occupied(s) \ DOMAIN to)
Place(to, o) == IF o \in DOMAIN to THEN to[o] ELSE o

\* Where the movements of a play may go: bases that are free or left, no two to one.
Lands(s, batter, to) ==
    /\ DOMAIN to \subseteq Occupied(s) \cup {"BATTER"}
    /\ \A o \in DOMAIN to : to[o] \in Destinations
    /\ "BATTER" \in DOMAIN to => batter \in Players
    /\ \A o, q \in Safe(to) : to[o] = to[q] => o = q
    /\ \A o \in Safe(to) : s.bases[to[o]] = None \/ to[o] \in DOMAIN to

LEMMA LandedRunners ==
  ASSUME NEW s \in State, NEW batter, NEW to, Lands(s, batter, to),
         OneBase(s), Apart(s, batter, to)
  PROVE  /\ Keep(s, to) \subseteq Occupied(s) \cup {"BATTER"}
         /\ \A o \in Keep(s, to) :
              /\ Place(to, o) \in Bases /\ RunnerFrom(s, batter, o) \in Players
              /\ BasesAfter(s, batter, to)[Place(to, o)] = RunnerFrom(s, batter, o)
         /\ \A o, q \in Keep(s, to) :
              /\ Place(to, o) = Place(to, q) => o = q
              /\ RunnerFrom(s, batter, o) = RunnerFrom(s, batter, q) => o = q
         /\ \A b \in Bases : BasesAfter(s, batter, to)[b] # None =>
              \E o \in Keep(s, to) : b = Place(to, o)
<1> DEFINE D == DOMAIN to
           after == BasesAfter(s, batter, to)
<1>1. /\ D \subseteq Occupied(s) \cup {"BATTER"} /\ Occupied(s) \subseteq Bases
      /\ "BATTER" \notin Bases /\ Safe(to) \subseteq D
      /\ \A o \in Safe(to) : to[o] \in Bases
  BY DEF Lands, Occupied, Bases, Safe
<1>2. /\ \A o \in D : RunnerFrom(s, batter, o) \in Players
      /\ \A o, q \in Safe(to) : to[o] = to[q] => o = q
      /\ \A o \in Safe(to) : s.bases[to[o]] = None \/ to[o] \in D
  BY <1>1 DEF Lands, RunnerFrom, Occupied, State, Diamonds
<1>3. ASSUME NEW o \in Keep(s, to), NEW q \in Keep(s, to), Place(to, o) = Place(to, q)
      PROVE  o = q
  BY <1>1, <1>2, <1>3 DEF Keep, Place, Occupied
<1>4. ASSUME NEW o \in Keep(s, to)
      PROVE  Place(to, o) \in Bases /\ RunnerFrom(s, batter, o) \in Players
  BY <1>1, <1>2 DEF Keep, Place, RunnerFrom, Occupied, State, Diamonds
<1>5. ASSUME NEW o \in Keep(s, to) PROVE after[Place(to, o)] = RunnerFrom(s, batter, o)
  <2>1. CASE o \in Safe(to)
    <3> DEFINE q == CHOOSE q \in Safe(to) : to[q] = to[o]
    <3>1. q \in Safe(to) /\ to[q] = to[o] BY <2>1
    <3>2. q = o BY <1>2, <2>1, <3>1
    <3>3. after[to[o]] = RunnerFrom(s, batter, q) BY <1>1, <2>1 DEF BasesAfter
    <3> HIDE DEF q
    <3> QED BY <1>1, <2>1, <3>2, <3>3 DEF Place
  <2>2. CASE o \in Occupied(s) \ D
    <3>1. ~ \E q \in Safe(to) : to[q] = o BY <1>2, <2>2 DEF Occupied
    <3>2. after[o] = s.bases[o] BY <1>1, <2>2, <3>1 DEF BasesAfter, LeftBehind
    <3> QED BY <1>1, <2>2, <3>2 DEF Place, RunnerFrom
  <2> QED BY <2>1, <2>2 DEF Keep
<1>6. ASSUME NEW o \in Keep(s, to), NEW q \in Keep(s, to),
             RunnerFrom(s, batter, o) = RunnerFrom(s, batter, q)
      PROVE  o = q
  BY <1>1, <1>6 DEF Keep, RunnerFrom, OneBase, Apart, Runners
<1>7. ASSUME NEW b \in Bases, after[b] # None PROVE \E o \in Keep(s, to) : b = Place(to, o)
  <2>1. CASE \E o \in Safe(to) : to[o] = b
    BY <1>1, <2>1 DEF Keep, Place
  <2>2. CASE ~ \E o \in Safe(to) : to[o] = b
    <3>1. after[b] = IF b \in D THEN None ELSE s.bases[b]
      BY <2>2 DEF BasesAfter, LeftBehind
    <3>2. b \in Occupied(s) \ D BY <1>7, <3>1 DEF Occupied
    <3> QED BY <3>2 DEF Keep, Place
  <2> QED BY <2>1, <2>2
<1>8. Keep(s, to) \subseteq Occupied(s) \cup {"BATTER"} BY <1>1 DEF Keep
<1> QED BY <1>3, <1>4, <1>5, <1>6, <1>7, <1>8

LEMMA MovesLand ==
  ASSUME NEW s \in State, NEW batter, NEW to, NEW counts, Moves(s, batter, to, counts)
  PROVE  Lands(s, batter, to)
<1>1. /\ \A o, q \in Safe(to) : to[o] = to[q] => o = q
      /\ \A o \in Safe(to) : s.bases[to[o]] = None \/ to[o] \in DOMAIN to
  BY MovesOrigins
<1>2. /\ DOMAIN to \subseteq Occupied(s) \cup {"BATTER"}
      /\ \A o \in DOMAIN to : to[o] \in Destinations
      /\ "BATTER" \in DOMAIN to => batter \in Players
  BY DEF Moves
<1> QED BY <1>1, <1>2 DEF Lands

LEMMA KeptRunners ==
  ASSUME NEW s \in State, NEW batter, NEW to, NEW counts, Moves(s, batter, to, counts),
         OneBase(s), Apart(s, batter, to)
  PROVE  /\ Keep(s, to) \subseteq Occupied(s) \cup {"BATTER"}
         /\ \A o \in Keep(s, to) :
              /\ Place(to, o) \in Bases /\ RunnerFrom(s, batter, o) \in Players
              /\ BasesAfter(s, batter, to)[Place(to, o)] = RunnerFrom(s, batter, o)
         /\ \A o, q \in Keep(s, to) :
              /\ Place(to, o) = Place(to, q) => o = q
              /\ RunnerFrom(s, batter, o) = RunnerFrom(s, batter, q) => o = q
         /\ \A b \in Bases : BasesAfter(s, batter, to)[b] # None =>
              \E o \in Keep(s, to) : b = Place(to, o)
BY MovesLand, LandedRunners

LEMMA RankOfBase ==
  ASSUME NEW bases, NEW b \in Bases, \A c \in Bases : bases[c] = bases[b] => c = b
  PROVE  RankOn(bases, bases[b]) = Rank[b]
<1>1. {c \in Bases : bases[c] = bases[b]} = {b} OBVIOUS
<1>2. Rank[b] \in Nat BY DEF Rank, Bases
<1> QED BY <1>1, <1>2 DEF RankOn

\* Each of them is known by the rank of his origin, and afterwards of his base.
LEMMA LandedRanks ==
  ASSUME NEW s \in State, NEW batter, NEW to, Lands(s, batter, to),
         OneBase(s), Apart(s, batter, to), NEW x \in Keep(s, to)
  PROVE  LET after    == BasesAfter(s, batter, to)
             start(r) == IF "BATTER" \in DOMAIN to /\ r = batter
                         THEN 0 ELSE RankOn(s.bases, r)
             known    == Runners(s) \cup (IF "BATTER" \in DOMAIN to THEN {batter} ELSE {})
             left     == {r \in known : \E b \in Bases : after[b] = r}
         IN  /\ RunnerFrom(s, batter, x) \in left
             /\ start(RunnerFrom(s, batter, x)) = Rank[x]
             /\ RankOn(after, RunnerFrom(s, batter, x)) = Rank[Place(to, x)]
<1> DEFINE after == BasesAfter(s, batter, to)
           run(r) == RunnerFrom(s, batter, r)
           start(r) == IF "BATTER" \in DOMAIN to /\ r = batter
                       THEN 0 ELSE RankOn(s.bases, r)
           known == Runners(s) \cup (IF "BATTER" \in DOMAIN to THEN {batter} ELSE {})
           left  == {r \in known : \E b \in Bases : after[b] = r}
<1>1. /\ x \in Occupied(s) \cup {"BATTER"} /\ Place(to, x) \in Bases
      /\ after[Place(to, x)] = run(x) /\ run(x) \in Players
  BY LandedRunners
<1>2. x = "BATTER" => "BATTER" \in DOMAIN to
  BY DEF Keep, Safe, Occupied, Bases
<1>3. run(x) \in known BY <1>1, <1>2 DEF RunnerFrom, Runners
<1>4. run(x) \in left BY <1>1, <1>3
<1>5. start(run(x)) = Rank[x]
  <2>1. CASE x = "BATTER"
    BY <1>2, <2>1 DEF RunnerFrom, Rank
  <2>2. CASE x # "BATTER"
    <3>1. x \in Occupied(s) /\ x \in Bases /\ run(x) = s.bases[x] /\ s.bases[x] # None
      BY <1>1, <2>2 DEF RunnerFrom, Occupied
    <3>2. ~("BATTER" \in DOMAIN to /\ run(x) = batter)
      BY <3>1 DEF Apart, Runners
    <3>3. RankOn(s.bases, s.bases[x]) = Rank[x]
      <4>1. \A c \in Bases : s.bases[c] = s.bases[x] => c = x
        BY <3>1 DEF OneBase, Occupied
      <4> QED BY <3>1, <4>1, RankOfBase
    <3> HIDE DEF run
    <3> QED BY <3>1, <3>2, <3>3
  <2> QED BY <2>1, <2>2
<1>6. RankOn(after, run(x)) = Rank[Place(to, x)]
  <2>1. ASSUME NEW c \in Bases, after[c] = after[Place(to, x)] PROVE c = Place(to, x)
    <3>1. after[c] # None BY <1>1, <2>1, LineupAssumption
    <3>2. PICK y \in Keep(s, to) : c = Place(to, y) BY <3>1, LandedRunners
    <3>3. RunnerFrom(s, batter, y) = RunnerFrom(s, batter, x)
      BY <1>1, <2>1, <3>2, LandedRunners
    <3>4. y = x BY <3>3, LandedRunners
    <3> QED BY <3>2, <3>4
  <2> HIDE DEF after
  <2>2. RankOn(after, after[Place(to, x)]) = Rank[Place(to, x)]
    BY <1>1, <2>1, RankOfBase
  <2> QED BY <1>1, <2>2
<1> QED BY <1>4, <1>5, <1>6

\* Whoever is left on a base has passed nobody.
LEMMA KeptInOrder ==
  ASSUME NEW s \in State, NEW batter, NEW to, NEW counts, Moves(s, batter, to, counts),
         OneBase(s), Apart(s, batter, to),
         NEW o \in Keep(s, to), NEW q \in Keep(s, to), Rank[o] < Rank[q]
  PROVE  Rank[Place(to, o)] < Rank[Place(to, q)]
<1> DEFINE after == BasesAfter(s, batter, to)
           run(x) == RunnerFrom(s, batter, x)
           start(r) == IF "BATTER" \in DOMAIN to /\ r = batter
                       THEN 0 ELSE RankOn(s.bases, r)
           known == Runners(s) \cup (IF "BATTER" \in DOMAIN to THEN {batter} ELSE {})
           left  == {r \in known : \E b \in Bases : after[b] = r}
<1>1. \A trail, lead \in left : start(trail) < start(lead)
        => RankOn(after, trail) < RankOn(after, lead)
  BY DEF Moves, LegalMovements, NobodyPassed
<1>2. ASSUME NEW x \in Keep(s, to)
      PROVE  /\ run(x) \in left /\ start(run(x)) = Rank[x]
             /\ RankOn(after, run(x)) = Rank[Place(to, x)]
  BY MovesLand, LandedRanks
<1> HIDE DEF run, start, left, after
<1> QED BY <1>1, <1>2

\* How many runners stand on a base or behind it.
NotAhead(bases, b) == {c \in Bases : bases[c] # None /\ Rank[c] <= Rank[b]}

\* The rule of ScoresInOrder, for the state a play is entered in.
InOrder(s, to) ==
    \A o \in Home(to) : \A b \in Occupied(s) :
        Rank[b] > Rank[o] => b \in Home(to) \cup Outs(to)

\* Everybody who was behind a runner is out, or on base and still behind him.
LEMMA KeptBehind ==
  ASSUME NEW s \in State, NEW batter, NEW to, NEW counts, Moves(s, batter, to, counts),
         OneBase(s), Apart(s, batter, to), InOrder(s, to),
         NEW q \in Keep(s, to), q # "BATTER"
  PROVE  /\ Cardinality(NotAhead(s.bases, q)) \in Nat
         /\ Cardinality(NotAhead(BasesAfter(s, batter, to), Place(to, q))) \in Nat
         /\ Cardinality(NotAhead(s.bases, q)) + (IF "BATTER" \in DOMAIN to THEN 1 ELSE 0)
              <= Cardinality(Outs(to))
                   + Cardinality(NotAhead(BasesAfter(s, batter, to), Place(to, q)))
<1> DEFINE after == NotAhead(BasesAfter(s, batter, to), Place(to, q))
           before == NotAhead(s.bases, q)
           all == before \cup (IF "BATTER" \in DOMAIN to THEN {"BATTER"} ELSE {})
           rest == all \ Outs(to)
<1>1. /\ DOMAIN to \subseteq Occupied(s) \cup {"BATTER"} /\ "BATTER" \notin Bases
      /\ Occupied(s) \subseteq Bases /\ q \in Occupied(s)
  <2>1. Keep(s, to) \subseteq Occupied(s) \cup {"BATTER"} BY KeptRunners
  <2>2. DOMAIN to \subseteq Occupied(s) \cup {"BATTER"} BY DEF Moves
  <2>3. Occupied(s) \subseteq Bases /\ "BATTER" \notin Bases BY DEF Occupied, Bases
  <2> QED BY <2>1, <2>2, <2>3
<1>2. /\ before \subseteq Occupied(s) /\ all \subseteq Bases \cup {"BATTER"}
      /\ Outs(to) \subseteq Bases \cup {"BATTER"} /\ after \subseteq Bases
  BY <1>1 DEF NotAhead, Occupied, Outs
<1>3. /\ IsFiniteSet(before) /\ IsFiniteSet(all) /\ IsFiniteSet(Outs(to)) /\ IsFiniteSet(after)
      /\ Cardinality(before) \in Nat /\ Cardinality(all) \in Nat
      /\ Cardinality(Outs(to)) \in Nat /\ Cardinality(after) \in Nat
  BY <1>1, <1>2, OriginsFinite
<1>4. Cardinality(all) = Cardinality(before) + (IF "BATTER" \in DOMAIN to THEN 1 ELSE 0)
  <2>1. "BATTER" \notin before BY <1>1, <1>2
  <2>2. Cardinality(before \cup {"BATTER"}) = Cardinality(before) + 1
    BY <1>3, <2>1, FS_AddElement
  <2>3. CASE "BATTER" \in DOMAIN to
    <3>1. all = before \cup {"BATTER"} BY <2>3
    <3> HIDE DEF all, before
    <3> QED BY <2>2, <2>3, <3>1
  <2>4. CASE "BATTER" \notin DOMAIN to
    <3>1. all = before BY <2>4
    <3> HIDE DEF all, before
    <3> QED BY <1>3, <2>4, <3>1
  <2> QED BY <2>3, <2>4
<1>5. ASSUME NEW o \in rest
      PROVE  o \in Keep(s, to) /\ (o = q \/ Rank[o] < Rank[q])
  <2>1. /\ o \in Occupied(s) \cup {"BATTER"} /\ o \notin Outs(to)
        /\ o = "BATTER" => "BATTER" \in DOMAIN to
        /\ o # "BATTER" => Rank[o] <= Rank[q]
    BY <1>1, <1>2 DEF NotAhead
  <2>2. o = q \/ Rank[o] < Rank[q]
    BY <1>1, <2>1 DEF Rank, Bases
  <2>3. o \notin Home(to)
    <3>1. q \notin Home(to) \cup Outs(to)
      BY DEF Keep, Home, Outs, Safe, Bases
    <3>2. Rank[o] < Rank[q] => Rank[q] > Rank[o]
      BY <1>1, <2>1 DEF Rank, Bases
    <3> QED BY <1>1, <2>2, <3>1, <3>2 DEF InOrder
  <2>4. o \in Keep(s, to)
    BY <2>1, <2>3 DEF Moves, Destinations, Keep, Home, Outs, Safe
  <2> QED BY <2>2, <2>4
<1>6. Cardinality(rest) <= Cardinality(after)
  <2> DEFINE f == [o \in rest |-> Place(to, o)]
  <2>1. ASSUME NEW o \in rest PROVE Place(to, o) \in after
    <3>1. /\ Place(to, o) \in Bases /\ Place(to, q) \in Bases
          /\ BasesAfter(s, batter, to)[Place(to, o)] = RunnerFrom(s, batter, o)
          /\ RunnerFrom(s, batter, o) \in Players
      BY <1>5, KeptRunners
    <3>2. Rank[Place(to, o)] <= Rank[Place(to, q)]
      <4>1. Rank[Place(to, o)] \in Nat /\ Rank[Place(to, q)] \in Nat
        BY <3>1 DEF Rank, Bases
      <4>2. CASE o = q BY <4>1, <4>2
      <4>3. CASE Rank[o] < Rank[q]
        <5>1. Rank[Place(to, o)] < Rank[Place(to, q)] BY <1>5, <4>3, KeptInOrder
        <5> QED BY <4>1, <5>1
      <4> QED BY <1>5, <4>2, <4>3
    <3> QED BY <3>1, <3>2, LineupAssumption DEF NotAhead
  <2>2. f \in Injection(rest, after)
    <3> HIDE DEF rest, after
    <3>1. \A o, x \in rest : f[o] = f[x] => o = x BY <1>5, KeptRunners
    <3> QED BY <2>1, <3>1 DEF Injection, IsInjective
  <2> HIDE DEF f, rest, after
  <2> QED BY <1>3, <2>2, FS_Injection
<1>7. Cardinality(rest) = Cardinality(all) - Cardinality(all \cap Outs(to))
  BY <1>3, FS_Difference
<1>8. Cardinality(all \cap Outs(to)) <= Cardinality(Outs(to)) /\ Cardinality(all \cap Outs(to)) \in Nat
  BY <1>3, FS_Intersection, FS_CardinalityType
<1> HIDE DEF after, before, all, rest
<1> QED BY <1>3, <1>4, <1>6, <1>7, <1>8 DEF after, before

\* A play as the reducer enters it: a plate appearance moves the batter, a
\* runner play has none.
AfterPlay(s, batter, to, counts) ==
    IF "BATTER" \in DOMAIN to THEN AfterPlateAppearance(s, batter, to, counts)
    ELSE AfterRunnerPlay(s, to, counts)

\* What a play does to the clock, the cursor and the bases: the half inning goes
\* on with everybody where he ended, or the third out clears the bases.
Played(t, s, batter, to) ==
    /\ t \in State /\ Lineup(t) = Lineup(s) /\ t.status = s.status
    /\ t.cursor = IF "BATTER" \in DOMAIN to
                  THEN [s.cursor EXCEPT ![BattingSide(s)] = NextCursor(s, BattingSide(s))]
                  ELSE s.cursor
    /\ \/ /\ s.outs + Cardinality(Outs(to)) < 3
          /\ t.outs = s.outs + Cardinality(Outs(to))
          /\ t.bases = BasesAfter(s, batter, to) /\ t.resp = RespAfter(s, batter, to)
          /\ t.half = s.half /\ t.inning = s.inning
       \/ /\ s.outs + Cardinality(Outs(to)) = 3 /\ t.outs = 0
          /\ t.bases = [b \in Bases |-> None] /\ t.resp = [p \in Players |-> None]
          /\ t.half # s.half

LEMMA PlayEffect ==
  ASSUME NEW s \in State, NEW batter, NEW to, NEW counts, Moves(s, batter, to, counts),
         "BATTER" \in DOMAIN to => Batters(s, BattingSide(s)) # {},
         "BATTER" \notin DOMAIN to => batter = None
  PROVE  Played(AfterPlay(s, batter, to, counts), s, batter, to)
<1> DEFINE moved == AfterMovements(s, batter, to, counts)
           side  == BattingSide(s)
           turn  == [s.cursor EXCEPT ![side] = NextCursor(s, side)]
           next  == IF "BATTER" \in DOMAIN to THEN [moved EXCEPT !.cursor = turn] ELSE moved
           n     == Cardinality(Outs(to))
           t     == AfterPlay(s, batter, to, counts)
<1>1. Entered(s, batter, to, counts) /\ s.outs + n <= 3 /\ n \in Nat /\ s.outs \in Nat
  <2>1. Entered(s, batter, to, counts) /\ DOMAIN to \subseteq Bases \cup {"BATTER"}
    BY MovesOrigins
  <2>2. n \in Nat BY <2>1, OriginsFinite DEF Outs
  <2>3. s.outs \in Nat BY DEF State, OutCounts
  <2> QED BY <2>1, <2>2, <2>3 DEF Entered
<1>2. /\ moved \in State /\ moved.outs = s.outs
      /\ moved.bases = BasesAfter(s, batter, to) /\ moved.resp = RespAfter(s, batter, to)
      /\ moved.half = s.half /\ moved.inning = s.inning
      /\ moved.cursor = s.cursor /\ moved.status = s.status
  BY <1>1, MovementsType DEF AfterMovements, State
<1>3. /\ next.outs = s.outs
      /\ next.bases = BasesAfter(s, batter, to) /\ next.resp = RespAfter(s, batter, to)
      /\ next.half = s.half /\ next.inning = s.inning /\ next.status = s.status
      /\ next.cursor = IF "BATTER" \in DOMAIN to THEN turn ELSE s.cursor
      /\ DOMAIN next = DOMAIN moved
  <2> HIDE DEF moved, turn
  <2> QED BY <1>2 DEF State
<1>4. t = FinishOuts(next, n)
  <2>1. CASE "BATTER" \in DOMAIN to
    <3>1. t = FinishOuts([moved EXCEPT !.cursor[side] = NextCursor(s, side)], n)
      BY <2>1 DEF AfterPlay, AfterPlateAppearance
    <3>2. [moved EXCEPT !.cursor[side] = NextCursor(s, side)] = next
      <4> HIDE DEF moved
      <4> QED BY <1>2, <2>1 DEF State
    <3> QED BY <3>1, <3>2
  <2>2. CASE "BATTER" \notin DOMAIN to
    BY <2>2 DEF AfterPlay, AfterRunnerPlay
  <2> QED BY <2>1, <2>2
<1>5. t \in State /\ Lineup(t) = Lineup(s)
  BY <1>1, PlateAppearanceType, RunnerPlayType DEF AfterPlay, Moves
<1>6. next \in State
  <2> SUFFICES ASSUME "BATTER" \in DOMAIN to PROVE [moved EXCEPT !.cursor = turn] \in State
    BY <1>2
  <2>1. t.cursor \in Tallies BY <1>5 DEF State
  <2>2. t.cursor = turn
    <3>1. [moved EXCEPT !.cursor = turn].cursor = turn
      <4> HIDE DEF moved, turn
      <4> QED BY <1>2 DEF State
    <3>2. next = [moved EXCEPT !.cursor = turn] OBVIOUS
    <3> HIDE DEF next, turn
    <3>3. FinishOuts(next, n).cursor = next.cursor
      <4>1. DOMAIN next = DOMAIN moved BY <1>3
      <4> HIDE DEF moved
      <4>2. "cursor" \in DOMAIN next BY <1>2, <4>1 DEF State
      <4> QED BY <4>2 DEF FinishOuts
    <3> QED BY <1>4, <3>1, <3>2, <3>3
  <2> HIDE DEF moved, turn, t
  <2> QED BY <1>2, <2>1, <2>2 DEF State
<1> HIDE DEF next, turn, t, moved
<1>7. t.status = next.status /\ t.cursor = next.cursor
  BY <1>4, <1>6 DEF FinishOuts, State
<1>8. CASE s.outs + n < 3
  <2>1. t = [next EXCEPT !.outs = next.outs + n]
    BY <1>1, <1>3, <1>4, <1>8 DEF FinishOuts, HalfOver
  <2>2. t.outs = s.outs + n /\ t.bases = next.bases /\ t.resp = next.resp
        /\ t.half = next.half /\ t.inning = next.inning
    BY <1>3, <1>6, <2>1 DEF State
  <2> HIDE DEF n
  <2> QED BY <1>3, <1>5, <1>7, <1>8, <2>2 DEF Played, t, turn, side, n
<1>9. CASE s.outs + n = 3
  <2>1. t = [next EXCEPT !.outs = 0, !.bases = [b \in Bases |-> None],
                         !.resp = [p \in Players |-> None],
                         !.half = IF next.half = "TOP" THEN "BOTTOM" ELSE "TOP",
                         !.inning = IF next.half = "TOP" THEN @ ELSE @ + 1]
    BY <1>1, <1>3, <1>4, <1>9 DEF FinishOuts, HalfOver
  <2>2. /\ t.outs = 0 /\ t.bases = [b \in Bases |-> None]
        /\ t.resp = [p \in Players |-> None]
        /\ t.half = IF next.half = "TOP" THEN "BOTTOM" ELSE "TOP"
    BY <1>6, <2>1 DEF State
  <2>3. t.half # s.half BY <1>3, <2>2
  <2> QED BY <1>3, <1>5, <1>7, <1>9, <2>2, <2>3 DEF Played, t, turn, side, n
<1> QED BY <1>1, <1>8, <1>9 DEF t, n

\* What a lineup change leaves alone.
Clock(s) == <<s.status, s.half, s.inning, s.outs, s.cursor>>

\* A replaced runner leaves his lowest base and the pitcher charged with him.
Replaced(t, s, out, in) ==
    LET held == {b \in Bases : s.bases[b] = out}
    IN  /\ Clock(t) = Clock(s)
        /\ held = {} => t.bases = s.bases /\ t.resp = s.resp
        /\ held # {} => /\ \E base \in held : t.bases = [s.bases EXCEPT ![base] = in]
                        /\ \A p \in Players : t.resp[p] =
                             IF p = in THEN s.resp[out]
                             ELSE IF p = out THEN None ELSE s.resp[p]

LEMMA SubstitutionReplaces ==
  ASSUME NEW s \in State, NEW side \in Sides, NEW out \in Players,
         NEW in \in Players, NEW pos \in Positions, in # out
  PROVE  Replaced(AfterSubstitution(s, side, out, in, pos), s, out, in)
<1> DEFINE position == [s.position EXCEPT ![out] = None, ![in] = pos]
           defense  == [s.defense EXCEPT ![side] = [Remove(s.defense[side], {out}) EXCEPT ![pos] = in]]
           order    == [s.order EXCEPT ![in] = s.order[out]]
           active   == (s.active \ {out}) \cup {in}
           part     == s.participated \cup {in}
           held == {b \in Bases : s.bases[b] = out}
           base == CHOOSE b \in held : \A c \in held : Rank[b] <= Rank[c]
           next == [s EXCEPT !.active = active, !.position = position, !.order = order,
                             !.participated = part, !.defense = defense]
           resp == [s.resp EXCEPT ![out] = None, ![in] = s.resp[out]]
           t    == AfterSubstitution(s, side, out, in, pos)
<1>1. t = IF held = {} THEN next
          ELSE [next EXCEPT !.bases[base] = in, !.resp = [@ EXCEPT ![out] = None, ![in] = s.resp[out]]]
  BY DEF AfterSubstitution
<1>2. held # {} => base \in held
  <2> SUFFICES ASSUME held # {} PROVE \E b \in held : \A c \in held : Rank[b] <= Rank[c]
    OBVIOUS
  <2>1. held \subseteq {"FIRST", "SECOND", "THIRD"} BY DEF Bases
  <2>2. Rank["FIRST"] = 1 /\ Rank["SECOND"] = 2 /\ Rank["THIRD"] = 3 BY DEF Rank
  <2> HIDE DEF held
  <2>3. CASE "FIRST" \in held BY <2>1, <2>2, <2>3
  <2>4. CASE "FIRST" \notin held /\ "SECOND" \in held BY <2>1, <2>2, <2>4
  <2>5. CASE held = {"THIRD"} BY <2>2, <2>5
  <2> QED BY <2>1, <2>3, <2>4, <2>5
<1> HIDE DEF position, defense, order, active, part, held, base, t
<1>3. /\ Clock(next) = Clock(s) /\ next.bases = s.bases /\ next.resp = s.resp
      /\ DOMAIN next = DOMAIN s
  BY DEF Clock, State
<1> HIDE DEF next
<1>4. CASE held = {} BY <1>1, <1>3, <1>4 DEF Replaced, held, t
<1>5. CASE held # {}
  <2>1. t = [next EXCEPT !.bases[base] = in,
                         !.resp = [@ EXCEPT ![out] = None, ![in] = s.resp[out]]]
    BY <1>1, <1>5
  <2>2. t.bases = [s.bases EXCEPT ![base] = in] /\ t.resp = resp /\ Clock(t) = Clock(next)
    BY <1>3, <2>1 DEF Clock, State
  <2>3. \A p \in Players : t.resp[p] =
          IF p = in THEN s.resp[out] ELSE IF p = out THEN None ELSE s.resp[p]
    BY <2>2 DEF State, Charges
  <2>4. base \in held BY <1>2, <1>5
  <2> HIDE DEF resp
  <2> QED BY <1>3, <1>5, <2>2, <2>3, <2>4 DEF Replaced, held, t
<1> QED BY <1>4, <1>5

LEMMA AlignmentLeaves ==
  ASSUME NEW s \in State, NEW side, NEW assign
  PROVE  LET t == AfterAlignment(s, side, assign)
         IN  Clock(t) = Clock(s) /\ t.bases = s.bases /\ t.resp = s.resp
BY DEF AfterAlignment, Clock, State

LEMMA PitchingChangeLeaves ==
  ASSUME NEW s \in State, NEW side, NEW in
  PROVE  LET t == AfterPitchingChange(s, side, in)
         IN  /\ Clock(t) = Clock(s) /\ t.bases = s.bases /\ t.resp = s.resp
             /\ t.participated = IF in \notin s.active THEN s.participated \cup {in}
                                 ELSE s.participated
BY DEF AfterPitchingChange, Clock, State

-----------------------------------------------------------------------------
(* Who is due up *)

\* Both orders run 1, 2, ... , n with at least six places, and each cursor points
\* into its order.
Turns(s, side) == Cardinality(Slots(s, side))
FullOrders(s) ==
    \A side \in Sides :
        /\ Slots(s, side) = 1 .. Turns(s, side)
        /\ Turns(s, side) \in Nat /\ Turns(s, side) >= 6
        /\ s.cursor[side] \in Nat /\ s.cursor[side] < Turns(s, side)

LEMMA BattersFinite ==
  ASSUME NEW s \in State, NEW side \in Sides
  PROVE  /\ IsFiniteSet(Batters(s, side)) /\ Batters(s, side) \subseteq Players
         /\ IsFiniteSet(Slots(s, side))
         /\ \A p \in Batters(s, side) : s.order[p] \in Nat
<1>1. IsFiniteSet(Batters(s, side)) /\ Batters(s, side) \subseteq Players
  BY LineupAssumption, FS_Subset DEF Batters, State
<1>2. IsFiniteSet(Slots(s, side))
  <2> DEFINE f == [p \in Batters(s, side) |-> s.order[p]]
  <2>1. f \in Surjection(Batters(s, side), Slots(s, side)) BY DEF Surjection, Slots
  <2> QED BY <1>1, <2>1, FS_Surjection
<1> QED BY <1>1, <1>2 DEF State, Orders

\* In a sound lineup the batters of a side are as many as its slots.
LEMMA OneBatterPerSlot ==
  ASSUME NEW s \in State, NEW side \in Sides, SlotsDistinct(s)
  PROVE  /\ Cardinality(Batters(s, side)) = Turns(s, side)
         /\ \A p, q \in Batters(s, side) : s.order[p] = s.order[q] => p = q
<1>1. \A p, q \in Batters(s, side) : s.order[p] = s.order[q] => p = q
  BY DEF SlotsDistinct, Batters
<1> DEFINE f == [p \in Batters(s, side) |-> s.order[p]]
<1>2. f \in Bijection(Batters(s, side), Slots(s, side))
  BY <1>1 DEF Slots, Bijection, Injection, Surjection, IsInjective
<1>3. ExistsBijection(Batters(s, side), Slots(s, side)) BY <1>2 DEF ExistsBijection
<1>4. Cardinality(Batters(s, side)) = Cardinality(Slots(s, side))
  BY <1>3, BattersFinite, FS_Bijection
<1> QED BY <1>1, <1>4 DEF Turns

\* The hitter due up is the batter in the slot after the cursor.
LEMMA DueUp ==
  ASSUME NEW s \in State, SlotsDistinct(s), FullOrders(s), NEW p
  PROVE  LET side == BattingSide(s)
         IN  BatterAt(s, p) <=> p \in Batters(s, side) /\ s.order[p] = s.cursor[side] + 1
<1> DEFINE side  == BattingSide(s)
           ahead == {q \in Batters(s, side) : s.order[q] < s.order[p]}
<1>1. side \in Sides BY DEF BattingSide, Sides
<1>2. SUFFICES ASSUME p \in Batters(s, side)
               PROVE  Cardinality(ahead) = s.cursor[side] <=> s.order[p] = s.cursor[side] + 1
  BY DEF BatterAt
<1>3. /\ s.order[p] \in Nat /\ s.order[p] \in 1 .. Turns(s, side) /\ Turns(s, side) \in Nat
      /\ s.cursor[side] \in Nat
  BY <1>1, <1>2, BattersFinite DEF FullOrders, Slots
<1> DEFINE n == s.order[p] - 1
           f == [q \in ahead |-> s.order[q]]
<1>4. f \in Bijection(ahead, 1 .. n)
  <2>1. \A q \in ahead : s.order[q] \in 1 .. n
    <3> SUFFICES ASSUME NEW q \in ahead PROVE s.order[q] \in 1 .. n OBVIOUS
    <3>1. s.order[q] \in Slots(s, side) /\ s.order[q] < s.order[p] BY DEF Slots
    <3>2. s.order[q] \in 1 .. Turns(s, side) BY <1>1, <3>1 DEF FullOrders
    <3> QED BY <1>3, <3>1, <3>2
  <2>2. ASSUME NEW k \in 1 .. n PROVE \E q \in ahead : s.order[q] = k
    <3>1. k \in 1 .. Turns(s, side) /\ k < s.order[p] BY <1>3
    <3>2. k \in Slots(s, side) BY <1>1, <3>1 DEF FullOrders
    <3>3. PICK q \in Batters(s, side) : k = s.order[q] BY <3>2 DEF Slots
    <3> QED BY <3>1, <3>3
  <2>3. \A q, r \in ahead : s.order[q] = s.order[r] => q = r
    BY <1>1, OneBatterPerSlot
  <2> HIDE DEF ahead, n
  <2> QED BY <2>1, <2>2, <2>3 DEF Bijection, Injection, Surjection, IsInjective
<1>5. IsFiniteSet(ahead) BY <1>1, BattersFinite, FS_Subset
<1>6. n \in Nat BY <1>3
<1>7. Cardinality(1 .. n) = n
  <2>1. Cardinality(1 .. n) = IF 1 > n THEN 0 ELSE n - 1 + 1 BY <1>6, FS_Interval
  <2> HIDE DEF n
  <2> QED BY <1>6, <2>1
<1>8. Cardinality(ahead) = n
  <2>1. ExistsBijection(ahead, 1 .. n) BY <1>4 DEF ExistsBijection
  <2> HIDE DEF ahead, n
  <2> QED BY <1>5, <1>7, <2>1, FS_Bijection
<1> HIDE DEF ahead
<1> QED BY <1>3, <1>8

\* How many turns ago a batter was last due up: the length of the order if he is
\* due up now.
Ago(cursor, turns, slot) ==
    IF slot <= cursor THEN cursor + 1 - slot ELSE cursor + 1 - slot + turns

LEMMA AgoAfterTurn ==
  ASSUME NEW cursor \in Nat, NEW turns \in Nat, cursor < turns, NEW slot \in 1 .. turns
  PROVE  LET next == (cursor + 1) % turns
         IN  /\ next \in Nat /\ next < turns
             /\ Ago(cursor, turns, slot) \in 1 .. turns
             /\ Ago(cursor, turns, slot) = turns <=> slot = cursor + 1
             /\ Ago(next, turns, slot) =
                  IF slot = cursor + 1 THEN 1 ELSE Ago(cursor, turns, slot) + 1
<1> DEFINE next == (cursor + 1) % turns
<1>1. next = IF cursor + 1 = turns THEN 0 ELSE cursor + 1
  <2>1. CASE cursor + 1 = turns BY <2>1
  <2>2. CASE cursor + 1 # turns BY <2>2
  <2> QED BY <2>1, <2>2
<1> HIDE DEF next
<1>2. next \in Nat /\ next < turns BY <1>1
<1>3. Ago(cursor, turns, slot) \in 1 .. turns BY DEF Ago
<1>4. Ago(cursor, turns, slot) = turns <=> slot = cursor + 1 BY DEF Ago
<1>5. Ago(next, turns, slot) = IF slot = cursor + 1 THEN 1 ELSE Ago(cursor, turns, slot) + 1
  BY <1>1 DEF Ago
<1> QED BY <1>2, <1>3, <1>4, <1>5 DEF next

\* Every runner stands on one base, is in the order of the side at bat and has a
\* pitcher charged with him.
RunnersCharged(s) ==
    \A b \in Occupied(s) :
        s.bases[b] \in Batters(s, BattingSide(s)) /\ s.resp[s.bases[b]] # None

\* Pitchers are charged with runners of the other side only.
ChargedAcross(s) ==
    \A p \in Players : s.resp[p] # None =>
        /\ p \in Runners(s) /\ Team[p] = BattingSide(s)
        /\ s.resp[p] \in s.participated /\ Team[s.resp[p]] = FieldingSide(s)

\* Since a runner was last due up, everybody who batted is out or is on base behind
\* him: nobody behind a runner crosses home plate before him.
TurnOf(s, b) == Ago(s.cursor[BattingSide(s)], Turns(s, BattingSide(s)), s.order[s.bases[b]])
BattedBehind(s) ==
    \A b \in Occupied(s) : TurnOf(s, b) <= s.outs + Cardinality(NotAhead(s.bases, b))

SoundRunners(s) ==
    /\ FullOrders(s) /\ s.active \subseteq s.participated
    /\ OneBase(s) /\ RunnersCharged(s) /\ ChargedAcross(s) /\ BattedBehind(s)
    /\ s.status = "READY" => Occupied(s) = {}

LEMMA BehindFew ==
  ASSUME NEW bases, NEW b \in Bases
  PROVE  Cardinality(NotAhead(bases, b)) \in 0 .. 3
<1> DEFINE S == {"FIRST", "SECOND"}
<1>1. IsFiniteSet({}) /\ Cardinality({}) = 0 BY FS_EmptySet
<1>2. IsFiniteSet({"FIRST"}) /\ Cardinality({"FIRST"}) = 1 BY FS_Singleton
<1>3. IsFiniteSet({"FIRST"} \cup {"SECOND"}) /\ Cardinality({"FIRST"} \cup {"SECOND"}) = 2
  BY <1>2, FS_AddElement
<1>4. /\ IsFiniteSet(({"FIRST"} \cup {"SECOND"}) \cup {"THIRD"})
      /\ Cardinality(({"FIRST"} \cup {"SECOND"}) \cup {"THIRD"}) = 3
  BY <1>3, FS_AddElement
<1>5. Bases = ({"FIRST"} \cup {"SECOND"}) \cup {"THIRD"} BY DEF Bases
<1>6. NotAhead(bases, b) \subseteq Bases BY DEF NotAhead
<1>7. /\ Cardinality(NotAhead(bases, b)) <= Cardinality(Bases)
      /\ Cardinality(NotAhead(bases, b)) \in Nat
  BY <1>4, <1>5, <1>6, FS_Subset, FS_CardinalityType
<1> QED BY <1>4, <1>5, <1>7

\* So with six in the order no runner is due up.
LEMMA RunnerNotDueUp ==
  ASSUME NEW s \in State, SoundLineup(s), SoundRunners(s), NEW b \in Occupied(s)
  PROVE  /\ s.order[s.bases[b]] \in 1 .. Turns(s, BattingSide(s))
         /\ TurnOf(s, b) < Turns(s, BattingSide(s))
         /\ ~BatterAt(s, s.bases[b])
<1> DEFINE side == BattingSide(s)
           slot == s.order[s.bases[b]]
<1>1. side \in Sides /\ b \in Bases BY DEF BattingSide, Sides, Occupied
<1>2. s.bases[b] \in Batters(s, side) BY DEF SoundRunners, RunnersCharged
<1>3. /\ Slots(s, side) = 1 .. Turns(s, side) /\ Turns(s, side) \in Nat /\ Turns(s, side) >= 6
      /\ s.cursor[side] \in Nat /\ s.cursor[side] < Turns(s, side)
  BY <1>1 DEF SoundRunners, FullOrders
<1>4. slot \in 1 .. Turns(s, side) BY <1>2, <1>3 DEF Slots
<1>5. Cardinality(NotAhead(s.bases, b)) \in 0 .. 3 BY <1>1, BehindFew
<1>6. s.outs \in 0 .. 2 BY DEF State, OutCounts
<1>7. TurnOf(s, b) <= s.outs + Cardinality(NotAhead(s.bases, b))
  BY DEF SoundRunners, BattedBehind
<1>8. /\ TurnOf(s, b) \in 1 .. Turns(s, side)
      /\ TurnOf(s, b) = Turns(s, side) <=> slot = s.cursor[side] + 1
  BY <1>3, <1>4, AgoAfterTurn DEF TurnOf
<1> HIDE DEF side, slot
<1>9. TurnOf(s, b) < Turns(s, side)
  BY <1>3, <1>5, <1>6, <1>7, <1>8
<1>10. slot # s.cursor[side] + 1 BY <1>3, <1>8, <1>9
<1>11. ~BatterAt(s, s.bases[b])
  BY <1>10, DueUp DEF SoundLineup, SoundRunners, side, slot
<1> QED BY <1>4, <1>9, <1>11 DEF side, slot

\* A play goes on to the next turn at bat, or leaves the turn alone.
LEMMA TurnsAfterPlay ==
  ASSUME NEW s \in State, SoundLineup(s), FullOrders(s), NEW t, NEW batter, NEW to,
         Played(t, s, batter, to)
  PROVE  /\ FullOrders(t)
         /\ \A side \in Sides : /\ Batters(t, side) = Batters(s, side)
                                /\ Turns(t, side) = Turns(s, side)
         /\ LET side == BattingSide(s)
            IN  t.cursor[side] = IF "BATTER" \in DOMAIN to
                                 THEN (s.cursor[side] + 1) % Turns(s, side)
                                 ELSE s.cursor[side]
<1> DEFINE side == BattingSide(s)
<1>1. side \in Sides BY DEF BattingSide, Sides
<1>2. \A d \in Sides : Batters(t, d) = Batters(s, d) /\ Slots(t, d) = Slots(s, d)
  BY DEF Played, Lineup, Batters, Slots
<1>3. \A d \in Sides : Turns(t, d) = Turns(s, d) BY <1>2 DEF Turns
<1>4. NextCursor(s, side) = (s.cursor[side] + 1) % Turns(s, side)
  BY <1>1, OneBatterPerSlot DEF NextCursor, SoundLineup
<1>5. \A d \in Sides : t.cursor[d] =
        IF "BATTER" \in DOMAIN to /\ d = side THEN (s.cursor[side] + 1) % Turns(s, side)
        ELSE s.cursor[d]
  BY <1>1, <1>4 DEF Played, State, Tallies
<1> HIDE DEF side
<1>6. FullOrders(t)
  <2> SUFFICES ASSUME NEW d \in Sides
               PROVE  /\ Slots(t, d) = 1 .. Turns(t, d)
                      /\ Turns(t, d) \in Nat /\ Turns(t, d) >= 6
                      /\ t.cursor[d] \in Nat /\ t.cursor[d] < Turns(t, d)
    BY DEF FullOrders
  <2>1. /\ Slots(s, d) = 1 .. Turns(s, d) /\ Turns(s, d) \in Nat /\ Turns(s, d) >= 6
        /\ s.cursor[d] \in Nat /\ s.cursor[d] < Turns(s, d)
    BY DEF FullOrders
  <2>2. /\ (s.cursor[d] + 1) % Turns(s, d) \in Nat
        /\ (s.cursor[d] + 1) % Turns(s, d) < Turns(s, d)
    <3>1. 1 \in 1 .. Turns(s, d) BY <2>1
    <3> QED BY <2>1, <3>1, AgoAfterTurn
  <2> QED BY <1>2, <1>3, <1>5, <2>1, <2>2
<1> QED BY <1>1, <1>2, <1>3, <1>5, <1>6 DEF side

\* While the half inning goes on, whoever is on base is still sound.
LEMMA PlayKeepsRunners ==
  ASSUME NEW s \in State, SoundLineup(s), SoundRunners(s),
         NEW batter, NEW to, NEW counts, Moves(s, batter, to, counts), InOrder(s, to),
         "BATTER" \in DOMAIN to => BatterAt(s, batter),
         "BATTER" \notin DOMAIN to => batter = None,
         NEW t, Played(t, s, batter, to), s.outs + Cardinality(Outs(to)) < 3
  PROVE  OneBase(t) /\ RunnersCharged(t) /\ ChargedAcross(t) /\ BattedBehind(t)
<1> DEFINE side == BattingSide(s)
<1>1. /\ t.bases = BasesAfter(s, batter, to) /\ t.resp = RespAfter(s, batter, to)
      /\ t.half = s.half /\ t.outs = s.outs + Cardinality(Outs(to))
      /\ t.participated = s.participated /\ t.order = s.order /\ t \in State
      /\ Cardinality(Outs(to)) \in Nat
  <2>1. Cardinality(Outs(to)) \in Nat BY PlayKeepsCount
  <2>2. s.outs \in Nat BY DEF State, OutCounts
  <2> QED BY <2>1, <2>2 DEF Played, Lineup
<1>2. BattingSide(t) = side /\ FieldingSide(t) = FieldingSide(s) /\ side \in Sides
  BY <1>1 DEF BattingSide, FieldingSide, Sides
<1>3. FullOrders(s) BY DEF SoundRunners
<1>4. /\ Batters(t, side) = Batters(s, side) /\ Turns(t, side) = Turns(s, side)
      /\ t.cursor[side] = IF "BATTER" \in DOMAIN to
                          THEN (s.cursor[side] + 1) % Turns(s, side) ELSE s.cursor[side]
  BY <1>2, <1>3, TurnsAfterPlay
<1>5. Apart(s, batter, to)
  <2> SUFFICES ASSUME "BATTER" \in DOMAIN to, NEW b \in Occupied(s), s.bases[b] = batter
               PROVE  FALSE
    BY DEF Apart, Runners
  <2> QED BY RunnerNotDueUp
<1>6. OneBase(s) BY DEF SoundRunners
<1> DEFINE K == Keep(s, to)
           run(o) == RunnerFrom(s, batter, o)
<1>7. /\ K \subseteq Occupied(s) \cup {"BATTER"}
      /\ \A o \in K : Place(to, o) \in Bases /\ run(o) \in Players /\ t.bases[Place(to, o)] = run(o)
      /\ \A o, q \in K : run(o) = run(q) => o = q
      /\ \A b \in Bases : t.bases[b] # None => \E o \in K : b = Place(to, o)
  BY <1>1, <1>5, <1>6, KeptRunners
<1>8. \A o \in K : o = "BATTER" => "BATTER" \in Safe(to)
  BY DEF Keep, Occupied, Bases
<1>9. OneBase(t)
  <2> SUFFICES ASSUME NEW b \in Occupied(t), NEW c \in Occupied(t), t.bases[b] = t.bases[c]
               PROVE  b = c
    BY DEF OneBase
  <2>1. PICK o \in K : b = Place(to, o) BY <1>7 DEF Occupied
  <2>2. PICK q \in K : c = Place(to, q) BY <1>7 DEF Occupied
  <2>3. run(o) = run(q) BY <1>7, <2>1, <2>2
  <2>4. o = q BY <1>7, <2>3
  <2> QED BY <2>1, <2>2, <2>4
<1>10. ASSUME NEW o \in K PROVE run(o) \notin Gone(s, batter, to)
  <2> SUFFICES ASSUME NEW x \in Outs(to) \cup Home(to), run(x) = run(o) PROVE FALSE
    BY DEF Gone
  <2>1. x \in DOMAIN to /\ x \notin Safe(to) BY DEF Outs, Home, Safe, Bases
  <2>2. CASE o \in Safe(to)
    <3>1. o \in DOMAIN to BY <2>2 DEF Safe
    <3>2. x = o BY <2>1, <3>1, MovesOrigins
    <3> QED BY <2>1, <2>2, <3>2
  <2>3. CASE o \in Occupied(s) \ DOMAIN to
    <3>1. o \in Bases /\ o # "BATTER" /\ run(o) = s.bases[o]
      BY <2>3 DEF Occupied, Bases, RunnerFrom
    <3>2. CASE x = "BATTER"
      BY <2>1, <2>3, <3>1, <3>2, <1>5 DEF Apart, Runners, RunnerFrom
    <3>3. CASE x # "BATTER"
      <4>1. x \in Occupied(s) /\ run(x) = s.bases[x] BY <2>1, <3>3 DEF Moves, RunnerFrom
      <4>2. x = o BY <1>6, <2>3, <3>1, <4>1 DEF OneBase
      <4> QED BY <2>1, <2>3, <4>2
    <3> QED BY <3>2, <3>3
  <2> QED BY <2>2, <2>3 DEF Keep
<1>11. s.pitcher[FieldingSide(s)] \in s.participated /\ Team[s.pitcher[FieldingSide(s)]] = FieldingSide(s)
       /\ s.pitcher[FieldingSide(s)] \in Players
  BY DEF SoundLineup, Standing, SoundRunners, FieldingSide, Other, Sides, State, Mounds
<1>12. ASSUME NEW o \in K PROVE run(o) \in Batters(s, side) /\ t.resp[run(o)] # None
  <2>1. CASE o = "BATTER"
    <3>1. run(o) = batter /\ BatterAt(s, batter) /\ "BATTER" \in Safe(to)
      BY <1>8, <2>1 DEF RunnerFrom, Safe
    <3>2. t.resp[batter] = s.pitcher[FieldingSide(s)]
      BY <1>1, <1>7, <1>10, <3>1 DEF RespAfter
    <3> QED BY <1>11, <3>1, <3>2, LineupAssumption DEF BatterAt
  <2>2. CASE o # "BATTER"
    <3>1. o \in Occupied(s) /\ run(o) = s.bases[o] BY <1>7, <2>2 DEF RunnerFrom
    <3>2. s.bases[o] \in Batters(s, side) /\ s.resp[s.bases[o]] # None
      BY <3>1 DEF SoundRunners, RunnersCharged
    <3>3. t.resp[run(o)] = IF "BATTER" \in Safe(to) /\ run(o) = batter
                           THEN s.pitcher[FieldingSide(s)] ELSE s.resp[run(o)]
      BY <1>1, <1>7, <1>10 DEF RespAfter
    <3> QED BY <1>11, <3>1, <3>2, <3>3, LineupAssumption
  <2> QED BY <2>1, <2>2
<1>13. RunnersCharged(t)
  <2> SUFFICES ASSUME NEW b \in Occupied(t)
               PROVE  t.bases[b] \in Batters(t, BattingSide(t)) /\ t.resp[t.bases[b]] # None
    BY DEF RunnersCharged
  <2>1. PICK o \in K : b = Place(to, o) BY <1>7 DEF Occupied
  <2>2. t.bases[b] = run(o) BY <1>7, <2>1
  <2> QED BY <1>2, <1>4, <1>12, <2>2
<1>14. ASSUME NEW o \in K PROVE run(o) \in Runners(t)
  <2>1. Place(to, o) \in Occupied(t) BY <1>7, LineupAssumption DEF Occupied
  <2> QED BY <1>7, <2>1 DEF Runners
<1>15. ChargedAcross(t)
  <2> SUFFICES ASSUME NEW p \in Players, t.resp[p] # None
               PROVE  /\ p \in Runners(t) /\ Team[p] = side
                      /\ t.resp[p] \in s.participated /\ Team[t.resp[p]] = FieldingSide(s)
    BY <1>1, <1>2 DEF ChargedAcross
  <2>1. p \notin Gone(s, batter, to) BY <1>1 DEF RespAfter
  <2>2. t.resp[p] = IF "BATTER" \in Safe(to) /\ p = batter
                    THEN s.pitcher[FieldingSide(s)] ELSE s.resp[p]
    BY <1>1, <2>1 DEF RespAfter
  <2>3. CASE "BATTER" \in Safe(to) /\ p = batter
    <3>1. "BATTER" \in K /\ run("BATTER") = p BY <2>3 DEF Keep, RunnerFrom
    <3>2. p \in Runners(t) BY <1>14, <3>1
    <3>3. p \in Batters(s, side) BY <1>12, <3>1
    <3> QED BY <1>11, <2>2, <2>3, <3>2, <3>3 DEF Batters
  <2>4. CASE ~("BATTER" \in Safe(to) /\ p = batter)
    <3>1. t.resp[p] = s.resp[p] /\ s.resp[p] # None BY <2>2, <2>4
    <3>2. /\ p \in Runners(s) /\ Team[p] = side
          /\ s.resp[p] \in s.participated /\ Team[s.resp[p]] = FieldingSide(s)
      BY <3>1 DEF SoundRunners, ChargedAcross
    <3>3. PICK b \in Occupied(s) : p = s.bases[b] BY <3>2 DEF Runners
    <3>4. b # "BATTER" /\ run(b) = p BY <3>3 DEF Occupied, Bases, RunnerFrom
    <3>5. b \in DOMAIN to => b \notin Outs(to) \cup Home(to)
      BY <2>1, <3>4 DEF Gone
    <3>6. b \in K
      BY <3>3, <3>5 DEF Moves, Destinations, Keep, Safe, Outs, Home
    <3>7. p \in Runners(t) BY <1>14, <3>4, <3>6
    <3> QED BY <3>1, <3>2, <3>7
  <2> QED BY <2>3, <2>4
<1>16. BattedBehind(t)
  <2> SUFFICES ASSUME NEW b \in Occupied(t)
               PROVE  TurnOf(t, b) <= t.outs + Cardinality(NotAhead(t.bases, b))
    BY DEF BattedBehind
  <2>1. PICK o \in K : b = Place(to, o) BY <1>7 DEF Occupied
  <2>2. t.bases[b] = run(o) BY <1>7, <2>1
  <2> DEFINE n    == Turns(s, side)
             c    == s.cursor[side]
             slot == s.order[run(o)]
             pa   == IF "BATTER" \in DOMAIN to THEN 1 ELSE 0
             next == (c + 1) % n
  <2>3. /\ n \in Nat /\ n >= 6 /\ c \in Nat /\ c < n /\ Slots(s, side) = 1 .. n
    BY <1>2, <1>3 DEF FullOrders
  <2>4. slot \in 1 .. n BY <1>12, <2>3 DEF Slots
  <2>5. TurnOf(t, b) = Ago(IF "BATTER" \in DOMAIN to THEN next ELSE c, n, slot)
    BY <1>1, <1>2, <1>4, <2>2 DEF TurnOf
  <2>6. /\ Ago(c, n, slot) \in 1 .. n
        /\ Ago(next, n, slot) = IF slot = c + 1 THEN 1 ELSE Ago(c, n, slot) + 1
        /\ Ago(c, n, slot) = n <=> slot = c + 1
    BY <2>3, <2>4, AgoAfterTurn, ZenonT(30)
  <2>7. /\ b \in Bases /\ t.bases[b] # None BY DEF Occupied
  <2>8. Cardinality(NotAhead(t.bases, b)) \in Nat /\ Cardinality(NotAhead(t.bases, b)) >= 1
    <3>1. b \in NotAhead(t.bases, b)
      <4>1. Rank[b] \in Nat BY <2>7 DEF Rank, Bases
      <4> QED BY <2>7, <4>1 DEF NotAhead
    <3>2. /\ IsFiniteSet(NotAhead(t.bases, b)) /\ Cardinality(NotAhead(t.bases, b)) \in Nat
      BY OriginsFinite DEF NotAhead
    <3>3. Cardinality(NotAhead(t.bases, b)) # 0 BY <3>1, <3>2, FS_EmptySet
    <3> QED BY <3>2, <3>3
  <2>9. s.outs \in Nat BY DEF State, OutCounts
  <2>10. CASE o = "BATTER"
    <3>1. run(o) = batter /\ BatterAt(s, batter) /\ "BATTER" \in DOMAIN to
      BY <1>8, <2>10 DEF RunnerFrom, Safe
    <3>2. slot = c + 1
      BY <1>3, <3>1, DueUp DEF SoundLineup
    <3>3. TurnOf(t, b) = 1 BY <2>5, <2>6, <3>1, <3>2
    <3> QED BY <1>1, <2>8, <2>9, <3>3
  <2>11. CASE o # "BATTER"
    <3>1. o \in Occupied(s) /\ run(o) = s.bases[o] BY <1>7, <2>11 DEF RunnerFrom
    <3>2. Ago(c, n, slot) = TurnOf(s, o) /\ TurnOf(s, o) < n
      BY <3>1, RunnerNotDueUp DEF TurnOf
    <3>3. TurnOf(s, o) <= s.outs + Cardinality(NotAhead(s.bases, o))
      BY <3>1 DEF SoundRunners, BattedBehind
    <3>4. /\ Cardinality(NotAhead(s.bases, o)) \in Nat
          /\ Cardinality(NotAhead(s.bases, o)) + pa
               <= Cardinality(Outs(to)) + Cardinality(NotAhead(t.bases, b))
      BY <1>1, <1>5, <1>6, <2>1, <2>11, KeptBehind
    <3> HIDE DEF n, c, slot, next
    <3>5. TurnOf(t, b) = Ago(c, n, slot) + pa
      <4>1. slot # c + 1 BY <2>3, <2>6, <3>2
      <4> QED BY <2>5, <2>6, <4>1
    <3> HIDE DEF pa
    <3>6. pa \in Nat BY DEF pa
    <3> QED BY <1>1, <2>6, <2>8, <2>9, <3>2, <3>3, <3>4, <3>5, <3>6
  <2> QED BY <2>10, <2>11
<1> QED BY <1>9, <1>13, <1>15, <1>16

\* The replacement of a runner stands where he stood, bats where he batted and has
\* his pitcher.
LEMMA SubstitutionKeepsRunners ==
  ASSUME NEW s \in State, SoundLineup(s), SoundRunners(s), NEW side \in Sides,
         NEW out \in Players, NEW in \in Players, NEW pos \in Positions,
         CanSubstitute(s, side, out, in, pos), NEW t, t = AfterSubstitution(s, side, out, in, pos)
  PROVE  SoundRunners(t)
<1>1. /\ out \in s.active /\ Team[out] = side /\ Team[in] = side /\ in # out
      /\ in \notin s.active /\ in \notin s.participated
      /\ in # None /\ out # None
  BY LineupAssumption DEF CanSubstitute, MayLeave, MayEnter
<1>2. Substituted(t, s, side, out, in, pos) /\ Replaced(t, s, out, in)
  BY <1>1, SubstitutionEffect, SubstitutionReplaces
<1>3. /\ t \in State /\ t.active = (s.active \ {out}) \cup {in} /\ t.status = s.status
      /\ t.half = s.half /\ t.outs = s.outs /\ t.cursor = s.cursor
      /\ t.participated = s.participated \cup {in}
      /\ \A p \in Players : t.order[p] = IF p = in THEN s.order[out] ELSE s.order[p]
  BY <1>2 DEF Substituted, Replaced, Clock
<1>4. BattingSide(t) = BattingSide(s) /\ FieldingSide(t) = FieldingSide(s) /\ BattingSide(s) \in Sides
  BY <1>3 DEF BattingSide, FieldingSide, Sides
<1>5. \A d \in Sides : Slots(t, d) = Slots(s, d)
  BY <1>1, <1>3 DEF Slots, Batters, State
<1>6. \A d \in Sides : Turns(t, d) = Turns(s, d) BY <1>5 DEF Turns
<1>7. in \notin Runners(s) /\ s.resp[in] = None
  BY <1>1 DEF SoundRunners, ChargedAcross, RunnersCharged, Runners, Batters
<1>8. /\ \A b \in Bases : t.bases[b] = IF s.bases[b] = out THEN in ELSE s.bases[b]
      /\ \A p \in Players : t.resp[p] =
           IF p = in THEN s.resp[out] ELSE IF p = out THEN None ELSE s.resp[p]
  <2> DEFINE held == {b \in Bases : s.bases[b] = out}
  <2>1. CASE held = {}
    <3>1. t.bases = s.bases /\ t.resp = s.resp BY <1>2, <2>1 DEF Replaced
    <3>2. out \notin Runners(s) BY <2>1 DEF Runners, Occupied
    <3>3. s.resp[out] = None BY <3>2 DEF SoundRunners, ChargedAcross
    <3> QED BY <1>7, <2>1, <3>1, <3>3
  <2>2. CASE held # {}
    <3>1. PICK base \in held : t.bases = [s.bases EXCEPT ![base] = in]
      BY <1>2, <2>2 DEF Replaced
    <3>2. \A b \in Bases : s.bases[b] = out => b = base
      BY <1>1, <3>1 DEF SoundRunners, OneBase, Occupied
    <3>3. \A b \in Bases : t.bases[b] = IF b = base THEN in ELSE s.bases[b]
      BY <3>1 DEF State, Diamonds
    <3>4. \A p \in Players : t.resp[p] =
           IF p = in THEN s.resp[out] ELSE IF p = out THEN None ELSE s.resp[p]
      BY <1>2, <2>2 DEF Replaced
    <3> QED BY <3>1, <3>2, <3>3, <3>4
  <2> QED BY <2>1, <2>2
<1>9. Occupied(t) = Occupied(s) BY <1>1, <1>8 DEF Occupied
<1>10. OneBase(t)
  <2> SUFFICES ASSUME NEW b \in Occupied(t), NEW c \in Occupied(t), t.bases[b] = t.bases[c]
               PROVE  b = c
    BY DEF OneBase
  <2>1. b \in Bases /\ c \in Bases /\ b \in Occupied(s) /\ c \in Occupied(s) BY <1>9 DEF Occupied
  <2>2. s.bases[b] # in /\ s.bases[c] # in BY <1>7, <2>1 DEF Runners
  <2>3. s.bases[b] = s.bases[c] BY <1>8, <2>1, <2>2
  <2> QED BY <2>1, <2>3 DEF SoundRunners, OneBase
<1>11. FullOrders(t)
  BY <1>3, <1>5, <1>6 DEF SoundRunners, FullOrders
<1>12. ASSUME NEW b \in Occupied(s)
       PROVE  /\ b \in Bases /\ s.bases[b] \in Batters(s, BattingSide(s)) /\ s.bases[b] \in Players
              /\ s.resp[s.bases[b]] # None /\ s.bases[b] # in
              /\ t.order[t.bases[b]] = s.order[s.bases[b]]
              /\ t.bases[b] \in t.active /\ Team[t.bases[b]] = BattingSide(s)
              /\ t.resp[t.bases[b]] # None
  <2>1. /\ b \in Bases /\ s.bases[b] \in Batters(s, BattingSide(s))
        /\ s.resp[s.bases[b]] # None /\ s.bases[b] # in
    BY <1>7 DEF Occupied, SoundRunners, RunnersCharged, Runners
  <2>2. s.bases[b] \in Players BY <2>1 DEF Batters, State
  <2>3. CASE s.bases[b] = out
    <3>1. t.bases[b] = in BY <1>8, <2>1, <2>3
    <3> QED BY <1>1, <1>3, <1>8, <2>1, <2>2, <2>3, <3>1 DEF Batters
  <2>4. CASE s.bases[b] # out
    <3>1. t.bases[b] = s.bases[b] BY <1>8, <2>1, <2>4
    <3> QED BY <1>3, <1>8, <2>1, <2>2, <2>4, <3>1 DEF Batters
  <2> QED BY <2>1, <2>2, <2>3, <2>4
<1>13. RunnersCharged(t)
  BY <1>4, <1>9, <1>12 DEF RunnersCharged, Batters
<1>14. ChargedAcross(t)
  <2> SUFFICES ASSUME NEW p \in Players, t.resp[p] # None
               PROVE  /\ p \in Runners(t) /\ Team[p] = BattingSide(s)
                      /\ t.resp[p] \in t.participated /\ Team[t.resp[p]] = FieldingSide(s)
    BY <1>4 DEF ChargedAcross
  <2> DEFINE r == IF p = in THEN out ELSE p
  <2>1. r \in Players /\ t.resp[p] = s.resp[r] /\ s.resp[r] # None /\ p # out /\ (r = out <=> p = in)
    BY <1>1, <1>8
  <2> HIDE DEF r
  <2>2. /\ r \in Runners(s) /\ Team[r] = BattingSide(s)
        /\ s.resp[r] \in s.participated /\ Team[s.resp[r]] = FieldingSide(s)
    BY <2>1 DEF SoundRunners, ChargedAcross
  <2>3. PICK b \in Occupied(s) : r = s.bases[b] BY <2>2 DEF Runners
  <2>4. t.bases[b] = p
    <3>1. t.bases[b] = IF r = out THEN in ELSE r BY <1>8, <1>12, <2>3
    <3>2. r # out => r = p BY <2>1 DEF r
    <3> QED BY <2>1, <3>1, <3>2
  <2>5. p \in Runners(t) BY <1>9, <2>4 DEF Runners
  <2>6. Team[p] = Team[r] BY <1>1, <2>1 DEF r
  <2> QED BY <1>3, <2>1, <2>2, <2>5, <2>6
<1>15. BattedBehind(t)
  <2> SUFFICES ASSUME NEW b \in Occupied(s)
               PROVE  TurnOf(t, b) <= t.outs + Cardinality(NotAhead(t.bases, b))
    BY <1>9 DEF BattedBehind
  <2>1. TurnOf(t, b) = TurnOf(s, b) BY <1>3, <1>4, <1>6, <1>12 DEF TurnOf
  <2>2. NotAhead(t.bases, b) = NotAhead(s.bases, b)
    BY <1>9 DEF NotAhead, Occupied
  <2> QED BY <1>3, <2>1, <2>2 DEF SoundRunners, BattedBehind
<1>16. t.active \subseteq t.participated
  BY <1>3 DEF SoundRunners
<1> QED BY <1>3, <1>9, <1>10, <1>11, <1>13, <1>14, <1>15, <1>16 DEF SoundRunners

\* A state that differs only in who fields where: the bases, the clock and the side
\* at bat are the same, and so are the slots of both orders.
LEMMA FieldingKeepsRunners ==
  ASSUME NEW s \in State, SoundRunners(s), NEW t \in State,
         Clock(t) = Clock(s), t.bases = s.bases, t.resp = s.resp,
         \A side \in Sides : Slots(t, side) = Slots(s, side),
         \A p \in Batters(s, BattingSide(s)) :
             p \in Batters(t, BattingSide(s)) /\ t.order[p] = s.order[p],
         s.participated \subseteq t.participated, t.active \subseteq t.participated
  PROVE  SoundRunners(t)
<1>1. /\ t.status = s.status /\ t.half = s.half /\ t.outs = s.outs /\ t.cursor = s.cursor
  BY DEF Clock
<1>2. BattingSide(t) = BattingSide(s) /\ FieldingSide(t) = FieldingSide(s) /\ BattingSide(s) \in Sides
  BY <1>1 DEF BattingSide, FieldingSide, Sides
<1>3. \A d \in Sides : Turns(t, d) = Turns(s, d) BY DEF Turns
<1>4. FullOrders(t) BY <1>1, <1>3 DEF SoundRunners, FullOrders
<1>5. Occupied(t) = Occupied(s) /\ Runners(t) = Runners(s) BY DEF Occupied, Runners
<1>6. OneBase(t) BY <1>5 DEF SoundRunners, OneBase
<1>7. RunnersCharged(t) BY <1>2, <1>5 DEF SoundRunners, RunnersCharged
<1>8. ChargedAcross(t) BY <1>2, <1>5 DEF SoundRunners, ChargedAcross
<1>9. BattedBehind(t)
  <2> SUFFICES ASSUME NEW b \in Occupied(s)
               PROVE  TurnOf(t, b) <= t.outs + Cardinality(NotAhead(t.bases, b))
    BY <1>5 DEF BattedBehind
  <2>1. s.bases[b] \in Batters(s, BattingSide(s)) BY DEF SoundRunners, RunnersCharged
  <2>2. TurnOf(t, b) = TurnOf(s, b) BY <1>1, <1>2, <1>3, <2>1 DEF TurnOf
  <2> QED BY <1>1, <2>2 DEF SoundRunners, BattedBehind
<1> QED BY <1>1, <1>4, <1>5, <1>6, <1>7, <1>8, <1>9 DEF SoundRunners

LEMMA AlignmentKeepsRunners ==
  ASSUME NEW s \in State, SoundRunners(s), NEW side \in Sides, NEW movers \in SUBSET Players,
         NEW assign \in [movers -> Positions], NEW t, t = AfterAlignment(s, side, assign)
  PROVE  SoundRunners(t)
<1>1. Aligned(t, s, side, assign) BY AlignmentEffect
<1>2. Clock(t) = Clock(s) /\ t.bases = s.bases /\ t.resp = s.resp BY AlignmentLeaves
<1>3. t \in State /\ t.active = s.active /\ t.order = s.order /\ t.participated = s.participated
  BY <1>1 DEF Aligned
<1>4. \A d \in Sides : Batters(t, d) = Batters(s, d) /\ Slots(t, d) = Slots(s, d)
  BY <1>3 DEF Batters, Slots
<1>5. BattingSide(s) \in Sides BY DEF BattingSide, Sides
<1>6. s.active \subseteq s.participated BY DEF SoundRunners
<1> QED BY <1>2, <1>3, <1>4, <1>5, <1>6, FieldingKeepsRunners

LEMMA PitchingChangeKeepsRunners ==
  ASSUME NEW s \in State, SoundLineup(s), SoundRunners(s), NEW side \in Sides,
         NEW in \in Players, CanChangePitcher(s, side, in),
         NEW t, t = AfterPitchingChange(s, side, in),
         \A d \in Sides : Slots(t, d) = Slots(s, d)
  PROVE  SoundRunners(t)
<1> DEFINE out == s.pitcher[side]
<1>1. Relieved(t, s, side, in) BY PitchingChangeEffect
<1>2. /\ Clock(t) = Clock(s) /\ t.bases = s.bases /\ t.resp = s.resp
      /\ t.participated = IF in \notin s.active THEN s.participated \cup {in} ELSE s.participated
  BY PitchingChangeLeaves
<1>3. /\ t \in State
      /\ t.active = (IF Trades(s, in) THEN s.active ELSE s.active \ {out}) \cup {in}
      /\ \A p \in Players : t.order[p] =
            IF p = in /\ in \notin s.active THEN s.order[out] ELSE s.order[p]
  BY <1>1 DEF Relieved
<1>4. side = FieldingSide(s) /\ Team[in] = side /\ Team[out] = side
  BY DEF CanChangePitcher, SoundLineup, Standing
<1>5. BattingSide(s) # side BY <1>4 DEF FieldingSide, Other
<1>6. s.active \subseteq s.participated /\ s.active \subseteq Players BY DEF SoundRunners, State
<1>7. t.active \subseteq t.participated /\ s.participated \subseteq t.participated
  BY <1>2, <1>3, <1>6
<1>8. ASSUME NEW p \in Batters(s, BattingSide(s))
      PROVE  p \in Batters(t, BattingSide(s)) /\ t.order[p] = s.order[p]
  <2>1. /\ p \in s.active /\ Team[p] = BattingSide(s) /\ s.order[p] # 0 /\ p \in Players
    BY <1>6 DEF Batters
  <2>2. p # in /\ p # out BY <1>4, <1>5, <2>1
  <2> HIDE DEF out
  <2> QED BY <1>3, <2>1, <2>2 DEF Batters
<1> QED BY <1>2, <1>3, <1>7, <1>8, FieldingKeepsRunners

-----------------------------------------------------------------------------
(* The state machine *)

\* A setup the validation accepts starts a well-typed game with a sound lineup.
LEMMA InitialSound ==
  ASSUME NEW setup \in Setups, ValidSetup(setup)
  PROVE  InitialState(setup) \in State /\ SoundLineup(InitialState(setup))
<1> DEFINE s == InitialState(setup)
           playing == InitiallyActive(setup)
<1>1. /\ setup.order \in [Players -> Nat]
      /\ setup.position \in [Players -> Positions \cup {None}]
      /\ setup.pitcher \in [Sides -> Players]
  BY LineupAssumption DEF Setup
<1>2. playing \subseteq Players BY DEF InitiallyActive
<1>3. ASSUME NEW side \in Sides
      PROVE  /\ DefenseFor(setup, side) \in [Positions -> Players \cup {None}]
             /\ \A pos \in Positions, p \in Players :
                  DefenseFor(setup, side)[pos] = p
                    <=> p \in playing /\ Team[p] = side /\ setup.position[p] = pos
  <2> DEFINE holds(p, pos) == Team[p] = side /\ setup.position[p] = pos
  <2>1. \A p, q \in playing : \A pos \in Positions :
          holds(p, pos) /\ holds(q, pos) => p = q
    BY <1>3, LineupAssumption DEF ValidSetup, ValidSide
  <2>2. \A pos \in Positions :
          /\ (\E p \in playing : holds(p, pos))
               => /\ DefenseFor(setup, side)[pos] \in playing
                  /\ holds(DefenseFor(setup, side)[pos], pos)
          /\ ~(\E p \in playing : holds(p, pos))
               => DefenseFor(setup, side)[pos] = None
    BY DEF DefenseFor
  <2>3. DefenseFor(setup, side)
          = [pos \in Positions |-> DefenseFor(setup, side)[pos]]
    BY DEF DefenseFor
  <2> HIDE DEF holds, playing
  <2>4. \A pos \in Positions : DefenseFor(setup, side)[pos] \in Players \cup {None}
    BY <1>2, <2>2
  <2>5. DefenseFor(setup, side) \in [Positions -> Players \cup {None}]
    BY <2>3, <2>4
  <2>6. \A pos \in Positions, p \in Players :
          DefenseFor(setup, side)[pos] = p <=> p \in playing /\ holds(p, pos)
    BY <2>1, <2>2, LineupAssumption
  <2> QED BY <2>5, <2>6 DEF holds
<1>4. s \in State
  <2>1. "READY" \in Statuses /\ 0 \in Nat /\ "NONE" \in Halves /\ 0 \in OutCounts
    BY DEF Statuses, Halves, OutCounts
  <2>2. /\ [side \in Sides |-> 0] \in Tallies
        /\ [b \in Bases |-> None] \in Diamonds
        /\ [p \in Players |-> None] \in Charges
        /\ setup.order \in Orders /\ setup.position \in Placements
        /\ setup.pitcher \in Mounds
    BY <1>1 DEF Tallies, Diamonds, Charges, Orders, Placements, Mounds
  <2>3. [side \in Sides |-> DefenseFor(setup, side)] \in Defenses
    BY <1>3 DEF Defenses
  <2> HIDE DEF playing
  <2> QED BY <1>2, <2>1, <2>2, <2>3 DEF InitialState, State, playing
<1>5. DefenseMatches(s) BY <1>3 DEF InitialState, DefenseMatches
<1>6. Standing(s)
  BY <1>1 DEF InitialState, Standing, ValidSetup, ValidSide
<1>7. SlotsDistinct(s)
  BY <1>1, <1>2, LineupAssumption
     DEF InitialState, SlotsDistinct, ValidSetup, ValidSide
<1>8. EverybodyPlays(s)
  BY <1>1, LineupAssumption
     DEF InitialState, EverybodyPlays, InitiallyActive, ValidSetup, ValidSide
<1> QED BY <1>4, <1>5, <1>6, <1>7, <1>8 DEF SoundLineup
=============================================================================
