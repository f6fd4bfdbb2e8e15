----------------------- MODULE CorrectionHistoryProofs -----------------------
(***************************************************************************)
(* Proofs about CorrectionHistory, GameStatistics and CorrectionPanel, for *)
(* any bodies, any number of events and corrections, corrections of        *)
(* corrections to any depth, and any number of pages and requests.         *)
(***************************************************************************)
EXTENDS MCGameHistory, GameReducerProofs, SequenceTheorems

-----------------------------------------------------------------------------
(* Histories *)

\* The bodies that the history may hold or a correction may insert: those submitted, and
\* the plate appearances among them under the outcomes that the review page offers.
Admitted ==
    Bodies \cup UNION {{Rejudged(b, o) : o \in ReplacementOutcomes(b)} : b \in Bodies}

LEMMA RejudgedIs ==
    ASSUME NEW b \in Bodies, NEW o \in ReplacementOutcomes(b)
    PROVE  /\ b.type = "PlateAppearanceRecorded"
           /\ Rejudged(b, o).type = b.type /\ Rejudged(b, o).to = b.to
           /\ Rejudged(b, o).rbi = b.rbi /\ Rejudged(b, o).counts = b.counts
           /\ Rejudged(b, o).putouts \in {b.putouts, 0, Cardinality(Outs(b.to))}
  <1>1. b.type = "PlateAppearanceRecorded"
    BY DEF ReplacementOutcomes
  <1>2. {"type", "batter", "outcome", "to", "counts", "judgment", "rbi", "putouts"} \subseteq DOMAIN b
    BY <1>1, PanelAssumption
  <1> QED
    BY <1>1, <1>2 DEF Rejudged

LEMMA AdmittedBodies ==
    /\ Bodies \subseteq Admitted
    /\ \A b \in Admitted :
        /\ b.type \in BodyTypes
        /\ b.type \in {"PlateAppearanceRecorded", "RunnerPlayRecorded"} => b.to \in Paths
        /\ b.type \in {"DefensiveSubstitutionMade", "PitchingChangeMade"} =>
              b.side \in Sides /\ b.in \in Players
        /\ b.type = "DefensiveSubstitutionMade" => b.pos \in Positions
  <1>1. ASSUME NEW b \in Bodies, NEW o \in ReplacementOutcomes(b)
        PROVE  Rejudged(b, o).type = "PlateAppearanceRecorded" /\ Rejudged(b, o).to \in Paths
    BY RejudgedIs, BodyAssumption
  <1> QED
    BY <1>1, BodyAssumption DEF Admitted, BodyTypes

LEMMA AdmittedJudged ==
    /\ None \notin Nat
    /\ \A b \in Admitted : b.type \in {"PlateAppearanceRecorded", "RunnerPlayRecorded"} =>
          /\ b.rbi \subseteq Home(b.to)
          /\ b.putouts \in Nat \cup {None}
  <1>1. ASSUME NEW b \in Bodies, NEW o \in ReplacementOutcomes(b)
        PROVE  /\ Rejudged(b, o).rbi \subseteq Home(Rejudged(b, o).to)
               /\ Rejudged(b, o).putouts \in Nat \cup {None}
    <2>1. b.to \in Paths /\ b.rbi \subseteq Home(b.to) /\ b.putouts \in Nat \cup {None}
      BY RejudgedIs, BodyAssumption, JudgmentAssumption
    <2>2. Cardinality(Outs(b.to)) \in Nat
      BY <2>1, OriginsFinite DEF Paths, Outs
    <2> QED
      BY <2>1, <2>2, RejudgedIs
  <1> QED
    BY <1>1, JudgmentAssumption DEF Admitted

Corrections ==
    {e \in [type    : {"CorrectionApplied"},
            policy  : {"REVERSE_EVENTS", "REPLACE_EVENT_RANGE"},
            targets : SUBSET Nat,
            with    : Seq(Admitted)] : e.with # <<>> => e.targets # {}}
Events == Admitted \cup Corrections

\* Corrections name events before them.
WellFormed(h) ==
    /\ h \in Seq(Events)
    /\ \A c \in CorrectionsOf(h) : h[c].targets \subseteq 1 .. c - 1

LEMMA CorrectionsAreEvents ==
    ASSUME NEW e \in Events
    PROVE  IsCorrection(e) <=> e \in Corrections
  BY AdmittedBodies DEF Events, Corrections, IsCorrection, BodyTypes

\* The recursion of Resolve, newest event first.
ResolveFirst(h) == Untouched(h)
ResolveStep(h, r, i) ==
    IF ~IsCorrection(h[i]) \/ i \in r.suppressed THEN r ELSE TakeOver(r, h, h[i])
Newest == INSTANCE Recursion WITH First <- ResolveFirst, Step <- ResolveStep

\* The resolution as far as the events from number i on decide it.
From(h, i) == Newest!Downto(h, Len(h))[i]

LEMMA FromUnfolds ==
    ASSUME NEW h, WellFormed(h)
    PROVE  /\ Len(h) \in Nat /\ DOMAIN h = 1 .. Len(h)
           /\ Resolve(h) = From(h, 1)
           /\ From(h, Len(h) + 1) = Untouched(h)
           /\ \A i \in DOMAIN h : From(h, i) = ResolveStep(h, From(h, i + 1), i)
  <1>1. Len(h) \in Nat /\ DOMAIN h = 1 .. Len(h)
    BY DEF WellFormed
  <1>2. Resolve(h) = From(h, 1)
    BY DEF Resolve, From, Newest!Downto, ResolveFirst, ResolveStep
  <1>3. /\ Newest!Downto(h, Len(h))[Len(h) + 1] = ResolveFirst(h)
        /\ \A i \in 1 .. Len(h) : Newest!Downto(h, Len(h))[i]
                                    = ResolveStep(h, Newest!Downto(h, Len(h))[i + 1], i)
    BY <1>1, Newest!DowntoUnfolds
  <1> QED
    BY <1>1, <1>2, <1>3 DEF From, ResolveFirst

\* The earliest target is a target.
LEMMA EarliestIsTarget ==
    ASSUME NEW T, T \subseteq Nat, T # {}
    PROVE  Earliest(T) \in T /\ \A j \in T : Earliest(T) <= j
  <1>1. \E i \in T : \A j \in T : i <= j
    BY Newest!SmallestElement
  <1> QED
    BY <1>1 DEF Earliest

\* A resolution is a set of events, what stands at each place, and a verdict.
Resolution(h) ==
    [suppressed : SUBSET DOMAIN h, inserted : [DOMAIN h -> Seq(Admitted)], valid : BOOLEAN]

LEMMA CorrectionAt ==
    ASSUME NEW h, WellFormed(h), NEW c \in CorrectionsOf(h)
    PROVE  /\ c \in DOMAIN h /\ c \in 1 .. Len(h) /\ h[c] \in Corrections
           /\ h[c].targets \subseteq 1 .. c - 1 /\ h[c].targets \subseteq DOMAIN h
           /\ h[c].with \in Seq(Admitted)
           /\ h[c].with # <<>> => Earliest(h[c].targets) \in h[c].targets
  <1>1. c \in DOMAIN h /\ c \in 1 .. Len(h) /\ h[c] \in Events /\ IsCorrection(h[c])
    BY DEF WellFormed, CorrectionsOf
  <1>2. h[c] \in Corrections
    BY <1>1, CorrectionsAreEvents
  <1>3. h[c].targets \subseteq 1 .. c - 1 /\ h[c].targets \subseteq 1 .. Len(h)
    BY <1>1 DEF WellFormed
  <1>4. h[c].with \in Seq(Admitted) /\ (h[c].with # <<>> => h[c].targets # {})
    BY <1>2 DEF Corrections
  <1>5. h[c].targets \subseteq Nat
    BY <1>1, <1>3
  <1> QED
    BY <1>1, <1>2, <1>3, <1>4, <1>5, EarliestIsTarget DEF WellFormed

LEMMA TakeOverType ==
    ASSUME NEW h, WellFormed(h), NEW c \in CorrectionsOf(h), NEW r \in Resolution(h)
    PROVE  /\ TakeOver(r, h, h[c]) \in Resolution(h)
           /\ TakeOver(r, h, h[c]).suppressed = r.suppressed \cup h[c].targets
           /\ TakeOver(r, h, h[c]).inserted =
                IF h[c].with = <<>> THEN r.inserted
                ELSE [r.inserted EXCEPT ![Earliest(h[c].targets)] = h[c].with]
           /\ TakeOver(r, h, h[c]).valid
                <=> r.valid /\ TargetsAllowed(h, h[c]) /\ Unowned(r, h[c])
  <1> DEFINE verdict  == TargetsAllowed(h, h[c]) /\ Unowned(r, h[c])
             inserted == IF h[c].with = <<>> THEN r.inserted
                         ELSE [r.inserted EXCEPT ![Earliest(h[c].targets)] = h[c].with]
             gone     == r.suppressed \cup h[c].targets
             valid    == r.valid /\ verdict
  <1>1. TakeOver(r, h, h[c]) = [suppressed |-> gone, inserted |-> inserted, valid |-> valid]
    BY DEF TakeOver, Suppress
  <1>2. inserted \in [DOMAIN h -> Seq(Admitted)] /\ gone \in SUBSET DOMAIN h
    BY CorrectionAt DEF Resolution
  <1>3. valid \in BOOLEAN
    BY Zenon DEF TargetsAllowed, Unowned
  <1>4. valid <=> r.valid /\ TargetsAllowed(h, h[c]) /\ Unowned(r, h[c])
    BY Zenon
  <1> HIDE DEF valid, inserted, gone, verdict
  <1>5. /\ TakeOver(r, h, h[c]) \in Resolution(h)
        /\ TakeOver(r, h, h[c]).suppressed = gone
        /\ TakeOver(r, h, h[c]).inserted = inserted
        /\ TakeOver(r, h, h[c]).valid = valid
    BY <1>1, <1>2, <1>3 DEF Resolution
  <1> QED
    BY <1>4, <1>5 DEF inserted, gone

\* What the events from i on decide is a resolution.
LEMMA FromType ==
    ASSUME NEW h, WellFormed(h)
    PROVE  \A i \in 1 .. Len(h) + 1 : From(h, i) \in Resolution(h)
  <1> DEFINE n == Len(h)
             S == {i \in 1 .. n + 1 : From(h, i) \in Resolution(h)}
  <1>1. n \in Nat /\ DOMAIN h = 1 .. n
    BY FromUnfolds
  <1>2. n + 1 \in S
    <2>1. Untouched(h) \in Resolution(h)
      <3>1. <<>> \in Seq(Admitted)
        OBVIOUS
      <3> QED
        BY <3>1 DEF Untouched, Resolution
    <2> QED
      BY <1>1, <2>1, FromUnfolds
  <1>3. ASSUME NEW i \in 1 .. n, i + 1 \in S PROVE i \in S
    <2>1. From(h, i) = ResolveStep(h, From(h, i + 1), i)
      BY <1>1, FromUnfolds
    <2>2. IsCorrection(h[i]) => i \in CorrectionsOf(h)
      BY <1>1 DEF CorrectionsOf
    <2>3. ResolveStep(h, From(h, i + 1), i) \in Resolution(h)
      BY <1>3, <2>2, TakeOverType DEF ResolveStep
    <2> QED
      BY <2>1, <2>3
  <1> HIDE DEF S
  <1>4. 1 .. n + 1 \subseteq S
    BY <1>1, <1>2, <1>3, Newest!InductionDownto
  <1> QED
    BY <1>4 DEF S

-----------------------------------------------------------------------------
(* Which corrections are applied *)

\* The corrections that are in effect when their turn comes.
Applied(h) == {c \in CorrectionsOf(h) : c \notin From(h, c + 1).suppressed}
\* What the applied ones from number i on name.
NamedFrom(h, i) == {t \in DOMAIN h : \E c \in Applied(h) : c >= i /\ t \in h[c].targets}

\* One step of the resolution, as far as it depends on whether i is applied.
LEMMA FromStep ==
    ASSUME NEW h, WellFormed(h), NEW i \in DOMAIN h
    PROVE  /\ i \in 1 .. Len(h) /\ i + 1 \in 1 .. Len(h) + 1 /\ From(h, i + 1) \in Resolution(h)
           /\ i \notin Applied(h) => From(h, i) = From(h, i + 1)
           /\ i \in Applied(h) => /\ i \in CorrectionsOf(h)
                                 /\ From(h, i) = TakeOver(From(h, i + 1), h, h[i])
  <1>1. i \in 1 .. Len(h) /\ i + 1 \in 1 .. Len(h) + 1 /\ From(h, i + 1) \in Resolution(h)
    BY FromUnfolds, FromType
  <1>2. From(h, i) = ResolveStep(h, From(h, i + 1), i)
    BY FromUnfolds
  <1>3. i \in CorrectionsOf(h) <=> IsCorrection(h[i])
    BY DEF CorrectionsOf
  <1> QED
    BY <1>1, <1>2, <1>3 DEF ResolveStep, Applied

\* The suppressed events are those that applied corrections name.
LEMMA SuppressedAreNamed ==
    ASSUME NEW h, WellFormed(h)
    PROVE  \A i \in 1 .. Len(h) + 1 : From(h, i).suppressed = NamedFrom(h, i)
  <1> DEFINE n == Len(h)
             S == {i \in 1 .. n + 1 : From(h, i).suppressed = NamedFrom(h, i)}
  <1>1. n \in Nat /\ DOMAIN h = 1 .. n /\ From(h, n + 1) = Untouched(h)
    BY FromUnfolds
  <1> HIDE DEF n
  <1>2. n + 1 \in S
    <2>1. Untouched(h).suppressed = {}
      BY DEF Untouched
    <2>2. NamedFrom(h, n + 1) = {}
      BY <1>1 DEF NamedFrom, Applied, CorrectionsOf
    <2>3. From(h, n + 1).suppressed = NamedFrom(h, n + 1)
      BY <1>1, <2>1, <2>2
    <2> QED
      BY <1>1, <2>3
  <1>3. ASSUME NEW i \in 1 .. n, i + 1 \in S PROVE i \in S
    <2>1. i \in DOMAIN h /\ From(h, i + 1).suppressed = NamedFrom(h, i + 1)
      BY <1>1, <1>3
    <2>2. \A c \in Applied(h) : c \in Nat
      BY <1>1 DEF Applied, CorrectionsOf
    <2>3. From(h, i).suppressed = NamedFrom(h, i)
      <3>1. CASE i \notin Applied(h)
        <4>1. NamedFrom(h, i) = NamedFrom(h, i + 1)
          BY <2>2, <3>1 DEF NamedFrom
        <4> QED
          BY <2>1, <3>1, <4>1, FromStep
      <3>2. CASE i \in Applied(h)
        <4>1. /\ i \in CorrectionsOf(h) /\ From(h, i + 1) \in Resolution(h)
              /\ From(h, i) = TakeOver(From(h, i + 1), h, h[i])
          BY <2>1, <3>2, FromStep
        <4> DEFINE r == From(h, i + 1)
        <4>2. From(h, i).suppressed = NamedFrom(h, i + 1) \cup h[i].targets
          <5>1. TakeOver(r, h, h[i]).suppressed = r.suppressed \cup h[i].targets
            <6> HIDE DEF r
            <6> QED
              BY <4>1, TakeOverType, ZenonT(30) DEF r
          <5> QED
            BY <2>1, <4>1, <5>1
        <4>3. h[i].targets \subseteq DOMAIN h
          BY <4>1, CorrectionAt
        <4>4. NamedFrom(h, i) = NamedFrom(h, i + 1) \cup h[i].targets
          BY <2>2, <3>2, <4>3 DEF NamedFrom
        <4> QED
          BY <4>2, <4>4
      <3> QED
        BY <3>1, <3>2
    <2> QED
      BY <1>1, <2>3
  <1> HIDE DEF S
  <1>4. 1 .. n + 1 \subseteq S
    BY <1>1, <1>2, <1>3, Newest!InductionDownto
  <1> QED
    BY <1>4 DEF S, n

\* A correction is applied if no applied one names it: newer ones have had their
\* turn, older ones cannot name it.
LEMMA AppliedIsKernel ==
    ASSUME NEW h, WellFormed(h)
    PROVE  Applied(h) \in Kernels(h)
  <1>1. ASSUME NEW c \in CorrectionsOf(h)
        PROVE  c \in Applied(h) <=> ~ \E d \in Applied(h) : c \in h[d].targets
    <2>1. c \in DOMAIN h /\ c \in 1 .. Len(h) /\ c + 1 \in 1 .. Len(h) + 1
      BY CorrectionAt, FromStep
    <2>2. c \in Applied(h) <=> c \notin NamedFrom(h, c + 1)
      BY <2>1, SuppressedAreNamed DEF Applied
    <2>3. \A d \in Applied(h) : c \in h[d].targets => d >= c + 1
      BY <2>1, CorrectionAt DEF Applied
    <2> QED
      BY <2>1, <2>2, <2>3 DEF NamedFrom
  <1> QED
    BY <1>1 DEF Kernels, Applied

\* There is one kernel: at the newest correction on which two of them differ,
\* they would have to agree.
LEMMA KernelIsUnique ==
    ASSUME NEW h, WellFormed(h), NEW K \in Kernels(h), NEW L \in Kernels(h)
    PROVE  K = L
  <1> DEFINE n == Len(h)
             S == {i \in 1 .. n + 1 : \A c \in CorrectionsOf(h) : c >= i => (c \in K <=> c \in L)}
  <1>1. n \in Nat /\ \A c \in CorrectionsOf(h) : c \in 1 .. n /\ h[c].targets \subseteq 1 .. c - 1
    BY FromUnfolds, CorrectionAt
  <1>2. /\ K \subseteq CorrectionsOf(h) /\ L \subseteq CorrectionsOf(h)
        /\ \A c \in CorrectionsOf(h) : c \in K <=> ~ \E d \in K : c \in h[d].targets
        /\ \A c \in CorrectionsOf(h) : c \in L <=> ~ \E d \in L : c \in h[d].targets
    BY DEF Kernels
  <1> HIDE DEF n
  <1>3. n + 1 \in S
    BY <1>1
  <1>4. ASSUME NEW i \in 1 .. n, i + 1 \in S PROVE i \in S
    <2>1. \A c \in CorrectionsOf(h) : c >= i + 1 => (c \in K <=> c \in L)
      BY <1>4
    <2>2. ASSUME i \in CorrectionsOf(h) PROVE i \in K <=> i \in L
      <3>1. \A d \in CorrectionsOf(h) : i \in h[d].targets => d >= i + 1
        BY <1>1
      <3> QED
        BY <1>2, <2>1, <2>2, <3>1
    <2>3. \A c \in CorrectionsOf(h) : c >= i => c = i \/ c >= i + 1
      BY <1>1
    <2> QED
      BY <1>1, <2>1, <2>2, <2>3
  <1> HIDE DEF S
  <1>5. 1 .. n + 1 \subseteq S
    BY <1>1, <1>3, <1>4, Newest!InductionDownto
  <1>6. 1 \in S
    BY <1>1, <1>5
  <1> QED
    BY <1>1, <1>2, <1>6 DEF S

LEMMA OneKernel ==
    ASSUME NEW h, WellFormed(h)
    PROVE  /\ Kernels(h) = {Applied(h)} /\ Cardinality(Kernels(h)) = 1
           /\ Active(h) = Applied(h)
           /\ InEffect(h) = DOMAIN h \ Resolve(h).suppressed
           /\ Resolve(h).suppressed \subseteq DOMAIN h
  <1>1. Kernels(h) = {Applied(h)}
    BY AppliedIsKernel, KernelIsUnique
  <1>2. Cardinality(Kernels(h)) = 1
    BY <1>1, FS_Singleton
  <1>3. Active(h) = Applied(h)
    BY <1>1 DEF Active
  <1>4. Resolve(h).suppressed = NamedFrom(h, 1)
    BY FromUnfolds, SuppressedAreNamed
  <1>5. \A c \in Applied(h) : c >= 1
    BY CorrectionAt DEF Applied
  <1> QED
    BY <1>1, <1>2, <1>3, <1>4, <1>5 DEF InEffect, NamedFrom

-----------------------------------------------------------------------------
(* What a valid resolution says *)

LEMMA TakeOverValid ==
    ASSUME NEW h, WellFormed(h), NEW c \in CorrectionsOf(h), NEW r \in Resolution(h),
           TakeOver(r, h, h[c]).valid
    PROVE  r.valid /\ TargetsAllowed(h, h[c]) /\ Unowned(r, h[c])
  <1>1. TakeOver(r, h, h[c]).valid <=> r.valid /\ TargetsAllowed(h, h[c]) /\ Unowned(r, h[c])
    BY TakeOverType
  <1> QED
    BY Zenon, <1>1

LEMMA ValidFrom ==
    ASSUME NEW h, WellFormed(h), Resolve(h).valid
    PROVE  \A i \in 1 .. Len(h) + 1 : From(h, i).valid
  <1> DEFINE n == Len(h)
             S == {i \in 0 .. n : From(h, i + 1).valid}
  <1>1. n \in Nat /\ DOMAIN h = 1 .. n /\ Resolve(h) = From(h, 1)
    BY FromUnfolds
  <1> HIDE DEF n
  <1>2. 0 \in S
    BY <1>1
  <1>3. ASSUME NEW i \in 1 .. n, i - 1 \in S PROVE i \in S
    <2>1. i \in DOMAIN h /\ From(h, i).valid
      BY <1>1, <1>3
    <2>2. CASE i \notin Applied(h)
      BY <1>1, <2>1, <2>2, FromStep
    <2>3. CASE i \in Applied(h)
      <3>1. /\ i \in CorrectionsOf(h) /\ From(h, i + 1) \in Resolution(h)
            /\ From(h, i) = TakeOver(From(h, i + 1), h, h[i])
        BY <2>1, <2>3, FromStep
      <3>2. TakeOver(From(h, i + 1), h, h[i]).valid
        BY <2>1, <3>1
      <3>3. From(h, i + 1).valid
        BY <3>1, <3>2, TakeOverValid
      <3> QED
        BY <1>1, <3>3
    <2> QED
      BY <2>2, <2>3
  <1> HIDE DEF S
  <1>4. 0 .. n \subseteq S
    BY <1>1, <1>2, <1>3, Newest!InductionUpto
  <1>5. ASSUME NEW i \in 1 .. n + 1 PROVE From(h, i).valid
    <2>1. i - 1 \in S /\ (i - 1) + 1 = i
      BY <1>1, <1>4
    <2> QED
      BY <2>1 DEF S
  <1> QED
    BY <1>5 DEF n

\* Every applied correction names what it may, and nothing a newer one names.
LEMMA AppliedIsAllowed ==
    ASSUME NEW h, WellFormed(h), Resolve(h).valid, NEW c \in Applied(h)
    PROVE  /\ TargetsAllowed(h, h[c])
           /\ h[c].targets \cap NamedFrom(h, c + 1) = {}
  <1>1. c \in DOMAIN h /\ c \in 1 .. Len(h) + 1 /\ c + 1 \in 1 .. Len(h) + 1
    BY FromStep, CorrectionAt DEF Applied
  <1>2. /\ c \in CorrectionsOf(h) /\ From(h, c + 1) \in Resolution(h)
        /\ From(h, c) = TakeOver(From(h, c + 1), h, h[c])
    BY <1>1, FromStep
  <1>3. From(h, c).valid
    BY <1>1, ValidFrom
  <1>4. TargetsAllowed(h, h[c]) /\ Unowned(From(h, c + 1), h[c])
    BY <1>2, <1>3, TakeOverValid
  <1>5. From(h, c + 1).suppressed = NamedFrom(h, c + 1)
    BY <1>1, SuppressedAreNamed
  <1> QED
    BY <1>4, <1>5 DEF Unowned

\* No event belongs to two corrections in effect.
LEMMA AppliedApart ==
    ASSUME NEW h, WellFormed(h), Resolve(h).valid, NEW c \in Applied(h), NEW d \in Applied(h),
           h[c].targets \cap h[d].targets # {}
    PROVE  c = d
  <1>1. ASSUME NEW a \in Applied(h), NEW b \in Applied(h), a < b
        PROVE  h[a].targets \cap h[b].targets = {}
    <2>1. a \in 1 .. Len(h) /\ b \in 1 .. Len(h) /\ h[b].targets \subseteq DOMAIN h
      BY CorrectionAt DEF Applied
    <2>2. b >= a + 1
      BY <1>1, <2>1
    <2>3. h[b].targets \subseteq NamedFrom(h, a + 1)
      BY <2>1, <2>2 DEF NamedFrom
    <2> QED
      BY <2>3, AppliedIsAllowed
  <1>2. c \in Nat /\ d \in Nat
    BY CorrectionAt DEF Applied
  <1> QED
    BY <1>1, <1>2

Replaces(h, c, x) == h[c].with # <<>> /\ Earliest(h[c].targets) = x
\* What stands at each place is what an applied correction from i on puts there.
Placed(h, i) ==
    \A x \in DOMAIN h :
        /\ \A c \in Applied(h) : c >= i /\ Replaces(h, c, x) => From(h, i).inserted[x] = h[c].with
        /\ (\A c \in Applied(h) : c >= i => ~Replaces(h, c, x)) => From(h, i).inserted[x] = <<>>

LEMMA ReplacementsPlaced ==
    ASSUME NEW h, WellFormed(h), Resolve(h).valid
    PROVE  \A i \in 1 .. Len(h) + 1 : Placed(h, i)
  <1> DEFINE n == Len(h)
             S == {i \in 1 .. n + 1 : Placed(h, i)}
  <1>1. n \in Nat /\ DOMAIN h = 1 .. n /\ From(h, n + 1) = Untouched(h)
    BY FromUnfolds
  <1> HIDE DEF n
  <1>2. \A c \in Applied(h) : /\ c \in 1 .. n /\ c \in CorrectionsOf(h)
                              /\ h[c].with # <<>> => Earliest(h[c].targets) \in h[c].targets
    BY CorrectionAt DEF Applied, n
  <1>3. n + 1 \in S
    <2>1. \A x \in DOMAIN h : Untouched(h).inserted[x] = <<>>
      BY DEF Untouched
    <2>2. \A c \in Applied(h) : ~(c >= n + 1)
      BY <1>1, <1>2
    <2>3. Placed(h, n + 1)
      BY <1>1, <2>1, <2>2 DEF Placed
    <2> QED
      BY <1>1, <2>3
  <1>4. ASSUME NEW i \in 1 .. n, i + 1 \in S PROVE i \in S
    <2>1. i \in DOMAIN h /\ Placed(h, i + 1)
      BY <1>1, <1>4
    <2>2. CASE i \notin Applied(h)
      <3>1. From(h, i) = From(h, i + 1)
        BY <2>1, <2>2, FromStep
      <3>2. \A c \in Applied(h) : c >= i => c >= i + 1
        BY <1>2, <2>2
      <3>3. \A c \in Applied(h) : c >= i + 1 => c >= i
        BY <1>2
      <3>4. Placed(h, i)
        BY <2>1, <3>1, <3>2, <3>3 DEF Placed
      <3> QED
        BY <1>1, <3>4
    <2>3. CASE i \in Applied(h)
      <3> DEFINE r == From(h, i + 1)
                 e == Earliest(h[i].targets)
      <3>1. i \in CorrectionsOf(h) /\ r \in Resolution(h) /\ From(h, i) = TakeOver(r, h, h[i])
        BY <2>1, <2>3, FromStep
      <3>2. h[i].with # <<>> => e \in DOMAIN h
        BY <3>1, CorrectionAt
      <3> HIDE DEF r, e
      <3>3. From(h, i).inserted = IF h[i].with = <<>> THEN r.inserted
                                  ELSE [r.inserted EXCEPT ![e] = h[i].with]
        BY <3>1, TakeOverType DEF e
      <3>4. \A x \in DOMAIN h : From(h, i).inserted[x]
                                 = IF Replaces(h, i, x) THEN h[i].with ELSE r.inserted[x]
        BY <3>1, <3>2, <3>3 DEF Resolution, Replaces, e
      <3>5. ASSUME NEW c \in Applied(h), NEW x, c >= i, Replaces(h, c, x), Replaces(h, i, x)
            PROVE  c = i
        BY <1>2, <2>3, <3>5, AppliedApart DEF Replaces
      <3>6. \A c \in Applied(h) : c >= i <=> c >= i + 1 \/ c = i
        BY <1>2
      <3>7. Placed(h, i)
        <4> SUFFICES ASSUME NEW x \in DOMAIN h
                     PROVE  /\ \A c \in Applied(h) : c >= i /\ Replaces(h, c, x) =>
                                  From(h, i).inserted[x] = h[c].with
                            /\ (\A c \in Applied(h) : c >= i => ~Replaces(h, c, x)) =>
                                  From(h, i).inserted[x] = <<>>
          BY DEF Placed
        <4>1. CASE Replaces(h, i, x)
          BY <2>3, <3>4, <3>5, <3>6, <4>1
        <4>2. CASE ~Replaces(h, i, x)
          BY <2>1, <3>4, <3>6, <4>2 DEF Placed, r
        <4> QED
          BY <4>1, <4>2
      <3> QED
        BY <1>1, <3>7
    <2> QED
      BY <2>2, <2>3
  <1> HIDE DEF S
  <1>5. 1 .. n + 1 \subseteq S
    BY <1>1, <1>3, <1>4, Newest!InductionDownto
  <1> QED
    BY <1>5 DEF S, n

-----------------------------------------------------------------------------
(* The bodies in effect *)

EffectiveFirst(h) == <<>>
EffectiveStep(h, bodies, i) ==
    bodies \o Resolve(h).inserted[i] \o
        (IF i \in Resolve(h).suppressed THEN <<>> ELSE <<h[i]>>)
Left == INSTANCE Recursion WITH First <- EffectiveFirst, Step <- EffectiveStep

Here(h, i) == {c \in Active(h) : h[c].with # <<>> /\ Earliest(h[c].targets) = i}
IntendedFirst(h) == <<>>
IntendedStep(h, bodies, i) ==
    bodies \o (IF Here(h, i) = {} THEN <<>> ELSE h[CHOOSE c \in Here(h, i) : TRUE].with)
           \o (IF i \in InEffect(h) THEN <<h[i]>> ELSE <<>>)
Asked == INSTANCE Recursion WITH First <- IntendedFirst, Step <- IntendedStep

LEMMA EffectiveUnfolds ==
    ASSUME NEW h, Len(h) \in Nat
    PROVE  /\ Effective(h) = Left!Upto(h, Len(h))[Len(h)]
           /\ Left!Upto(h, Len(h))[0] = <<>>
           /\ \A i \in 1 .. Len(h) : Left!Upto(h, Len(h))[i]
                                       = EffectiveStep(h, Left!Upto(h, Len(h))[i - 1], i)
  <1>1. Effective(h) = Left!Upto(h, Len(h))[Len(h)]
    BY DEF Effective, Left!Upto, EffectiveFirst, EffectiveStep
  <1> QED
    BY <1>1, Left!UptoUnfolds DEF EffectiveFirst

LEMMA IntendedUnfolds ==
    ASSUME NEW h, Len(h) \in Nat
    PROVE  /\ Intended(h) = Asked!Upto(h, Len(h))[Len(h)]
           /\ Asked!Upto(h, Len(h))[0] = <<>>
           /\ \A i \in 1 .. Len(h) : Asked!Upto(h, Len(h))[i]
                                       = IntendedStep(h, Asked!Upto(h, Len(h))[i - 1], i)
  <1>1. Intended(h) = Asked!Upto(h, Len(h))[Len(h)]
    BY DEF Intended, Asked!Upto, IntendedFirst, IntendedStep, Here
  <1> QED
    BY <1>1, Asked!UptoUnfolds DEF IntendedFirst

\* What the resolution leaves is what the corrections ask for.
LEMMA EffectiveIsIntended ==
    ASSUME NEW h, WellFormed(h), Resolve(h).valid
    PROVE  Effective(h) = Intended(h)
  <1> DEFINE n == Len(h)
             S == {i \in 0 .. n : Left!Upto(h, n)[i] = Asked!Upto(h, n)[i]}
  <1>1. n \in Nat /\ DOMAIN h = 1 .. n /\ Resolve(h) = From(h, 1) /\ Placed(h, 1)
    BY FromUnfolds, ReplacementsPlaced
  <1>2. /\ Active(h) = Applied(h)
        /\ InEffect(h) = DOMAIN h \ Resolve(h).suppressed
        /\ \A c \in Applied(h) : c >= 1
    BY OneKernel, CorrectionAt DEF Applied
  <1>3. ASSUME NEW i \in 1 .. n, NEW bodies
        PROVE  EffectiveStep(h, bodies, i) = IntendedStep(h, bodies, i)
    <2>1. Resolve(h).inserted[i]
            = IF Here(h, i) = {} THEN <<>> ELSE h[CHOOSE c \in Here(h, i) : TRUE].with
      <3>1. CASE Here(h, i) = {}
        BY <1>1, <1>2, <3>1 DEF Here, Placed, Replaces
      <3>2. CASE Here(h, i) # {}
        <4> DEFINE c == CHOOSE c \in Here(h, i) : TRUE
        <4>1. c \in Here(h, i)
          BY <3>2
        <4> HIDE DEF c
        <4>2. Resolve(h).inserted[i] = h[c].with
          BY <1>1, <1>2, <4>1 DEF Here, Placed, Replaces
        <4> QED
          BY <3>2, <4>2 DEF c
      <3> QED
        BY <3>1, <3>2
    <2>2. i \in InEffect(h) <=> i \notin Resolve(h).suppressed
      BY <1>1, <1>2
    <2> QED
      BY <2>1, <2>2 DEF EffectiveStep, IntendedStep
  <1>4. 0 \in S
    BY <1>1, EffectiveUnfolds, IntendedUnfolds
  <1>5. ASSUME NEW i \in 1 .. n, i - 1 \in S PROVE i \in S
    BY <1>1, <1>3, <1>5, EffectiveUnfolds, IntendedUnfolds
  <1> HIDE DEF S
  <1>6. 0 .. n \subseteq S
    BY <1>1, <1>4, <1>5, Left!InductionUpto
  <1>7. n \in S
    BY <1>1, <1>6
  <1> QED
    BY <1>1, <1>7, EffectiveUnfolds, IntendedUnfolds DEF S

LEMMA EffectiveType ==
    ASSUME NEW h, WellFormed(h)
    PROVE  \A i \in 0 .. Len(h) : Left!Upto(h, Len(h))[i] \in Seq(Events)
  <1> DEFINE n == Len(h)
             S == {i \in 0 .. n : Left!Upto(h, n)[i] \in Seq(Events)}
  <1>1. n \in Nat /\ DOMAIN h = 1 .. n /\ h \in Seq(Events) /\ Resolve(h) \in Resolution(h)
    BY FromUnfolds, FromType DEF WellFormed
  <1>2. 0 \in S
    <2>1. <<>> \in Seq(Events) /\ 0 \in 0 .. n
      BY <1>1
    <2>2. Left!Upto(h, n)[0] = <<>>
      BY <1>1, EffectiveUnfolds
    <2> QED
      BY <2>1, <2>2
  <1>3. ASSUME NEW i \in 1 .. n, i - 1 \in S PROVE i \in S
    <2> DEFINE before == Left!Upto(h, n)[i - 1]
               place  == Resolve(h).inserted[i]
               own    == IF i \in Resolve(h).suppressed THEN <<>> ELSE <<h[i]>>
    <2>1. before \in Seq(Events) /\ Left!Upto(h, n)[i] = before \o place \o own
      BY <1>1, <1>3, EffectiveUnfolds DEF EffectiveStep
    <2>2. place \in Seq(Events)
      <3>1. place \in Seq(Admitted)
        BY <1>1 DEF Resolution
      <3> QED
        BY <3>1 DEF Events
    <2>3. own \in Seq(Events)
      BY <1>1
    <2> HIDE DEF before, place, own
    <2>4. Left!Upto(h, n)[i] \in Seq(Events)
      BY <2>1, <2>2, <2>3
    <2>5. i \in 0 .. n
      BY <1>1
    <2> QED
      BY <2>4, <2>5
  <1> HIDE DEF S
  <1>4. 0 .. n \subseteq S
    BY <1>1, <1>2, <1>3, Left!InductionUpto
  <1> QED
    BY <1>4 DEF S

\* The newest event is always in effect, and comes last: nothing can name it yet.
LEMMA NewestComesLast ==
    ASSUME NEW h, WellFormed(h), Resolve(h).valid, h # <<>>
    PROVE  \E before \in Seq(Events) : Effective(h) = Append(before, h[Len(h)])
  <1> DEFINE n == Len(h)
             before == Left!Upto(h, n)[n - 1]
  <1>1. n \in Nat \ {0} /\ DOMAIN h = 1 .. n /\ h \in Seq(Events) /\ n \in 1 .. n
    BY FromUnfolds DEF WellFormed
  <1>2. ASSUME NEW c \in CorrectionsOf(h) PROVE n \notin h[c].targets /\ c >= 1 /\ ~Replaces(h, c, n)
    <2>1. c \in 1 .. n /\ h[c].targets \subseteq 1 .. c - 1
      BY CorrectionAt
    <2>2. h[c].with # <<>> => Earliest(h[c].targets) \in h[c].targets
      BY CorrectionAt
    <2> HIDE DEF n
    <2> QED
      BY <1>1, <2>1, <2>2 DEF Replaces
  <1>3. n \notin Resolve(h).suppressed
    <2>1. 1 \in 1 .. Len(h) + 1
      BY <1>1
    <2>2. Resolve(h).suppressed = NamedFrom(h, 1)
      BY <2>1, SuppressedAreNamed, FromUnfolds
    <2> QED
      BY <1>1, <1>2, <2>2 DEF NamedFrom, Applied
  <1>4. Resolve(h).inserted[n] = <<>>
    <2>1. Placed(h, 1) /\ Resolve(h) = From(h, 1)
      BY <1>1, ReplacementsPlaced, FromUnfolds
    <2> QED
      BY <1>1, <1>2, <2>1 DEF Placed, Applied
  <1>5. before \in Seq(Events)
    BY <1>1, EffectiveType
  <1>6. Effective(h) = before \o <<>> \o <<h[n]>>
    <2>1. Effective(h) = EffectiveStep(h, before, n)
      BY <1>1, EffectiveUnfolds
    <2> QED
      BY <1>3, <1>4, <2>1 DEF EffectiveStep
  <1>7. h[n] \in Events
    BY <1>1
  <1> HIDE DEF before, n
  <1>8. before \o <<>> \o <<h[n]>> = Append(before, h[n])
    BY <1>5, <1>7
  <1> QED
    BY <1>5, <1>6, <1>8 DEF n

-----------------------------------------------------------------------------
(* The replay *)

LEMMA StartType == InitialState(TheSetup) \in State
  <1>1. TheSetup \in Setups /\ ValidSetup(TheSetup)
    BY SetupAssumption DEF TheSetup
  <1> QED
    BY <1>1, InitialSound

LEMMA LifecycleType ==
    ASSUME NEW s \in State, NEW status \in Statuses
    PROVE  [s EXCEPT !.status = status] \in State
  BY DEF State

\* Plays and lineup changes need a live game, and keep its status.
LEMMA PlayKeepsStatus ==
    ASSUME NEW s \in State, NEW b \in Admitted, Accepts(s, b),
           b.type \in {"PlateAppearanceRecorded", "RunnerPlayRecorded",
                      "DefensiveSubstitutionMade", "PitchingChangeMade"}
    PROVE  Apply(s, b) \in State /\ Live(s) /\ Apply(s, b).status = s.status
  <1>1. CASE b.type = "PlateAppearanceRecorded"
    <2>1. /\ Live(s) /\ BatterAt(s, b.batter)
          /\ LegalMovements(s, b.batter, b.to, b.counts, FALSE)
          /\ Apply(s, b) = AfterPlateAppearance(s, b.batter, b.to, b.counts)
      BY <1>1 DEF Accepts, Apply, CanRecordPlateAppearance
    <2>2. DOMAIN b.to \subseteq Bases \cup {"BATTER"}
      BY <1>1, AdmittedBodies DEF Paths
    <2>3. b.batter \in Players /\ Batters(s, BattingSide(s)) # {}
      BY <2>1 DEF BatterAt, Batters, State
    <2>4. Entered(s, b.batter, b.to, b.counts)
      BY <2>1, <2>2, <2>3 DEF Entered, LegalMovements, Home
    <2>5. Apply(s, b) \in State
      BY <2>1, <2>3, <2>4, PlateAppearanceType
    <2>6. Apply(s, b).status = s.status
      BY <2>1 DEF AfterPlateAppearance, FinishOuts, AfterMovements, State
    <2> QED
      BY <2>1, <2>5, <2>6
  <1>2. CASE b.type = "RunnerPlayRecorded"
    <2>1. /\ Live(s) /\ "BATTER" \notin DOMAIN b.to
          /\ LegalMovements(s, None, b.to, b.counts, FALSE)
          /\ Apply(s, b) = AfterRunnerPlay(s, b.to, b.counts)
      BY <1>2 DEF Accepts, Apply, CanRecordRunnerPlay, CanMoveRunners
    <2>2. DOMAIN b.to \subseteq Bases \cup {"BATTER"}
      BY <1>2, AdmittedBodies DEF Paths
    <2>3. Entered(s, None, b.to, b.counts)
      BY <2>1, <2>2 DEF Entered, LegalMovements, Home
    <2>4. Apply(s, b) \in State
      BY <2>1, <2>3, RunnerPlayType
    <2>5. Apply(s, b).status = s.status
      BY <2>1 DEF AfterRunnerPlay, FinishOuts, AfterMovements, State
    <2> QED
      BY <2>1, <2>4, <2>5
  <1>3. CASE b.type = "DefensiveSubstitutionMade"
    <2>1. /\ Live(s) /\ MayLeave(s, b.side, b.out)
          /\ Apply(s, b) = AfterSubstitution(s, b.side, b.out, b.in, b.pos)
      BY <1>3 DEF Accepts, Apply, CanSubstitute
    <2>2. b.side \in Sides /\ b.in \in Players /\ b.pos \in Positions /\ b.out \in Players
      BY <1>3, <2>1, AdmittedBodies DEF MayLeave, State
    <2>3. Apply(s, b) \in State
      BY <2>1, <2>2, SubstitutionEffect DEF Substituted
    <2>4. Apply(s, b).status = s.status
      BY <2>1 DEF AfterSubstitution, State
    <2> QED
      BY <2>1, <2>3, <2>4
  <1>4. CASE b.type = "PitchingChangeMade"
    <2>1. Live(s) /\ Apply(s, b) = AfterPitchingChange(s, b.side, b.in)
      BY <1>4 DEF Accepts, Apply, CanChangePitcher
    <2>2. b.side \in Sides /\ b.in \in Players
      BY <1>4, AdmittedBodies
    <2>3. Apply(s, b) \in State
      BY <2>1, <2>2, PitchingChangeEffect DEF Relieved
    <2>4. Apply(s, b).status = s.status
      BY <2>1 DEF AfterPitchingChange, State
    <2> QED
      BY <2>1, <2>3, <2>4
  <1> QED
    BY <1>1, <1>2, <1>3, <1>4

\* Applying an event: from which statuses it is accepted, and to which it leads.
Lifecycle(s, t, b) ==
    \/ b.type = "GameStarted" /\ s.status = "READY" /\ t = StartGame(s)
    \/ /\ b.type = "GameSuspended" /\ s.status = "IN_PROGRESS"
       /\ t = [s EXCEPT !.status = "SUSPENDED"]
    \/ /\ b.type = "GameResumed" /\ s.status = "SUSPENDED"
       /\ t = [s EXCEPT !.status = "IN_PROGRESS"]
    \/ /\ b.type = "GameCompleted" /\ s.status = "IN_PROGRESS"
       /\ t = [s EXCEPT !.status = "COMPLETED"]
    \/ /\ b.type = "GameVerified" /\ s.status \in {"COMPLETED", "CORRECTED"}
       /\ t = [s EXCEPT !.status = "VERIFIED"]
    \/ /\ b.type = "GameReopened" /\ s.status = "VERIFIED"
       /\ t = [s EXCEPT !.status = "CORRECTED"]
    \/ /\ b.type = "GameAbandoned"
       /\ s.status \in {"IN_PROGRESS", "SUSPENDED", "COMPLETED", "CORRECTED"}
       /\ t = [s EXCEPT !.status = "ABANDONED"]
    \/ /\ b.type = "CorrectionApplied"
       /\ s.status \in {"IN_PROGRESS", "COMPLETED", "CORRECTED"}
       /\ t = [s EXCEPT !.status = IF s.status = "IN_PROGRESS" THEN "IN_PROGRESS" ELSE "CORRECTED"]
    \/ /\ b.type \in {"PlateAppearanceRecorded", "RunnerPlayRecorded",
                      "DefensiveSubstitutionMade", "PitchingChangeMade"}
       /\ s.status = "IN_PROGRESS" /\ t.status = "IN_PROGRESS"

LEMMA ApplyEffect ==
    ASSUME NEW s \in State, NEW b \in Events, Accepts(s, b)
    PROVE  Apply(s, b) \in State /\ Lifecycle(s, Apply(s, b), b)
  <1> USE DEF Accepts, Apply, Lifecycle
  <1>1. b.type \in BodyTypes \cup {"CorrectionApplied"}
    BY AdmittedBodies DEF Events, Corrections
  <1>2. CASE b.type = "GameStarted"
    <2>1. StartGame(s) \in State
      BY DEF StartGame, State, Statuses, Halves
    <2> QED
      BY <1>2, <2>1
  <1>3. CASE b.type = "GameSuspended"
    BY <1>3, LifecycleType DEF Live, Statuses
  <1>4. CASE b.type = "GameResumed"
    BY <1>4, LifecycleType DEF CanResume, Statuses
  <1>5. CASE b.type = "GameCompleted"
    BY <1>5, LifecycleType DEF CanComplete, Live, Statuses
  <1>6. CASE b.type = "GameVerified"
    BY <1>6, LifecycleType DEF CanVerify, Statuses
  <1>7. CASE b.type = "GameReopened"
    BY <1>7, LifecycleType DEF Statuses
  <1>8. CASE b.type = "GameAbandoned"
    BY <1>8, LifecycleType DEF CanAbandon, Statuses
  <1>9. CASE b.type = "CorrectionApplied"
    BY <1>9, LifecycleType DEF CanCorrect, CorrectedGame, Live, Statuses
  <1>10. CASE b.type \in {"PlateAppearanceRecorded", "RunnerPlayRecorded",
                         "DefensiveSubstitutionMade", "PitchingChangeMade"}
    <2>1. b \in Admitted
      BY <1>10 DEF Events, Corrections
    <2> QED
      BY <1>10, <2>1, PlayKeepsStatus DEF Live
  <1> QED
    BY <1>1, <1>2, <1>3, <1>4, <1>5, <1>6, <1>7, <1>8, <1>9, <1>10 DEF BodyTypes

ReachFirst(bodies) == {InitialState(TheSetup)}
ReachStep(bodies, states, i) ==
    {Apply(t, bodies[i]) : t \in {u \in states : Accepts(u, bodies[i])}}
Reach == INSTANCE Recursion WITH First <- ReachFirst, Step <- ReachStep

\* Where bodies lead from the start of the game.
Reached(bodies) == ApplyAll(InitialState(TheSetup), bodies)

LEMMA ReachedUnfolds ==
    ASSUME NEW q, Len(q) \in Nat
    PROVE  /\ Reached(q) = Reach!Upto(q, Len(q))[Len(q)]
           /\ Reach!Upto(q, Len(q))[0] = {InitialState(TheSetup)}
           /\ \A i \in 1 .. Len(q) :
                 Reach!Upto(q, Len(q))[i] = ReachStep(q, Reach!Upto(q, Len(q))[i - 1], i)
  <1>1. Reached(q) = Reach!Upto(q, Len(q))[Len(q)]
    BY DEF Reached, ApplyAll, Reach!Upto, ReachFirst, ReachStep
  <1> QED
    BY <1>1, Reach!UptoUnfolds DEF ReachFirst

LEMMA ReachedEmpty == Reached(<<>>) = {InitialState(TheSetup)}
  <1>1. Len(<<>>) = 0
    OBVIOUS
  <1> QED
    BY <1>1, ReachedUnfolds

\* One more body takes the states one step on.
LEMMA ReachedAppend ==
    ASSUME NEW q \in Seq(Events), NEW b \in Events
    PROVE  Reached(Append(q, b)) = {Apply(t, b) : t \in {u \in Reached(q) : Accepts(u, b)}}
  <1> DEFINE longer == Append(q, b)
             n == Len(q)
             l == Len(longer)
  <1>1. /\ n \in Nat /\ l \in 1 .. l /\ l \in Nat /\ n <= l /\ l - 1 = n /\ longer[l] = b
        /\ \A i \in 1 .. n : longer[i] = q[i]
    OBVIOUS
  <1>2. /\ Reached(q) = Reach!Upto(q, n)[n]
        /\ Reached(longer) = Reach!Upto(longer, l)[l]
    BY <1>1, ReachedUnfolds
  <1>3. Reach!Upto(longer, l)[l] = ReachStep(longer, Reach!Upto(longer, l)[n], l)
    BY <1>1, ReachedUnfolds
  <1> HIDE DEF longer, n, l
  <1>4. Reach!Upto(q, n)[n] = Reach!Upto(longer, l)[n]
    <2>1. Reach!SameSteps(q, n, longer, l, n)
      <3>1. \A i \in 1 .. n : ReachStep(q, Reach!Upto(q, n)[i - 1], i)
                               = ReachStep(longer, Reach!Upto(q, n)[i - 1], i)
        BY <1>1 DEF ReachStep
      <3> QED
        BY <1>1, <3>1 DEF Reach!SameSteps, ReachFirst
    <2>2. n \in Nat /\ l \in Nat /\ n \in 0 .. n
      BY <1>1
    <2> QED
      BY <2>1, <2>2, Reach!UptoAgrees
  <1> QED
    BY <1>1, <1>2, <1>3, <1>4 DEF longer, ReachStep

\* Replay is deterministic, and its states are states.
LEMMA ReachedOne ==
    ASSUME NEW q \in Seq(Events), NEW s \in Reached(q)
    PROVE  s \in State /\ Reached(q) = {s}
  <1> DEFINE n == Len(q)
             at(i) == Reach!Upto(q, n)[i]
             S == {i \in 0 .. n : \A t, u \in at(i) : t \in State /\ t = u}
  <1>1. n \in Nat /\ \A i \in 1 .. n : q[i] \in Events
    OBVIOUS
  <1>2. Reached(q) = at(n)
    BY <1>1, ReachedUnfolds
  <1>3. 0 \in S
    BY <1>1, ReachedUnfolds, StartType
  <1>4. ASSUME NEW i \in 1 .. n, i - 1 \in S PROVE i \in S
    <2>1. /\ \A t, u \in at(i - 1) : t \in State /\ t = u
          /\ at(i) = ReachStep(q, at(i - 1), i)
      BY <1>1, <1>4, ReachedUnfolds
    <2> HIDE DEF at
    <2>2. \A t, u \in at(i) : t \in State /\ t = u
      BY <1>1, <2>1, ApplyEffect DEF ReachStep
    <2> QED
      BY <1>1, <2>2
  <1> HIDE DEF S
  <1>5. 0 .. n \subseteq S
    BY <1>1, <1>3, <1>4, Reach!InductionUpto
  <1>6. n \in S
    BY <1>1, <1>5
  <1> QED
    BY <1>2, <1>6 DEF S

-----------------------------------------------------------------------------
(* The inductive invariant *)

\* The history is well formed and its resolution lawful, and the game is the one
\* state that replaying it leads to.
IInv ==
    /\ WellFormed(history)
    /\ \A i \in DOMAIN history \ CorrectionsOf(history) : history[i] \in Bodies
    /\ \A c \in CorrectionsOf(history) : TargetsAllowed(history, history[c])
    /\ game \in Replay(history)

\* What joins the history is an event, and a correction names earlier ones.
Joins(h, g, e) ==
    /\ g = Append(h, e)
    /\ IsCorrection(e) => e.targets \subseteq DOMAIN h
    /\ ~IsCorrection(e) => e \in Bodies

LEMMA AcceptedEvent ==
    IInv /\ Next => /\ \E e \in Events : Joins(history, history', e)
                    /\ game' \in Replay(history')
  <1> SUFFICES ASSUME IInv, Next
               PROVE  /\ \E e \in Events : Joins(history, history', e)
                      /\ game' \in Replay(history')
    OBVIOUS
  <1> USE DEF Accept
  <1>1. CASE EventRecorded
    <2>1. PICK b \in Bodies : history' = Append(history, b) /\ game' \in Replay(history')
      BY <1>1 DEF EventRecorded
    <2>2. b \in Events /\ ~IsCorrection(b)
      BY AdmittedBodies DEF Events, IsCorrection, BodyTypes
    <2> QED
      BY <2>1, <2>2 DEF Joins
  <1>2. CASE EventsReversed
    <2>1. PICK targets \in TargetSets :
             history' = Append(history, Reversal(targets)) /\ game' \in Replay(history')
      BY <1>2 DEF EventsReversed
    <2>2. targets # {} /\ targets \subseteq DOMAIN history /\ targets \subseteq Nat
      BY DEF TargetSets, IInv, WellFormed
    <2>3. Reversal(targets) \in Corrections
      <3>1. <<>> \in Seq(Admitted)
        OBVIOUS
      <3> QED
        BY <2>2, <3>1 DEF Reversal, Corrections
    <2>4. Reversal(targets) \in Events /\ Reversal(targets).targets = targets
      BY <2>3 DEF Events, Reversal
    <2> QED
      BY <2>1, <2>2, <2>4 DEF Joins, Reversal, IsCorrection
  <1>3. CASE PlaysReplaced
    <2>1. PICK targets \in TargetSets :
             \E bodies \in [1 .. Cardinality(targets) -> {b \in Bodies : b.type \in Replaceable}] :
               history' = Append(history, Replacement(targets, bodies)) /\ game' \in Replay(history')
      BY <1>3 DEF PlaysReplaced
    <2>2. PICK bodies \in [1 .. Cardinality(targets) -> {b \in Bodies : b.type \in Replaceable}] :
             history' = Append(history, Replacement(targets, bodies)) /\ game' \in Replay(history')
      BY <2>1
    <2>3. targets # {} /\ targets \subseteq DOMAIN history /\ targets \subseteq Nat
      BY DEF TargetSets, IInv, WellFormed
    <2>4. Cardinality(targets) \in Nat
      <3>1. IsFiniteSet(DOMAIN history)
        <4>1. DOMAIN history = 1 .. Len(history) /\ Len(history) \in Nat
          BY DEF IInv, WellFormed
        <4> QED
          BY <4>1, FS_Interval
      <3> QED
        BY <2>3, <3>1, FS_Subset, FS_CardinalityType
    <2>5. bodies \in Seq(Admitted)
      <3>1. bodies \in [1 .. Cardinality(targets) -> Admitted]
        BY AdmittedBodies
      <3> QED
        BY <2>4, <3>1
    <2>6. Replacement(targets, bodies) \in Corrections
      BY <2>3, <2>5 DEF Replacement, Corrections
    <2>7. Replacement(targets, bodies) \in Events /\ Replacement(targets, bodies).targets = targets
      BY <2>6 DEF Events, Replacement
    <2> QED
      BY <2>2, <2>3, <2>7 DEF Joins, Replacement, IsCorrection
  <1> QED
    BY <1>1, <1>2, <1>3 DEF Next

LEMMA EmptyHistory ==
    ASSUME WellFormed(<<>>)
    PROVE  Resolve(<<>>) = Untouched(<<>>) /\ Effective(<<>>) = <<>>
  <1>1. Len(<<>>) = 0
    OBVIOUS
  <1> QED
    BY <1>1, FromUnfolds, EffectiveUnfolds

LEMMA InitInvariant == Init => IInv
  <1> SUFFICES ASSUME Init PROVE IInv
    OBVIOUS
  <1>1. history = <<>> /\ game = InitialState(TheSetup)
    BY DEF Init
  <1>2. DOMAIN <<>> = {} /\ CorrectionsOf(<<>>) = {} /\ <<>> \in Seq(Events)
    BY DEF CorrectionsOf
  <1>3. WellFormed(<<>>)
    BY <1>2 DEF WellFormed
  <1>4. Resolve(<<>>).valid
    BY <1>3, EmptyHistory DEF Untouched
  <1>5. game \in Replay(<<>>)
    BY <1>1, <1>3, <1>4, EmptyHistory, ReachedEmpty DEF Replay, Reached
  <1> QED
    BY <1>1, <1>2, <1>3, <1>5 DEF IInv

\* Appending an event leaves the events before it as they are.
LEMMA Appended ==
    ASSUME NEW h, WellFormed(h), NEW e \in Events, IsCorrection(e) => e.targets \subseteq DOMAIN h
    PROVE  /\ Append(h, e) # <<>> /\ Len(Append(h, e)) = Len(h) + 1 /\ Len(h) \in Nat
           /\ DOMAIN Append(h, e) = 1 .. Len(h) + 1
           /\ Append(h, e)[Len(h) + 1] = e
           /\ \A i \in 1 .. Len(h) : Append(h, e)[i] = h[i]
           /\ CorrectionsOf(Append(h, e)) =
                CorrectionsOf(h) \cup (IF IsCorrection(e) THEN {Len(h) + 1} ELSE {})
           /\ WellFormed(Append(h, e))
  <1> DEFINE n == Len(h)
             g == Append(h, e)
  <1>1. /\ g \in Seq(Events) /\ g # <<>> /\ Len(g) = n + 1 /\ n \in Nat
        /\ DOMAIN g = 1 .. n + 1 /\ DOMAIN h = 1 .. n
        /\ g[n + 1] = e /\ \A i \in 1 .. n : g[i] = h[i]
    BY DEF WellFormed
  <1> HIDE DEF g, n
  <1>2. CorrectionsOf(g) = CorrectionsOf(h) \cup (IF IsCorrection(e) THEN {n + 1} ELSE {})
    BY <1>1 DEF CorrectionsOf
  <1>3. ASSUME NEW c \in CorrectionsOf(g) PROVE g[c].targets \subseteq 1 .. c - 1
    <2>1. CASE c \in CorrectionsOf(h)
      BY <1>1, <2>1, CorrectionAt DEF n
    <2>2. CASE IsCorrection(e) /\ c = n + 1
      BY <1>1, <2>2
    <2> QED
      BY <1>2, <1>3, <2>1, <2>2
  <1>4. WellFormed(g)
    BY <1>1, <1>3 DEF WellFormed
  <1> QED
    BY <1>1, <1>2, <1>4 DEF g, n

\* The newest event is a correction in effect, if it is one at all.
LEMMA NewestIsApplied ==
    ASSUME NEW h, WellFormed(h), Len(h) \in CorrectionsOf(h)
    PROVE  Len(h) \in Applied(h)
  <1>1. From(h, Len(h) + 1) = Untouched(h)
    BY FromUnfolds
  <1> QED
    BY <1>1 DEF Applied, Untouched

\* An accepted event keeps the corrections lawful: it is resolved before all others.
LEMMA JoinedInvariant ==
    ASSUME IInv, NEW e \in Events, Joins(history, history', e), game' \in Replay(history')
    PROVE  IInv'
  <1> DEFINE n == Len(history)
  <1>2. /\ WellFormed(history) /\ n \in Nat
        /\ \A i \in DOMAIN history \ CorrectionsOf(history) : history[i] \in Bodies
        /\ \A c \in CorrectionsOf(history) : TargetsAllowed(history, history[c])
    BY FromUnfolds DEF IInv
  <1>3. /\ history' = Append(history, e) /\ game' \in Replay(history')
        /\ IsCorrection(e) => e.targets \subseteq DOMAIN history
    BY DEF Joins
  <1>4. /\ history' # <<>> /\ Len(history') = n + 1 /\ DOMAIN history' = 1 .. n + 1
        /\ history'[n + 1] = e /\ \A i \in 1 .. n : history'[i] = history[i]
        /\ CorrectionsOf(history') =
             CorrectionsOf(history) \cup (IF IsCorrection(e) THEN {n + 1} ELSE {})
        /\ WellFormed(history')
    BY <1>2, <1>3, Appended
  <1>5. Resolve(history').valid
    BY <1>3 DEF Replay
  <1>6. ASSUME NEW c \in CorrectionsOf(history')
        PROVE  TargetsAllowed(history', history'[c])
    <2>1. CASE c \in CorrectionsOf(history)
      <3>1. /\ c \in 1 .. n /\ history[c].targets \subseteq 1 .. c - 1
            /\ TargetsAllowed(history, history[c])
        BY <1>2, <2>1, CorrectionAt
      <3>2. history'[c] = history[c] /\ \A t \in history[c].targets : history'[t] = history[t]
        BY <1>2, <1>4, <3>1
      <3> QED
        BY <3>1, <3>2 DEF TargetsAllowed
    <2>2. CASE IsCorrection(e) /\ c = n + 1
      <3>1. c \in Applied(history')
        BY <1>4, <1>6, <2>2, NewestIsApplied
      <3> QED
        BY <1>4, <1>5, <3>1, AppliedIsAllowed
    <2> QED
      BY <1>4, <1>6, <2>1, <2>2
  <1>7. ASSUME NEW i \in DOMAIN history' \ CorrectionsOf(history') PROVE history'[i] \in Bodies
    <2>1. CASE i \in 1 .. n
      <3>1. i \in DOMAIN history \ CorrectionsOf(history)
        BY <1>2, <1>4, <2>1, FromUnfolds
      <3> QED
        BY <1>2, <1>4, <2>1, <3>1
    <2>2. CASE i = n + 1
      BY <1>4, <2>2 DEF Joins, CorrectionsOf
    <2> QED
      BY <1>2, <1>4, <2>1, <2>2
  <1> QED
    BY <1>3, <1>4, <1>6, <1>7 DEF IInv

LEMMA NextInvariant == IInv /\ Next => IInv'
  BY AcceptedEvent, JoinedInvariant

THEOREM HistoryInvariant == Spec => []IInv
  <1>1. IInv /\ UNCHANGED vars => IInv'
    BY DEF IInv, vars
  <1>2. IInv /\ [Next]_vars => IInv'
    BY <1>1, NextInvariant
  <1> QED
    BY <1>2, InitInvariant, PTL DEF Spec

-----------------------------------------------------------------------------
(* The theorems *)

\* What the bodies in effect lead to, in a state of the game.
LEMMA GameReached ==
    ASSUME IInv
    PROVE  /\ WellFormed(history) /\ Resolve(history).valid
           /\ Effective(history) \in Seq(Events)
           /\ game \in State /\ Reached(Effective(history)) = {game}
  <1>1. WellFormed(history) /\ Resolve(history).valid /\ game \in Reached(Effective(history))
    BY DEF IInv, Replay, Reached
  <1>2. Effective(history) \in Seq(Events)
    <2>1. Len(history) \in Nat /\ Len(history) \in 0 .. Len(history)
      BY <1>1, FromUnfolds
    <2> QED
      BY <1>1, <2>1, EffectiveType, EffectiveUnfolds
  <1> QED
    BY <1>1, <1>2, ReachedOne

LEMMA CorrectionsFollow == IInv => CorrectionsMeanWhatTheySay
  <1> SUFFICES ASSUME IInv PROVE CorrectionsMeanWhatTheySay
    OBVIOUS
  <1>1. WellFormed(history) /\ Resolve(history).valid /\ game \in State
    BY GameReached
  <1>2. TypeOK
    <2>1. ASSUME NEW i \in CorrectionsOf(history), NEW target \in history[i].targets
          PROVE  /\ target \in 1 .. i - 1
                 /\ IsReversal(history[i]) \/ history[target].type \in Replaceable
      BY <1>1, CorrectionAt DEF IInv, TargetsAllowed
    <2> QED
      BY <1>1, <2>1 DEF IInv, TypeOK
  <1>3. ResolutionIsUnique
    <2>1. /\ Cardinality(Kernels(history)) = 1
          /\ Active(history) = Applied(history)
          /\ Resolve(history).suppressed = DOMAIN history \ InEffect(history)
      BY <1>1, OneKernel
    <2>2. \A c, d \in Applied(history) :
             history[c].targets \cap history[d].targets # {} => c = d
      BY <1>1, AppliedApart
    <2> QED
      BY <2>1, <2>2 DEF ResolutionIsUnique
  <1>4. GameIsIntended
    BY <1>1, GameReached, EffectiveIsIntended DEF GameIsIntended, Reached
  <1> QED
    BY <1>2, <1>3, <1>4 DEF CorrectionsMeanWhatTheySay

\* Corrections mean what they say: the stored history is well formed, exactly one
\* choice of corrections in effect is consistent and newest-first resolution finds
\* it, and the game is the one those corrections ask for.
THEOREM CorrectionsCorrect == Spec => []CorrectionsMeanWhatTheySay
  BY HistoryInvariant, CorrectionsFollow, PTL

\* The game is where the newest event, applied last, left it.
LEMMA NewestEffect ==
    ASSUME IInv, history # <<>>
    PROVE  /\ history[Len(history)] \in Events
           /\ \E before \in Seq(Events) : \E s \in Reached(before) :
                /\ s \in State
                /\ Effective(history) = Append(before, history[Len(history)])
                /\ Accepts(s, history[Len(history)])
                /\ game = Apply(s, history[Len(history)])
                /\ Lifecycle(s, game, history[Len(history)])
  <1> DEFINE e == history[Len(history)]
  <1>1. WellFormed(history) /\ Resolve(history).valid /\ Reached(Effective(history)) = {game}
    BY GameReached
  <1>2. PICK before \in Seq(Events) : Effective(history) = Append(before, e)
    BY <1>1, NewestComesLast
  <1>3. e \in Events
    BY <1>1 DEF WellFormed
  <1> HIDE DEF e
  <1>4. PICK s \in Reached(before) : Accepts(s, e) /\ game = Apply(s, e)
    BY <1>1, <1>2, <1>3, ReachedAppend
  <1>5. s \in State
    BY ReachedOne
  <1>6. Lifecycle(s, game, e)
    BY <1>3, <1>4, <1>5, ApplyEffect
  <1> QED
    BY <1>2, <1>3, <1>4, <1>5, <1>6 DEF e

LEMMA VerifiedFollows == IInv => VerifiedStandsAsReviewed
  <1> SUFFICES ASSUME IInv, game.status = "VERIFIED"
               PROVE  history[Len(history)].type = "GameVerified"
    BY DEF VerifiedStandsAsReviewed
  <1>1. history # <<>>
    <2> SUFFICES ASSUME history = <<>> PROVE FALSE
      OBVIOUS
    <2>1. Reached(Effective(<<>>)) = {game} /\ WellFormed(<<>>)
      BY GameReached
    <2>2. game = InitialState(TheSetup)
      BY <2>1, EmptyHistory, ReachedEmpty
    <2>3. InitialState(TheSetup).status = "READY"
      BY DEF InitialState
    <2> QED
      BY <2>2, <2>3
  <1>2. PICK s \in State : Lifecycle(s, game, history[Len(history)])
    BY <1>1, NewestEffect
  <1>3. s \in State /\ game \in State
    BY GameReached
  <1> QED
    BY <1>2, <1>3 DEF Lifecycle, StartGame, State

\* What a reviewer verified is what stands: nothing follows the verification.
THEOREM VerifiedCorrect == Spec => []VerifiedStandsAsReviewed
  BY HistoryInvariant, VerifiedFollows, PTL

-----------------------------------------------------------------------------
(* Games that differ at most in whether they count as corrected *)

Reviewable == {"COMPLETED", "CORRECTED"}
SameGame(s, t) ==
    \/ t = s
    \/ /\ s.status \in Reviewable /\ t.status \in Reviewable
       /\ t = [s EXCEPT !.status = t.status]

\* What one of them accepts the other accepts, with the same effect.
LEMMA SameGameStep ==
    ASSUME NEW s \in State, NEW t \in State, SameGame(s, t),
           NEW b \in Events, Accepts(s, b)
    PROVE  Accepts(t, b) /\ SameGame(Apply(s, b), Apply(t, b))
  <1>1. CASE t = s
    BY <1>1 DEF SameGame
  <1>2. CASE /\ s.status \in Reviewable /\ t.status \in Reviewable
             /\ t = [s EXCEPT !.status = t.status]
    <2>1. Lifecycle(s, Apply(s, b), b)
      BY ApplyEffect
    <2>2. b.type \in {"GameVerified", "GameAbandoned", "CorrectionApplied"}
      BY <1>2, <2>1 DEF Lifecycle, Reviewable
    <2>3. Accepts(t, b)
      BY <1>2, <2>2 DEF Accepts, Reviewable, CanVerify, CanAbandon, CanCorrect
    <2>4. \A status : [t EXCEPT !.status = status] = [s EXCEPT !.status = status]
      BY <1>2 DEF State
    <2>5. Apply(s, b) = Apply(t, b)
      BY <1>2, <2>2, <2>4 DEF Apply, CorrectedGame, Live, Reviewable
    <2> QED
      BY <2>3, <2>5 DEF SameGame
  <1> QED
    BY <1>1, <1>2 DEF SameGame

\* A correction event itself changes no more than that.
LEMMA CorrectionKeepsGame ==
    ASSUME NEW s \in State, CanCorrect(s)
    PROVE  SameGame(CorrectedGame(s), s) /\ SameGame(s, CorrectedGame(s))
  <1>1. s.status = "IN_PROGRESS" => CorrectedGame(s) = s
    BY DEF CorrectedGame, Live, State
  <1>2. s.status # "IN_PROGRESS" =>
           s.status \in Reviewable /\ CorrectedGame(s) = [s EXCEPT !.status = "CORRECTED"]
    BY DEF CorrectedGame, CanCorrect, Live, Reviewable
  <1>3. s = [[s EXCEPT !.status = "CORRECTED"] EXCEPT !.status = s.status]
        /\ [s EXCEPT !.status = "CORRECTED"].status = "CORRECTED"
    BY DEF State
  <1> QED
    BY <1>1, <1>2, <1>3 DEF SameGame, Reviewable

LEMMA SameGameComposes ==
    ASSUME NEW s \in State, NEW t \in State, NEW u \in State, SameGame(s, t), SameGame(t, u)
    PROVE  SameGame(s, u)
  BY DEF SameGame, State, Reviewable

LEMMA SameSituation ==
    ASSUME NEW s \in State, NEW t \in State, SameGame(s, t)
    PROVE  Situation(s) = Situation(t)
  BY DEF SameGame, State, Situation

-----------------------------------------------------------------------------
(* The same plays without the corrections among them *)

PlaysFirst(bodies) == <<>>
PlaysStep(bodies, plays, i) ==
    IF IsCorrection(bodies[i]) THEN plays ELSE Append(plays, bodies[i])
Plain == INSTANCE Recursion WITH First <- PlaysFirst, Step <- PlaysStep

LEMMA PlaysUnfold ==
    ASSUME NEW q, Len(q) \in Nat
    PROVE  /\ WithoutCorrections(q) = Plain!Upto(q, Len(q))[Len(q)]
           /\ Plain!Upto(q, Len(q))[0] = <<>>
           /\ \A i \in 1 .. Len(q) :
                 Plain!Upto(q, Len(q))[i] = PlaysStep(q, Plain!Upto(q, Len(q))[i - 1], i)
  <1>1. WithoutCorrections(q) = Plain!Upto(q, Len(q))[Len(q)]
    BY DEF WithoutCorrections, Plain!Upto, PlaysFirst, PlaysStep
  <1> QED
    BY <1>1, Plain!UptoUnfolds DEF PlaysFirst

\* Along the replay, the plays alone reach the same games.
LEMMA PlaysReachSameGame ==
    ASSUME NEW q \in Seq(Events), NEW s \in Reached(q)
    PROVE  \E t \in Reached(WithoutCorrections(q)) : t \in State /\ SameGame(s, t)
  <1> DEFINE n == Len(q)
             at(i) == Reach!Upto(q, n)[i]
             plays(i) == Plain!Upto(q, n)[i]
             Matched(i) == /\ plays(i) \in Seq(Events)
                           /\ \A u \in at(i) : /\ u \in State
                                               /\ \E t \in Reached(plays(i)) :
                                                    t \in State /\ SameGame(u, t)
             S == {i \in 0 .. n : Matched(i)}
  <1>1. n \in Nat /\ \A i \in 1 .. n : q[i] \in Events
    OBVIOUS
  <1>2. Reached(q) = at(n) /\ at(0) = {InitialState(TheSetup)}
    BY <1>1, ReachedUnfolds
  <1>3. WithoutCorrections(q) = plays(n) /\ plays(0) = <<>>
    BY <1>1, PlaysUnfold
  <1>4. \A i \in 1 .. n : /\ at(i) = ReachStep(q, at(i - 1), i)
                          /\ plays(i) = PlaysStep(q, plays(i - 1), i)
    BY <1>1, ReachedUnfolds, PlaysUnfold
  <1> HIDE DEF n, at, plays
  <1>5. 0 \in S
    <2>1. <<>> \in Seq(Events) /\ 0 \in 0 .. n
      BY <1>1
    <2>2. Matched(0)
      BY <1>2, <1>3, <2>1, StartType, ReachedEmpty DEF SameGame
    <2> QED
      BY <2>1, <2>2
  <1>6. ASSUME NEW i \in 1 .. n, i - 1 \in S PROVE i \in S
    <2> DEFINE b == q[i]
               before == plays(i - 1)
    <2>1. b \in Events /\ before \in Seq(Events) /\ i \in 0 .. n
      BY <1>1, <1>6
    <2>2. plays(i) = IF IsCorrection(b) THEN before ELSE Append(before, b)
      BY <1>4 DEF PlaysStep
    <2>3. ASSUME NEW u \in at(i)
          PROVE  u \in State /\ \E t \in Reached(plays(i)) : t \in State /\ SameGame(u, t)
      <3>1. PICK v \in at(i - 1) : Accepts(v, b) /\ u = Apply(v, b)
        BY <1>4, <2>3 DEF ReachStep
      <3>2. v \in State /\ \E t \in Reached(before) : t \in State /\ SameGame(v, t)
        BY <1>6
      <3>3. PICK t \in Reached(before) : t \in State /\ SameGame(v, t)
        BY <3>2
      <3> HIDE DEF b, before
      <3>4. u \in State
        BY <2>1, <3>1, <3>2, ApplyEffect
      <3>5. CASE IsCorrection(b)
        <4>1. CanCorrect(v) /\ u = CorrectedGame(v)
          BY <3>1, <3>5 DEF IsCorrection, Accepts, Apply
        <4>2. SameGame(u, v)
          BY <3>2, <4>1, CorrectionKeepsGame
        <4>3. SameGame(u, t)
          BY <3>2, <3>3, <3>4, <4>2, SameGameComposes
        <4> QED
          BY <2>2, <3>3, <3>4, <3>5, <4>3
      <3>6. CASE ~IsCorrection(b)
        <4>1. Accepts(t, b) /\ SameGame(u, Apply(t, b))
          BY <2>1, <3>1, <3>2, <3>3, SameGameStep
        <4>2. Apply(t, b) \in State
          BY <2>1, <3>3, <4>1, ApplyEffect
        <4>3. Apply(t, b) \in Reached(Append(before, b))
          BY <2>1, <3>3, <4>1, ReachedAppend
        <4> QED
          BY <2>2, <3>4, <3>6, <4>1, <4>2, <4>3
      <3> QED
        BY <3>5, <3>6
    <2>4. plays(i) \in Seq(Events)
      <3> HIDE DEF b, before
      <3> QED
        BY <2>1, <2>2
    <2>5. Matched(i)
      BY <2>3, <2>4
    <2> QED
      BY <2>1, <2>5
  <1> HIDE DEF S
  <1>7. 0 .. n \subseteq S
    BY <1>1, <1>5, <1>6, Plain!InductionUpto
  <1>8. n \in S
    BY <1>1, <1>7
  <1> QED
    BY <1>2, <1>3, <1>8 DEF S

LEMMA PlayableFollows == IInv => PlayableWithoutCorrections
  <1> SUFFICES ASSUME IInv PROVE PlayableWithoutCorrections
    OBVIOUS
  <1>1. /\ Effective(history) = Intended(history) /\ Effective(history) \in Seq(Events)
        /\ game \in State /\ game \in Reached(Effective(history))
    BY GameReached, EffectiveIsIntended
  <1>2. PICK t \in Reached(WithoutCorrections(Intended(history))) :
           t \in State /\ SameGame(game, t)
    BY <1>1, PlaysReachSameGame
  <1> QED
    BY <1>1, <1>2, SameSituation DEF PlayableWithoutCorrections, Reached

\* The corrected game could have been scored play by play without corrections.
THEOREM PlayableCorrect == Spec => []PlayableWithoutCorrections
  BY HistoryInvariant, PlayableFollows, PTL

-----------------------------------------------------------------------------
(* Reversing a correction *)

\* A resolution is valid when every applied correction is lawful.
LEMMA ValidIfAllowed ==
    ASSUME NEW h, WellFormed(h),
           \A c \in Applied(h) : /\ TargetsAllowed(h, h[c])
                                 /\ h[c].targets \cap NamedFrom(h, c + 1) = {}
    PROVE  Resolve(h).valid
  <1> DEFINE n == Len(h)
             S == {i \in 1 .. n + 1 : From(h, i).valid}
  <1>1. /\ n \in Nat /\ DOMAIN h = 1 .. n /\ Resolve(h) = From(h, 1)
        /\ From(h, n + 1) = Untouched(h)
    BY FromUnfolds
  <1> HIDE DEF n
  <1>2. n + 1 \in S
    BY <1>1 DEF Untouched
  <1>3. ASSUME NEW i \in 1 .. n, i + 1 \in S PROVE i \in S
    <2>1. i \in DOMAIN h /\ From(h, i + 1).valid
      BY <1>1, <1>3
    <2>2. CASE i \notin Applied(h)
      BY <1>1, <2>1, <2>2, FromStep
    <2>3. CASE i \in Applied(h)
      <3> DEFINE r == From(h, i + 1)
      <3>1. /\ i \in CorrectionsOf(h) /\ r \in Resolution(h)
            /\ From(h, i) = TakeOver(r, h, h[i])
        BY <2>1, <2>3, FromStep
      <3>2. r.suppressed = NamedFrom(h, i + 1)
        BY <2>1, FromStep, SuppressedAreNamed
      <3>3. TargetsAllowed(h, h[i]) /\ Unowned(r, h[i])
        BY <2>3, <3>2 DEF Unowned
      <3>4. r.valid
        BY <2>1
      <3> HIDE DEF r
      <3>5. TakeOver(r, h, h[i]).valid <=> r.valid /\ TargetsAllowed(h, h[i]) /\ Unowned(r, h[i])
        BY <3>1, TakeOverType
      <3>6. TakeOver(r, h, h[i]).valid
        BY Zenon, <3>3, <3>4, <3>5
      <3> QED
        BY <1>1, <3>1, <3>6
    <2> QED
      BY <2>2, <2>3
  <1> HIDE DEF S
  <1>4. 1 .. n + 1 \subseteq S
    BY <1>1, <1>2, <1>3, Newest!InductionDownto
  <1>5. 1 \in S
    BY <1>1, <1>4
  <1> QED
    BY <1>1, <1>5 DEF S

\* What stands at a place of a valid history, by its applied corrections.
LEMMA PlaceContent ==
    ASSUME NEW h, WellFormed(h), Resolve(h).valid, NEW x \in DOMAIN h
    PROVE  /\ x \in Resolve(h).suppressed <=> \E c \in Applied(h) : x \in h[c].targets
           /\ \A c \in Applied(h) : Replaces(h, c, x) => Resolve(h).inserted[x] = h[c].with
           /\ (\A c \in Applied(h) : ~Replaces(h, c, x)) => Resolve(h).inserted[x] = <<>>
  <1>1. 1 \in 1 .. Len(h) + 1 /\ Resolve(h) = From(h, 1)
    BY FromUnfolds
  <1>2. \A c \in Applied(h) : c >= 1
    BY CorrectionAt DEF Applied
  <1>3. Resolve(h).suppressed = NamedFrom(h, 1) /\ Placed(h, 1)
    BY <1>1, SuppressedAreNamed, ReplacementsPlaced
  <1> QED
    BY <1>1, <1>2, <1>3 DEF NamedFrom, Placed

\* Two histories hold the same at a place when the same applied corrections say so.
SamePlace(h, g, x) ==
    /\ x \in DOMAIN h /\ x \in DOMAIN g /\ h[x] = g[x]
    /\ \A c : c \in Applied(h) /\ (x \in h[c].targets \/ Replaces(h, c, x)) =>
                c \in Applied(g) /\ g[c] = h[c]
    /\ \A c : c \in Applied(g) /\ (x \in g[c].targets \/ Replaces(g, c, x)) =>
                c \in Applied(h) /\ g[c] = h[c]

LEMMA SamePlaceStep ==
    ASSUME NEW h, WellFormed(h), Resolve(h).valid, NEW g, WellFormed(g), Resolve(g).valid,
           NEW x, SamePlace(h, g, x), NEW bodies
    PROVE  EffectiveStep(h, bodies, x) = EffectiveStep(g, bodies, x)
  <1>1. h[x] = g[x] /\ x \in DOMAIN h /\ x \in DOMAIN g
    BY DEF SamePlace
  <1>2. x \in Resolve(h).suppressed <=> x \in Resolve(g).suppressed
    BY <1>1, PlaceContent DEF SamePlace
  <1>3. Resolve(h).inserted[x] = Resolve(g).inserted[x]
    <2>1. CASE \A c \in Applied(h) : ~Replaces(h, c, x)
      <3>1. \A c \in Applied(g) : ~Replaces(g, c, x)
        BY <2>1 DEF SamePlace, Replaces
      <3> QED
        BY <1>1, <2>1, <3>1, PlaceContent
    <2>2. CASE \E c \in Applied(h) : Replaces(h, c, x)
      <3>1. PICK c \in Applied(h) : Replaces(h, c, x)
        BY <2>2
      <3>2. c \in Applied(g) /\ g[c] = h[c] /\ Replaces(g, c, x)
        BY <3>1 DEF SamePlace, Replaces
      <3> QED
        BY <1>1, <3>1, <3>2, PlaceContent
    <2> QED
      BY <2>1, <2>2
  <1> QED
    BY <1>1, <1>2, <1>3 DEF EffectiveStep

\* The bodies in effect are those of the events not named, in their order.
LEMMA EffectiveAt ==
    ASSUME NEW h, WellFormed(h)
    PROVE  /\ Len(h) \in Nat /\ DOMAIN h = 1 .. Len(h)
           /\ Effective(h) = Left!Upto(h, Len(h))[Len(h)]
           /\ Left!Upto(h, Len(h))[0] = <<>>
           /\ \A i \in 0 .. Len(h) : Left!Upto(h, Len(h))[i] \in Seq(Events)
           /\ \A i \in 1 .. Len(h) : Left!Upto(h, Len(h))[i]
                                       = EffectiveStep(h, Left!Upto(h, Len(h))[i - 1], i)
  BY FromUnfolds, EffectiveUnfolds, EffectiveType

\* The history as if correction c had named nothing.
LEMMA WithoutTargetsType ==
    ASSUME NEW h, WellFormed(h), NEW c \in CorrectionsOf(h)
    PROVE  /\ WellFormed(WithoutTargets(h, c))
           /\ Len(WithoutTargets(h, c)) = Len(h)
           /\ DOMAIN WithoutTargets(h, c) = DOMAIN h
           /\ CorrectionsOf(WithoutTargets(h, c)) = CorrectionsOf(h)
           /\ \A i \in DOMAIN h \ {c} : WithoutTargets(h, c)[i] = h[i]
           /\ \A i \in DOMAIN h : WithoutTargets(h, c)[i].type = h[i].type
           /\ WithoutTargets(h, c)[c] \in Corrections
           /\ WithoutTargets(h, c)[c].targets = {}
           /\ WithoutTargets(h, c)[c].with = <<>>
  <1> DEFINE w == WithoutTargets(h, c)
             e == [[h[c] EXCEPT !.targets = {}] EXCEPT !.with = <<>>]
  <1>1. /\ c \in DOMAIN h /\ h[c] \in Corrections /\ h \in Seq(Events)
        /\ DOMAIN h = 1 .. Len(h) /\ Len(h) \in Nat
    BY CorrectionAt, FromUnfolds DEF WellFormed
  <1>2. e \in Corrections /\ e.targets = {} /\ e.with = <<>> /\ e.type = h[c].type
    <2>1. <<>> \in Seq(Admitted)
      OBVIOUS
    <2> QED
      BY <1>1, <2>1 DEF Corrections
  <1> HIDE DEF e
  <1>3. w = [i \in DOMAIN h |-> IF i = c THEN e ELSE h[i]]
    BY <1>1 DEF WithoutTargets, e
  <1> HIDE DEF w
  <1>4. \A i \in 1 .. Len(h) : w[i] \in Events
    BY <1>1, <1>2, <1>3 DEF Events
  <1>5. w \in Seq(Events) /\ Len(w) = Len(h)
    BY <1>1, <1>3, <1>4
  <1>6. CorrectionsOf(w) = CorrectionsOf(h)
    BY <1>1, <1>2, <1>3 DEF CorrectionsOf, IsCorrection
  <1>7. \A i \in CorrectionsOf(w) : w[i].targets \subseteq 1 .. i - 1
    BY <1>1, <1>2, <1>3, <1>6, CorrectionAt
  <1> QED
    BY <1>1, <1>2, <1>3, <1>5, <1>6, <1>7 DEF WellFormed, w

\* Correction c of h is reversed next.
Reverses(h, c, g) == g = Append(h, Reversal({c}))

\* What reversing c does to which corrections are applied.
LEMMA ReversalApplies ==
    ASSUME NEW h, WellFormed(h), NEW c \in CorrectionsOf(h),
           NEW g, WellFormed(g), Resolve(g).valid, Reverses(h, c, g)
    PROVE  /\ Applied(WithoutTargets(h, c)) = (Applied(g) \ {Len(h) + 1}) \cup {c}
           /\ Len(h) + 1 \in Applied(g) /\ c \notin Applied(g)
           /\ \A d \in Applied(g) : c \in g[d].targets => d = Len(h) + 1
  <1> DEFINE n == Len(h)
             w == WithoutTargets(h, c)
             K == (Applied(g) \ {n + 1}) \cup {c}
  <1>1. /\ n \in Nat /\ Len(g) = n + 1 /\ DOMAIN g = 1 .. n + 1 /\ DOMAIN h = 1 .. n
        /\ g[n + 1] = Reversal({c}) /\ \A i \in 1 .. n : g[i] = h[i]
    <2>1. h \in Seq(Events)
      BY DEF WellFormed
    <2> QED
      BY <2>1 DEF Reverses
  <1>2. /\ Reversal({c}).targets = {c} /\ Reversal({c}).with = <<>>
        /\ IsCorrection(Reversal({c})) /\ IsReversal(Reversal({c}))
    BY DEF Reversal, IsCorrection, IsReversal
  <1>3. CorrectionsOf(g) = CorrectionsOf(h) \cup {n + 1} /\ c \in 1 .. n
    BY <1>1, <1>2, CorrectionAt DEF CorrectionsOf
  <1>4. n + 1 \in Applied(g)
    BY <1>1, <1>3, NewestIsApplied
  <1>5. ASSUME NEW d \in Applied(g), c \in g[d].targets PROVE d = n + 1
    BY <1>1, <1>2, <1>4, <1>5, AppliedApart
  <1>6. \A a \in CorrectionsOf(g) : a \in Applied(g) <=> ~ \E d \in Applied(g) : a \in g[d].targets
    BY AppliedIsKernel DEF Kernels
  <1>7. c \notin Applied(g)
    BY <1>1, <1>2, <1>3, <1>4, <1>6
  <1>8. /\ WellFormed(w) /\ CorrectionsOf(w) = CorrectionsOf(h)
        /\ \A i \in 1 .. n \ {c} : w[i] = h[i]
        /\ w[c].targets = {}
    BY <1>1, WithoutTargetsType
  <1> HIDE DEF n, w
  <1>9. K \in Kernels(w)
    <2>1. K \subseteq CorrectionsOf(w)
      BY <1>3, <1>8 DEF Applied
    <2>2. \A d \in K \ {c} : d \in Applied(g) /\ d # n + 1 /\ w[d].targets = g[d].targets
      BY <1>1, <1>3, <1>8 DEF Applied, CorrectionsOf
    <2>3. ASSUME NEW a \in CorrectionsOf(w)
          PROVE  a \in K <=> ~ \E d \in K : a \in w[d].targets
      <3>1. CASE a = c
        BY <1>5, <1>8, <2>2, <3>1
      <3>2. CASE a # c
        <4>1. a \in CorrectionsOf(g) /\ a # n + 1 /\ a \in 1 .. n
          <5>1. a \in CorrectionsOf(h)
            BY <1>8
          <5>2. a \in 1 .. n
            BY <5>1, CorrectionAt DEF n
          <5> QED
            BY <1>1, <1>3, <5>1, <5>2
        <4>2. a \in K <=> a \in Applied(g)
          BY <3>2, <4>1
        <4>3. (\E d \in K : a \in w[d].targets) <=> (\E d \in Applied(g) : a \in g[d].targets)
          <5>1. ASSUME NEW d \in Applied(g), a \in g[d].targets PROVE d # n + 1 /\ d # c
            <6>1. g[n + 1].targets = {c}
              BY <1>1, <1>2
            <6> QED
              BY <1>7, <3>2, <5>1, <6>1
          <5>2. \A d \in K : a \in w[d].targets => d # c
            BY <1>8
          <5> QED
            BY <2>2, <5>1, <5>2
        <4> QED
          BY <1>6, <4>1, <4>2, <4>3
      <3> QED
        BY <3>1, <3>2
    <2> HIDE DEF K
    <2> QED
      BY <2>1, <2>3 DEF Kernels
  <1>10. Applied(w) = K
    BY <1>8, <1>9, OneKernel
  <1> QED
    BY <1>4, <1>5, <1>7, <1>10 DEF n, w

LEMMA AppliedSuppresses ==
    ASSUME NEW h, WellFormed(h), NEW i \in Applied(h)
    PROVE  From(h, i).suppressed = From(h, i + 1).suppressed \cup h[i].targets
  <1> DEFINE r == From(h, i + 1)
  <1>1. i \in DOMAIN h
    BY DEF Applied, CorrectionsOf
  <1>2. i \in CorrectionsOf(h) /\ r \in Resolution(h) /\ From(h, i) = TakeOver(r, h, h[i])
    BY <1>1, FromStep
  <1> HIDE DEF r
  <1>3. TakeOver(r, h, h[i]).suppressed = r.suppressed \cup h[i].targets
    BY <1>2, TakeOverType, ZenonT(30)
  <1> QED
    BY <1>2, <1>3 DEF r

\* Corrections newer than c are resolved before it, whatever c names.
LEMMA SameSuffix ==
    ASSUME NEW h, WellFormed(h), NEW c \in CorrectionsOf(h)
    PROVE  /\ \A i \in c + 1 .. Len(h) + 1 :
                 From(h, i).suppressed = From(WithoutTargets(h, c), i).suppressed
           /\ \A d \in CorrectionsOf(h) :
                 d >= c => (d \in Applied(h) <=> d \in Applied(WithoutTargets(h, c)))
  <1> DEFINE n == Len(h)
             w == WithoutTargets(h, c)
             Same(i) == i >= c + 1 => From(h, i).suppressed = From(w, i).suppressed
             S == {i \in 1 .. n + 1 : Same(i)}
  <1>1. /\ n \in Nat /\ DOMAIN h = 1 .. n /\ c \in 1 .. n
        /\ \A d \in CorrectionsOf(h) : d \in 1 .. n
    BY FromUnfolds, CorrectionAt
  <1>2. /\ WellFormed(w) /\ Len(w) = n /\ DOMAIN w = DOMAIN h
        /\ CorrectionsOf(w) = CorrectionsOf(h)
        /\ \A i \in DOMAIN h \ {c} : w[i] = h[i]
    BY WithoutTargetsType
  <1> HIDE DEF n, w
  <1>3. n + 1 \in S
    <2>1. From(h, n + 1) = Untouched(h) /\ From(w, n + 1) = Untouched(w)
      BY <1>2, FromUnfolds DEF n
    <2>2. Untouched(h).suppressed = {} /\ Untouched(w).suppressed = {}
      BY DEF Untouched
    <2>3. Same(n + 1)
      BY <2>1, <2>2
    <2> QED
      BY <1>1, <2>3
  <1>4. ASSUME NEW i \in 1 .. n, i + 1 \in S PROVE i \in S
    <2>1. ASSUME i >= c + 1 PROVE From(h, i).suppressed = From(w, i).suppressed
      <3>1. /\ i \in DOMAIN h /\ i \in DOMAIN w /\ w[i] = h[i]
            /\ From(h, i + 1).suppressed = From(w, i + 1).suppressed
        BY <1>1, <1>2, <1>4, <2>1
      <3>2. i \in Applied(h) <=> i \in Applied(w)
        BY <1>2, <3>1 DEF Applied
      <3>3. CASE i \notin Applied(h)
        BY <1>2, <3>1, <3>2, <3>3, FromStep
      <3>4. CASE i \in Applied(h)
        <4>1. From(h, i).suppressed = From(h, i + 1).suppressed \cup h[i].targets
          BY <3>4, AppliedSuppresses
        <4>2. From(w, i).suppressed = From(w, i + 1).suppressed \cup w[i].targets
          BY <1>2, <3>2, <3>4, AppliedSuppresses
        <4> QED
          BY <3>1, <4>1, <4>2
      <3> QED
        BY <3>3, <3>4
    <2>2. i \in 1 .. n + 1 /\ Same(i)
      BY <1>1, <2>1
    <2> QED
      BY <2>2
  <1> HIDE DEF S
  <1>5. 1 .. n + 1 \subseteq S
    BY <1>1, <1>3, <1>4, Newest!InductionDownto
  <1>6. \A i \in c + 1 .. n + 1 : From(h, i).suppressed = From(w, i).suppressed
    BY <1>1, <1>5 DEF S
  <1>7. \A d \in CorrectionsOf(h) : d >= c => d + 1 \in c + 1 .. n + 1
    BY <1>1
  <1> QED
    BY <1>2, <1>6, <1>7 DEF Applied, n, w

\* A replacement stands at one of its targets.
LEMMA ReplacesTarget ==
    ASSUME NEW h, WellFormed(h), NEW d \in Applied(h), NEW x, Replaces(h, d, x)
    PROVE  x \in h[d].targets
  BY CorrectionAt DEF Applied, Replaces

\* With the reversal, everything but c itself stands as if c had named nothing;
\* and what stands after c stands as it did before.
LEMMA UndoPlaces ==
    ASSUME NEW h, WellFormed(h), Resolve(h).valid, NEW c \in CorrectionsOf(h),
           NEW g, WellFormed(g), Resolve(g).valid, Reverses(h, c, g)
    PROVE  /\ Resolve(WithoutTargets(h, c)).valid
           /\ \A x \in DOMAIN h \ {c} : SamePlace(g, WithoutTargets(h, c), x)
           /\ \A x \in DOMAIN h : x > c => SamePlace(h, WithoutTargets(h, c), x)
           /\ c \in Resolve(g).suppressed /\ Resolve(g).inserted[c] = <<>>
           /\ c \notin Resolve(h).suppressed /\ Resolve(h).inserted[c] = <<>>
           /\ c \notin Resolve(WithoutTargets(h, c)).suppressed
           /\ Resolve(WithoutTargets(h, c)).inserted[c] = <<>>
  <1> DEFINE n == Len(h)
             w == WithoutTargets(h, c)
  <1>1. /\ n \in Nat /\ DOMAIN g = 1 .. n + 1 /\ DOMAIN h = 1 .. n
        /\ g[n + 1] = Reversal({c}) /\ \A i \in 1 .. n : g[i] = h[i]
    <2>1. h \in Seq(Events)
      BY DEF WellFormed
    <2> QED
      BY <2>1 DEF Reverses
  <1>2. /\ WellFormed(w) /\ DOMAIN w = 1 .. n
        /\ CorrectionsOf(w) = CorrectionsOf(h)
        /\ \A i \in 1 .. n : i # c => w[i] = h[i]
        /\ \A i \in 1 .. n : w[i].type = h[i].type
        /\ w[c].targets = {} /\ w[c].with = <<>>
    BY <1>1, WithoutTargetsType
  <1>3. /\ Applied(w) = (Applied(g) \ {n + 1}) \cup {c}
        /\ n + 1 \in Applied(g) /\ c \notin Applied(g)
        /\ \A d \in Applied(g) : c \in g[d].targets => d = n + 1
    BY ReversalApplies
  <1>4. \A d \in CorrectionsOf(h) : d >= c => (d \in Applied(h) <=> d \in Applied(w))
    BY SameSuffix
  <1>5. Reversal({c}).targets = {c} /\ Reversal({c}).with = <<>>
    BY DEF Reversal
  <1>6. c \in 1 .. n
    BY CorrectionAt
  <1>7. /\ \A d \in Applied(h) : d \in 1 .. n /\ h[d].targets \subseteq 1 .. d - 1
        /\ \A d \in Applied(w) : d \in 1 .. n /\ w[d].targets \subseteq 1 .. d - 1
    BY <1>2, CorrectionAt DEF Applied
  <1> HIDE DEF n, w
  <1>8. ASSUME NEW d \in Applied(w), d # c
        PROVE  d \in Applied(g) /\ d \in 1 .. n /\ w[d] = h[d] /\ g[d] = h[d]
    BY <1>1, <1>2, <1>3, <1>7, <1>8
  <1>9. Resolve(w).valid
    <2>1. ASSUME NEW d \in Applied(w)
          PROVE  TargetsAllowed(w, w[d]) /\ w[d].targets \cap NamedFrom(w, d + 1) = {}
      <3>1. CASE d = c
        BY <1>2, <3>1 DEF TargetsAllowed
      <3>2. CASE d # c
        <4>1. d \in Applied(g) /\ d \in 1 .. n /\ w[d] = g[d]
          BY <1>8, <3>2
        <4>2. TargetsAllowed(g, g[d])
          BY <4>1, AppliedIsAllowed
        <4>3. \A t \in w[d].targets : t \in 1 .. n /\ w[t].type = g[t].type
          BY <1>1, <1>2, <1>7
        <4>4. TargetsAllowed(w, w[d])
          BY <4>1, <4>2, <4>3 DEF TargetsAllowed
        <4>5. ASSUME NEW e \in Applied(w), e >= d + 1 PROVE w[d].targets \cap w[e].targets = {}
          <5>1. CASE e = c
            BY <1>2, <5>1
          <5>2. CASE e # c
            <6>1. e \in Applied(g) /\ w[e] = g[e] /\ e # d
              BY <1>7, <1>8, <4>1, <4>5, <5>2
            <6> QED
              BY <4>1, <6>1, AppliedApart
          <5> QED
            BY <5>1, <5>2
        <4> QED
          BY <4>4, <4>5 DEF NamedFrom
      <3> QED
        BY <3>1, <3>2
    <2> QED
      BY <1>2, <2>1, ValidIfAllowed
  <1>10. ASSUME NEW x \in DOMAIN h \ {c} PROVE SamePlace(g, w, x)
    <2>1. x \in DOMAIN g /\ x \in DOMAIN w /\ g[x] = w[x]
      BY <1>1, <1>2, <1>10
    <2>2. ASSUME NEW d \in Applied(g), x \in g[d].targets PROVE d \in Applied(w) /\ w[d] = g[d]
      <3>1. d # n + 1
        BY <1>1, <1>5, <1>10, <2>2
      <3>2. d \in Applied(w) /\ d # c
        BY <1>3, <3>1
      <3> QED
        BY <1>8, <3>2
    <2>3. ASSUME NEW d \in Applied(w), x \in w[d].targets PROVE d \in Applied(g) /\ w[d] = g[d]
      BY <1>2, <1>8, <2>3
    <2>4. \A d \in Applied(g) : Replaces(g, d, x) => x \in g[d].targets
      BY ReplacesTarget
    <2>5. \A d \in Applied(w) : Replaces(w, d, x) => x \in w[d].targets
      BY <1>2, ReplacesTarget
    <2> QED
      BY <2>1, <2>2, <2>3, <2>4, <2>5 DEF SamePlace
  <1>11. ASSUME NEW x \in DOMAIN h, x > c PROVE SamePlace(h, w, x)
    <2>1. x \in 1 .. n /\ x \in DOMAIN w /\ h[x] = w[x]
      BY <1>1, <1>2, <1>6, <1>11
    <2>2. ASSUME NEW d \in Applied(h), x \in h[d].targets PROVE d \in Applied(w) /\ w[d] = h[d]
      <3>1. d > x /\ d \in 1 .. n /\ d \in CorrectionsOf(h)
        BY <1>7, <2>1, <2>2 DEF Applied
      <3>2. d > c
        BY <1>6, <1>11, <2>1, <3>1
      <3> QED
        BY <1>2, <1>4, <1>6, <3>1, <3>2
    <2>3. ASSUME NEW d \in Applied(w), x \in w[d].targets PROVE d \in Applied(h) /\ w[d] = h[d]
      <3>1. d > x /\ d \in 1 .. n /\ d \in CorrectionsOf(h)
        BY <1>2, <1>7, <2>1, <2>3 DEF Applied
      <3>2. d > c
        BY <1>6, <1>11, <2>1, <3>1
      <3> QED
        BY <1>2, <1>4, <1>6, <3>1, <3>2
    <2>4. \A d \in Applied(h) : Replaces(h, d, x) => x \in h[d].targets
      BY ReplacesTarget
    <2>5. \A d \in Applied(w) : Replaces(w, d, x) => x \in w[d].targets
      BY <1>2, ReplacesTarget
    <2> QED
      BY <1>1, <2>1, <2>2, <2>3, <2>4, <2>5 DEF SamePlace
  <1>12. c \in Resolve(g).suppressed /\ Resolve(g).inserted[c] = <<>>
    <2>1. c \in DOMAIN g
      BY <1>1, <1>6
    <2>2. c \in g[n + 1].targets /\ g[n + 1].with = <<>>
      BY <1>1, <1>5
    <2>3. \A d \in Applied(g) : ~Replaces(g, d, c)
      BY <1>3, <2>2, ReplacesTarget DEF Replaces
    <2> QED
      BY <1>3, <2>1, <2>2, <2>3, PlaceContent
  <1>13. c \notin Resolve(h).suppressed /\ Resolve(h).inserted[c] = <<>>
    <2>1. c \in Applied(h) /\ c \in DOMAIN h
      BY <1>1, <1>3, <1>4, <1>6
    <2>2. \A d \in Applied(h) : c \notin h[d].targets
      BY <2>1, AppliedIsKernel DEF Kernels
    <2> QED
      BY <2>1, <2>2, ReplacesTarget, PlaceContent
  <1>14. c \notin Resolve(w).suppressed /\ Resolve(w).inserted[c] = <<>>
    <2>1. c \in Applied(w) /\ c \in DOMAIN w /\ c \in CorrectionsOf(w)
      BY <1>2, <1>3, <1>6
    <2>2. \A d \in Applied(w) : c \notin w[d].targets
      BY <1>2, <2>1, AppliedIsKernel DEF Kernels
    <2> QED
      BY <1>2, <1>9, <2>1, <2>2, ReplacesTarget, PlaceContent
  <1> QED
    BY <1>9, <1>10, <1>11, <1>12, <1>13, <1>14 DEF w

-----------------------------------------------------------------------------
(* The replay with a correction reversed *)

\* Three replays, as the sets of the states they have reached: the one with c
\* reversed, the one in which c was in effect, and the one in which it named
\* nothing.  As long as the second goes on, the first and the third are in the
\* same game, except while c itself could not have been accepted where the first
\* one stands: then nothing but an abandonment can follow.
Undone(reversed, before, unnamed) ==
    before = {} \/ \A s \in reversed :
        \/ s.status = "ABANDONED"
        \/ \E t \in unnamed : SameGame(s, t)
        \/ ~CanCorrect(s) /\ \A u \in before : u.status \in {"IN_PROGRESS", "CORRECTED"}

Onward(states, b) == {Apply(t, b) : t \in {u \in states : Accepts(u, b)}}

LEMMA UndoneStep ==
    ASSUME NEW G \in SUBSET State, NEW H \in SUBSET State, NEW W \in SUBSET State,
           Undone(G, H, W), NEW b \in Events
    PROVE  Undone(Onward(G, b), Onward(H, b), Onward(W, b))
  <1> SUFFICES ASSUME Onward(H, b) # {}, NEW s \in Onward(G, b)
               PROVE  \/ s.status = "ABANDONED"
                      \/ \E t \in Onward(W, b) : SameGame(s, t)
                      \/ /\ ~CanCorrect(s)
                         /\ \A u \in Onward(H, b) : u.status \in {"IN_PROGRESS", "CORRECTED"}
    BY DEF Undone
  <1>1. PICK v \in G : Accepts(v, b) /\ s = Apply(v, b)
    BY DEF Onward
  <1>2. v \in State /\ s \in State /\ Lifecycle(v, s, b)
    BY <1>1, ApplyEffect
  <1>3. PICK h \in H : Accepts(h, b)
    BY DEF Onward
  <1>4. h \in State /\ Lifecycle(h, Apply(h, b), b)
    BY <1>3, ApplyEffect
  <1>5. CASE v.status = "ABANDONED"
    BY <1>2, <1>5 DEF Lifecycle
  <1>6. CASE \E t \in W : SameGame(v, t)
    <2>1. PICK t \in W : SameGame(v, t)
      BY <1>6
    <2>2. Accepts(t, b) /\ SameGame(s, Apply(t, b))
      BY <1>1, <1>2, <2>1, SameGameStep
    <2> QED
      BY <2>2 DEF Onward
  <1>7. CASE ~CanCorrect(v) /\ \A u \in H : u.status \in {"IN_PROGRESS", "CORRECTED"}
    <2>1. h.status \in {"IN_PROGRESS", "CORRECTED"}
      BY <1>7
    <2>2. b.type = "GameAbandoned" /\ s = [v EXCEPT !.status = "ABANDONED"]
      BY <1>2, <1>4, <1>7, <2>1 DEF Lifecycle, CanCorrect
    <2> QED
      BY <1>2, <2>2 DEF State
  <1> QED
    BY <1>1, <1>3, <1>5, <1>6, <1>7 DEF Undone

LEMMA ReachedType ==
    ASSUME NEW q \in Seq(Events)
    PROVE  Reached(q) \in SUBSET State
  BY ReachedOne

LEMMA UndoneAppend ==
    ASSUME NEW p \in Seq(Events), NEW q \in Seq(Events), NEW r \in Seq(Events), NEW b \in Events,
           Undone(Reached(p), Reached(q), Reached(r))
    PROVE  Undone(Reached(Append(p, b)), Reached(Append(q, b)), Reached(Append(r, b)))
  <1>1. /\ Reached(Append(p, b)) = Onward(Reached(p), b)
        /\ Reached(Append(q, b)) = Onward(Reached(q), b)
        /\ Reached(Append(r, b)) = Onward(Reached(r), b)
    BY ReachedAppend DEF Onward
  <1>2. Undone(Onward(Reached(p), b), Onward(Reached(q), b), Onward(Reached(r), b))
    BY ReachedType, UndoneStep
  <1> QED
    BY <1>1, <1>2

\* The first i elements of r after q.
Grown(q, r, i) == q \o SubSeq(r, 1, i)

LEMMA GrownUnfolds ==
    ASSUME NEW q \in Seq(Events), NEW r \in Seq(Events)
    PROVE  /\ Grown(q, r, 0) = q /\ Grown(q, r, Len(r)) = q \o r
           /\ \A i \in 0 .. Len(r) : Grown(q, r, i) \in Seq(Events)
           /\ \A i \in 1 .. Len(r) : Grown(q, r, i) = Append(Grown(q, r, i - 1), r[i])
  <1>1. SubSeq(r, 1, 0) = <<>> /\ SubSeq(r, 1, Len(r)) = r
    OBVIOUS
  <1>2. \A i \in 0 .. Len(r) : SubSeq(r, 1, i) \in Seq(Events)
    OBVIOUS
  <1>3. ASSUME NEW i \in 1 .. Len(r)
        PROVE  q \o SubSeq(r, 1, i) = Append(q \o SubSeq(r, 1, i - 1), r[i])
    <2> DEFINE d == SubSeq(r, 1, i - 1)
    <2>1. /\ d \in Seq(Events) /\ r[i] \in Events /\ <<r[i]>> \in Seq(Events)
          /\ SubSeq(r, 1, i) = Append(d, r[i])
      OBVIOUS
    <2> HIDE DEF d
    <2>2. q \o Append(d, r[i]) = (q \o d) \o <<r[i]>>
      <3>1. Append(d, r[i]) = d \o <<r[i]>>
        BY <2>1, AppendIsConcat
      <3>2. q \o (d \o <<r[i]>>) = (q \o d) \o <<r[i]>>
        BY <2>1, ConcatAssociative
      <3> QED
        BY <3>1, <3>2
    <2>3. q \o d \in Seq(Events)
      BY <2>1, ConcatProperties
    <2>4. (q \o d) \o <<r[i]>> = Append(q \o d, r[i])
      BY <2>1, <2>3, AppendIsConcat
    <2> QED
      BY <2>1, <2>2, <2>4 DEF d
  <1>4. q \o <<>> = q
    OBVIOUS
  <1> QED
    BY <1>1, <1>2, <1>3, <1>4, SMTT(20) DEF Grown

LEMMA UndoneConcat ==
    ASSUME NEW p \in Seq(Events), NEW q \in Seq(Events), NEW r \in Seq(Events), NEW m \in Seq(Events),
           Undone(Reached(p), Reached(q), Reached(r))
    PROVE  Undone(Reached(p \o m), Reached(q \o m), Reached(r \o m))
  <1> DEFINE n == Len(m)
             AtStep(i) == Undone(Reached(Grown(p, m, i)), Reached(Grown(q, m, i)), Reached(Grown(r, m, i)))
             S == {i \in 0 .. n : AtStep(i)}
  <1>1. n \in Nat /\ \A i \in 1 .. n : m[i] \in Events
    OBVIOUS
  <1>2. AtStep(0)
    BY GrownUnfolds
  <1>3. ASSUME NEW i \in 1 .. n, AtStep(i - 1) PROVE AtStep(i)
    <2>1. i - 1 \in 0 .. Len(m)
      OBVIOUS
    <2>2. /\ Grown(p, m, i - 1) \in Seq(Events) /\ Grown(q, m, i - 1) \in Seq(Events)
          /\ Grown(r, m, i - 1) \in Seq(Events)
      BY <2>1, GrownUnfolds
    <2>3. /\ Grown(p, m, i) = Append(Grown(p, m, i - 1), m[i])
          /\ Grown(q, m, i) = Append(Grown(q, m, i - 1), m[i])
          /\ Grown(r, m, i) = Append(Grown(r, m, i - 1), m[i])
      BY GrownUnfolds, ZenonT(30)
    <2> QED
      BY <1>1, <1>3, <2>2, <2>3, UndoneAppend
  <1> HIDE DEF AtStep, n
  <1>4. 0 \in S /\ \A i \in 1 .. n : i - 1 \in S => i \in S
    BY <1>1, <1>2, <1>3
  <1> HIDE DEF S
  <1>5. 0 .. n \subseteq S
    BY <1>1, <1>4, Reach!InductionUpto
  <1>6. AtStep(n)
    BY <1>1, <1>5 DEF S
  <1> QED
    BY <1>6, GrownUnfolds DEF AtStep, n

\* What stands at place x, in the order of the history.
InPlace(h, x) == EffectiveStep(h, <<>>, x)

LEMMA StandingFollows ==
    ASSUME NEW h, WellFormed(h), NEW x \in DOMAIN h, NEW bodies \in Seq(Events)
    PROVE  /\ InPlace(h, x) \in Seq(Events)
           /\ EffectiveStep(h, bodies, x) = bodies \o InPlace(h, x)
  <1> DEFINE placed == Resolve(h).inserted[x]
             own    == IF x \in Resolve(h).suppressed THEN <<>> ELSE <<h[x]>>
  <1>1. placed \in Seq(Events)
    <2>1. placed \in Seq(Admitted)
      BY FromUnfolds, FromType DEF Resolution
    <2> QED
      BY <2>1 DEF Events
  <1>2. own \in Seq(Events)
    BY DEF WellFormed
  <1>3. /\ EffectiveStep(h, bodies, x) = bodies \o placed \o own
        /\ InPlace(h, x) = <<>> \o placed \o own
    BY DEF EffectiveStep, InPlace
  <1> HIDE DEF placed, own
  <1>4. placed \o own \in Seq(Events) /\ <<>> \o placed = placed
    BY <1>1, <1>2, ConcatProperties, ConcatEmptySeq
  <1>5. (bodies \o placed) \o own = bodies \o (placed \o own)
    BY <1>1, <1>2, ConcatAssociative
  <1> QED
    BY <1>3, <1>4, <1>5

\* At the place of c the replay without targets applies c itself and the one with
\* the reversal does nothing.
LEMMA UndoneAtPlace ==
    ASSUME NEW q \in Seq(Events), NEW p \in Seq(Events),
           NEW b \in Events, NEW d \in Events, IsCorrection(b), IsCorrection(d)
    PROVE  Undone(Reached(q), Reached(Append(p, d)), Reached(Append(q, b)))
  <1>1. Reached(Append(q, b)) = Onward(Reached(q), b) /\ Reached(Append(p, d)) = Onward(Reached(p), d)
    BY ReachedAppend DEF Onward
  <1>2. ASSUME NEW u \in Reached(Append(p, d)) PROVE u.status \in {"IN_PROGRESS", "CORRECTED"}
    <2>1. PICK v \in Reached(p) : Accepts(v, d) /\ u = Apply(v, d)
      BY <1>1 DEF Onward
    <2>2. v \in State /\ u = CorrectedGame(v)
      BY <2>1, ReachedOne DEF Apply, IsCorrection
    <2> QED
      BY <2>2 DEF CorrectedGame, State
  <1>3. ASSUME NEW s \in Reached(q), CanCorrect(s)
        PROVE  \E t \in Reached(Append(q, b)) : SameGame(s, t)
    <2>1. s \in State
      BY ReachedOne
    <2>2. SameGame(s, CorrectedGame(s))
      BY <1>3, <2>1, CorrectionKeepsGame
    <2>3. Accepts(s, b) /\ Apply(s, b) = CorrectedGame(s)
      BY <1>3 DEF Accepts, Apply, IsCorrection
    <2> QED
      BY <1>1, <2>2, <2>3 DEF Onward
  <1> QED
    BY <1>2, <1>3 DEF Undone

\* Along the history, the three replays stay so.
LEMMA UndoReplays ==
    ASSUME NEW h, WellFormed(h), Resolve(h).valid, NEW c \in CorrectionsOf(h),
           NEW g, WellFormed(g), Resolve(g).valid, Reverses(h, c, g)
    PROVE  /\ Left!Upto(g, Len(g))[Len(h)] \in Seq(Events)
           /\ Undone(Reached(Left!Upto(g, Len(g))[Len(h)]), Reached(Effective(h)),
                     Reached(Effective(WithoutTargets(h, c))))
  <1> DEFINE n == Len(h)
             w == WithoutTargets(h, c)
             gs(i) == Left!Upto(g, Len(g))[i]
             hs(i) == Left!Upto(h, n)[i]
             ws(i) == Left!Upto(w, n)[i]
             Matched(i) == IF i < c THEN gs(i) = ws(i)
                           ELSE Undone(Reached(gs(i)), Reached(hs(i)), Reached(ws(i)))
             S == {i \in 0 .. n : Matched(i)}
  <1>1. n \in Nat /\ Len(g) = n + 1 /\ DOMAIN h = 1 .. n /\ DOMAIN g = 1 .. n + 1
    <2>1. h \in Seq(Events)
      BY DEF WellFormed
    <2> QED
      BY <2>1 DEF Reverses
  <1>2. WellFormed(w) /\ Len(w) = n /\ DOMAIN w = 1 .. n /\ w[c] \in Corrections
    BY <1>1, WithoutTargetsType
  <1>3. c \in 1 .. n /\ h[c] \in Corrections
    BY CorrectionAt
  <1>4. /\ Effective(h) = hs(n) /\ Effective(w) = ws(n)
        /\ gs(0) = <<>> /\ ws(0) = <<>>
        /\ \A i \in 0 .. n : gs(i) \in Seq(Events) /\ hs(i) \in Seq(Events) /\ ws(i) \in Seq(Events)
        /\ \A i \in 1 .. n : /\ gs(i) = EffectiveStep(g, gs(i - 1), i)
                             /\ hs(i) = EffectiveStep(h, hs(i - 1), i)
                             /\ ws(i) = EffectiveStep(w, ws(i - 1), i)
    <2>1. \A i \in 0 .. n : i \in 0 .. Len(g)
      BY <1>1
    <2>2. \A i \in 1 .. n : i \in 1 .. Len(g)
      BY <1>1
    <2>3. /\ gs(0) = <<>> /\ \A i \in 0 .. Len(g) : gs(i) \in Seq(Events)
          /\ \A i \in 1 .. Len(g) : gs(i) = EffectiveStep(g, gs(i - 1), i)
      BY EffectiveAt
    <2>4. /\ Effective(h) = hs(n) /\ \A i \in 0 .. n : hs(i) \in Seq(Events)
          /\ \A i \in 1 .. n : hs(i) = EffectiveStep(h, hs(i - 1), i)
      BY EffectiveAt
    <2>5. /\ Effective(w) = ws(n) /\ ws(0) = <<>> /\ \A i \in 0 .. n : ws(i) \in Seq(Events)
          /\ \A i \in 1 .. n : ws(i) = EffectiveStep(w, ws(i - 1), i)
      BY <1>2, EffectiveAt
    <2> HIDE DEF gs, hs, ws, n
    <2> QED
      BY <2>1, <2>2, <2>3, <2>4, <2>5
  <1>5. /\ Resolve(w).valid
        /\ \A x \in 1 .. n : x # c => SamePlace(g, w, x)
        /\ \A x \in 1 .. n : x > c => SamePlace(h, w, x)
        /\ c \in Resolve(g).suppressed /\ Resolve(g).inserted[c] = <<>>
        /\ c \notin Resolve(h).suppressed /\ Resolve(h).inserted[c] = <<>>
        /\ c \notin Resolve(w).suppressed /\ Resolve(w).inserted[c] = <<>>
    BY <1>1, UndoPlaces
  <1> HIDE DEF n, w, gs, hs, ws
  <1>6. 0 \in S
    <2>1. Matched(0)
      BY <1>3, <1>4
    <2> QED
      BY <1>1, <2>1
  <1>7. ASSUME NEW i \in 1 .. n, i - 1 \in S PROVE i \in S
    <2>1. /\ gs(i - 1) \in Seq(Events) /\ hs(i - 1) \in Seq(Events) /\ ws(i - 1) \in Seq(Events)
          /\ gs(i) = EffectiveStep(g, gs(i - 1), i)
          /\ hs(i) = EffectiveStep(h, hs(i - 1), i)
          /\ ws(i) = EffectiveStep(w, ws(i - 1), i)
      <3>1. i - 1 \in 0 .. n
        BY <1>1
      <3> QED
        BY <1>4, <3>1
    <2>2. CASE i < c
      <3>1. gs(i - 1) = ws(i - 1)
        BY <1>3, <1>7, <2>2
      <3>2. EffectiveStep(g, gs(i - 1), i) = EffectiveStep(w, gs(i - 1), i)
        BY <1>2, <1>3, <1>5, <2>2, SamePlaceStep
      <3>3. gs(i) = ws(i)
        BY <2>1, <3>1, <3>2
      <3> QED
        BY <1>1, <2>2, <3>3
    <2>3. CASE i = c
      <3>1. gs(c - 1) = ws(c - 1)
        BY <1>3, <1>7, <2>3
      <3>2. gs(c) = gs(c - 1)
        <4>1. gs(c) = gs(c - 1) \o <<>> \o <<>>
          BY <1>5, <2>1, <2>3 DEF EffectiveStep
        <4> QED
          BY <2>1, <2>3, <4>1, ConcatEmptySeq
      <3>3. ws(c) = Append(gs(c - 1), w[c])
        <4>1. ws(c) = ws(c - 1) \o <<>> \o <<w[c]>>
          BY <1>5, <2>1, <2>3 DEF EffectiveStep
        <4> QED
          BY <1>2, <2>1, <2>3, <3>1, <4>1, ConcatEmptySeq, AppendIsConcat DEF Events
      <3>4. hs(c) = Append(hs(c - 1), h[c])
        <4>1. hs(c) = hs(c - 1) \o <<>> \o <<h[c]>>
          BY <1>5, <2>1, <2>3 DEF EffectiveStep
        <4> QED
          BY <1>3, <2>1, <2>3, <4>1, ConcatEmptySeq, AppendIsConcat DEF Events
      <3>5. Undone(Reached(gs(c)), Reached(hs(c)), Reached(ws(c)))
        <4>1. w[c] \in Events /\ IsCorrection(w[c]) /\ h[c] \in Events /\ IsCorrection(h[c])
          BY <1>2, <1>3 DEF Events, Corrections, IsCorrection
        <4> QED
          BY <2>1, <2>3, <3>2, <3>3, <3>4, <4>1, UndoneAtPlace
      <3> QED
        BY <1>1, <1>3, <2>3, <3>5
    <2>4. CASE i > c
      <3> DEFINE m == InPlace(w, i)
      <3>1. Undone(Reached(gs(i - 1)), Reached(hs(i - 1)), Reached(ws(i - 1)))
        BY <1>1, <1>3, <1>7, <2>4
      <3>2. /\ EffectiveStep(g, gs(i - 1), i) = EffectiveStep(w, gs(i - 1), i)
            /\ EffectiveStep(h, hs(i - 1), i) = EffectiveStep(w, hs(i - 1), i)
        BY <1>2, <1>3, <1>5, <2>4, SamePlaceStep
      <3>3. /\ m \in Seq(Events)
            /\ gs(i) = gs(i - 1) \o m /\ hs(i) = hs(i - 1) \o m /\ ws(i) = ws(i - 1) \o m
        BY <1>2, <2>1, <3>2, StandingFollows
      <3> HIDE DEF m
      <3>4. Undone(Reached(gs(i)), Reached(hs(i)), Reached(ws(i)))
        BY <2>1, <3>1, <3>3, UndoneConcat
      <3>5. ~(i < c) /\ i \in 0 .. n
        BY <1>1, <1>3, <2>4
      <3> QED
        BY <3>4, <3>5
    <2> QED
      BY <1>1, <1>3, <2>2, <2>3, <2>4
  <1> HIDE DEF S
  <1>8. 0 .. n \subseteq S
    BY <1>1, <1>6, <1>7, Left!InductionUpto
  <1>9. n \in 0 .. n /\ ~(n < c)
    BY <1>1, <1>3
  <1>10. gs(n) \in Seq(Events) /\ Undone(Reached(gs(n)), Reached(hs(n)), Reached(ws(n)))
    BY <1>4, <1>8, <1>9 DEF S
  <1> QED
    BY <1>4, <1>10 DEF n, w, gs, hs, ws

\* The reversal itself comes last.
LEMMA ReversalComesLast ==
    ASSUME NEW h, WellFormed(h), NEW c \in CorrectionsOf(h),
           NEW g, WellFormed(g), Resolve(g).valid, Reverses(h, c, g),
           Left!Upto(g, Len(g))[Len(h)] \in Seq(Events)
    PROVE  /\ Effective(g) = Append(Left!Upto(g, Len(g))[Len(h)], Reversal({c}))
           /\ Reversal({c}) \in Events
  <1> DEFINE n == Len(h)
             before == Left!Upto(g, Len(g))[n]
  <1>1. /\ n \in Nat /\ Len(g) = n + 1 /\ DOMAIN g = 1 .. n + 1 /\ g[n + 1] = Reversal({c})
        /\ n + 1 \in 1 .. n + 1 /\ (n + 1) - 1 = n
    <2>1. h \in Seq(Events)
      BY DEF WellFormed
    <2> QED
      BY <2>1 DEF Reverses
  <1>2. Reversal({c}) \in Events
    BY <1>1 DEF WellFormed
  <1> DEFINE x == n + 1
  <1>3. Effective(g) = EffectiveStep(g, before, x)
    <2>1. /\ Effective(g) = Left!Upto(g, Len(g))[Len(g)]
          /\ \A i \in 1 .. Len(g) : Left!Upto(g, Len(g))[i]
                                      = EffectiveStep(g, Left!Upto(g, Len(g))[i - 1], i)
      BY EffectiveAt
    <2>2. Left!Upto(g, Len(g))[x] = EffectiveStep(g, Left!Upto(g, Len(g))[x - 1], x)
      BY <1>1, <2>1
    <2> QED
      BY <1>1, <2>1, <2>2
  <1>4. \A d \in Applied(g) : x \notin g[d].targets
    <2>1. ASSUME NEW d \in Applied(g), x \in g[d].targets PROVE FALSE
      <3>1. d \in 1 .. n + 1 /\ g[d].targets \subseteq 1 .. d - 1
        BY <1>1, CorrectionAt DEF Applied
      <3> QED
        BY <1>1, <2>1, <3>1
    <2> QED
      BY <2>1
  <1>5. x \notin Resolve(g).suppressed /\ Resolve(g).inserted[x] = <<>>
    <2>1. x \in DOMAIN g
      BY <1>1
    <2> HIDE DEF x
    <2> QED
      BY <1>4, <2>1, ReplacesTarget, PlaceContent
  <1>6. Effective(g) = before \o <<>> \o <<Reversal({c})>>
    <2>1. g[x] = Reversal({c})
      BY <1>1
    <2> HIDE DEF x, before
    <2> QED
      BY <1>3, <1>5, <2>1 DEF EffectiveStep
  <1>7. before \in Seq(Events)
    OBVIOUS
  <1> HIDE DEF before, n
  <1>8. before \o <<>> \o <<Reversal({c})>> = Append(before, Reversal({c}))
    BY <1>2, <1>7, ConcatEmptySeq, AppendIsConcat
  <1> QED
    BY <1>2, <1>6, <1>8 DEF before, n

LEMMA UndoFollows ==
    ASSUME IInv, IInv', NEW c \in CorrectionsOf(history),
           history' = Append(history, Reversal({c}))
    PROVE  \E s \in Replay(WithoutTargets(history, c)) : Situation(s) = Situation(game')
  <1> DEFINE h == history
             g == history'
             w == WithoutTargets(history, c)
             before == Left!Upto(g, Len(g))[Len(h)]
  <1>1. WellFormed(h) /\ Resolve(h).valid /\ Reached(Effective(h)) = {game}
    BY GameReached
  <1>2. WellFormed(g) /\ Resolve(g).valid /\ game' \in Reached(Effective(g))
    BY DEF IInv, Replay, Reached
  <1>3. Reverses(h, c, g) /\ c \in CorrectionsOf(h)
    BY DEF Reverses
  <1> HIDE DEF g, h
  <1>4. WellFormed(w) /\ Resolve(w).valid
    BY <1>1, <1>2, <1>3, UndoPlaces, WithoutTargetsType DEF h
  <1>5. /\ before \in Seq(Events)
        /\ Undone(Reached(before), Reached(Effective(h)), Reached(Effective(w)))
    BY <1>1, <1>2, <1>3, UndoReplays DEF h
  <1>6. Effective(g) = Append(before, Reversal({c})) /\ Reversal({c}) \in Events
    BY <1>1, <1>2, <1>3, <1>5, ReversalComesLast
  <1> HIDE DEF before, w
  <1>7. PICK s \in Reached(before) : Accepts(s, Reversal({c})) /\ game' = Apply(s, Reversal({c}))
    BY <1>2, <1>5, <1>6, ReachedAppend
  <1>8. s \in State /\ CanCorrect(s) /\ game' = CorrectedGame(s)
    <2>1. Reversal({c}).type = "CorrectionApplied"
      BY DEF Reversal
    <2> QED
      BY <1>5, <1>7, <2>1, ReachedOne DEF Accepts, Apply
  <1>9. PICK t \in Reached(Effective(w)) : SameGame(s, t)
    <2>1. s.status # "ABANDONED"
      BY <1>8 DEF CanCorrect
    <2> QED
      BY <1>1, <1>5, <1>8, <2>1 DEF Undone
  <1>10. t \in State
    <2>1. Effective(w) \in Seq(Events)
      BY <1>4, EffectiveAt
    <2> QED
      BY <2>1, ReachedOne
  <1>11. Situation(t) = Situation(s)
    BY <1>8, <1>9, <1>10, SameSituation
  <1>12. Situation(s) = Situation(game')
    BY <1>8 DEF CorrectedGame, Situation, State
  <1>13. t \in Replay(w)
    BY <1>4 DEF Replay, Reached
  <1> QED
    BY <1>11, <1>12, <1>13 DEF w

\* Reversing a correction restores the situation as if it had never been made,
\* whatever was accepted in between.
THEOREM UndoCorrect == Spec => UndoRestores
  <1>1. ASSUME IInv, IInv', Next, NEW c \in CorrectionsOf(history),
               history' = Append(history, Reversal({c}))
        PROVE  \E s \in Replay(WithoutTargets(history, c)) : Situation(s) = Situation(game')
    BY <1>1, UndoFollows
  <1>2. IInv /\ IInv' /\ [Next]_vars =>
          [\A c \in CorrectionsOf(history) :
             history' = Append(history, Reversal({c})) =>
               \E s \in Replay(WithoutTargets(history, c)) : Situation(s) = Situation(game')]_vars
    BY <1>1
  <1> QED
    BY <1>2, HistoryInvariant, PTL DEF Spec, UndoRestores

-----------------------------------------------------------------------------
(* The box score: what holds along the replay *)

Counters == [Players -> Nat]
Box == [runs : Counters, battedIn : Counters, appearances : Counters, outs : Counters,
        runsAllowed : Counters, inherited : Counters, inheritedScored : Counters,
        putouts : [Sides -> Nat]]

Begun(s)   == s.status # "READY"
OnMound(s) == s.pitcher[FieldingSide(s)]

\* The runners are of the side at bat, and charged to pitchers of the side in the
\* field.  (The orders may be shorter than nine here, so that nobody says a runner
\* stands on one base only.)
OwnSides(s) ==
    /\ \A b \in Occupied(s) : Team[s.bases[b]] = BattingSide(s)
    /\ \A p \in Players : s.resp[p] # None => Team[s.resp[p]] = FieldingSide(s)

\* A game before its first pitch.
Untaken(s) == /\ s.inning = 0 /\ s.half = "NONE" /\ s.outs = 0
              /\ Occupied(s) = {} /\ \A p \in Players : s.resp[p] = None

SoundGame(s) ==
    /\ SoundLineup(s) /\ OwnSides(s)
    /\ s.active \subseteq s.participated /\ Runners(s) \subseteq s.participated
    /\ IF Begun(s) THEN s.inning # 0 /\ s.half # "NONE" ELSE Untaken(s)

\* The bases whose runners somebody else than the pitcher on the mound let on.
LeftOver(s) == {b \in Occupied(s) : s.resp[s.bases[b]] \notin {None, OnMound(s)}}

\* The outs a side has fielded.
OutsFielded(s, side) ==
    OutsOfFinishedHalves(s, side)
        + IF s.inning # 0 /\ side = FieldingSide(s) THEN s.outs ELSE 0

\* The box score agrees with the state of the replay.
Balanced(s, box) ==
    \A side \in Sides :
        /\ OfSide(box.runs, side) = s.score[side]
        /\ OfSide(box.runsAllowed, Other(side)) = s.score[side]
        /\ OfSide(box.outs, side) = OutsFielded(s, side)

\* A pitcher has let in inherited runners, and may yet let in those on base, but
\* no more than he inherited.
WithinInherited(s, box) ==
    \A p \in Players :
        box.inheritedScored[p] + (IF p = OnMound(s) THEN Cardinality(LeftOver(s)) ELSE 0)
            <= box.inherited[p]

\* Whoever is charged with anything, or may yet be, has appeared.
Appeared(s, box) ==
    /\ \A p \in Players : box.runsAllowed[p] + box.outs[p] > 0 => box.appearances[p] > 0
    /\ \A p \in Players : s.resp[p] # None => box.appearances[s.resp[p]] > 0
    /\ Begun(s) => \A side \in Sides : box.appearances[s.pitcher[side]] > 0

SoundBox(s, box) ==
    box \in Box /\ Balanced(s, box) /\ WithinInherited(s, box) /\ Appeared(s, box)

-----------------------------------------------------------------------------
(* Sums over the lines *)

N == Cardinality(Players)
SumFirst(counter) == 0
SumStep(counter, total, i) == total + counter[Line[i]]
Sum == INSTANCE Recursion WITH First <- SumFirst, Step <- SumStep

LEMMA SumUnfolds ==
    ASSUME NEW counter
    PROVE  /\ N \in Nat /\ SumOf(counter) = Sum!Upto(counter, N)[N]
           /\ Sum!Upto(counter, N)[0] = 0
           /\ \A i \in 1 .. N :
                 Sum!Upto(counter, N)[i] = Sum!Upto(counter, N)[i - 1] + counter[Line[i]]
  <1>1. N \in Nat
    BY LineupAssumption, FS_CardinalityType DEF N
  <1>2. SumOf(counter) = Sum!Upto(counter, N)[N]
    BY DEF SumOf, Sum!Upto, SumFirst, SumStep, N
  <1> QED
    BY <1>1, <1>2, Sum!UptoUnfolds DEF SumFirst, SumStep

\* Every player has one line.
LEMMA EveryLine ==
    /\ Line \in [1 .. N -> Players]
    /\ \A i, j \in 1 .. N : Line[i] = Line[j] => i = j
    /\ \A q \in Players : \E i \in 1 .. N : Line[i] = q
  <1>1. PICK f : f \in Bijection(1 .. N, Players)
    BY LineupAssumption, FS_CardinalityType DEF ExistsBijection, N
  <1>2. /\ f \in [1 .. N -> Players] /\ DOMAIN f = 1 .. N
        /\ \A i, j \in 1 .. N : f[i] = f[j] => i = j
        /\ \A q \in Players : \E i \in 1 .. N : f[i] = q
    BY <1>1 DEF Bijection, Injection, Surjection, IsInjective
  <1> DEFINE P(p) == /\ \A i, j \in DOMAIN p : p[i] = p[j] => i = j
                     /\ \A q \in Players : \E i \in DOMAIN p : p[i] = q
  <1>3. \E p \in [1 .. N -> Players] : P(p)
    BY <1>2
  <1>4. Line = CHOOSE p \in [1 .. N -> Players] : P(p)
    BY DEF Line, N
  <1>5. Line \in [1 .. N -> Players] /\ P(Line)
    BY <1>3, <1>4
  <1> QED
    BY <1>5

LEMMA SumType ==
    ASSUME NEW f \in Counters
    PROVE  SumOf(f) \in Nat /\ \A i \in 0 .. N : Sum!Upto(f, N)[i] \in Nat
  <1> DEFINE at(i) == Sum!Upto(f, N)[i]
             S == {i \in 0 .. N : at(i) \in Nat}
  <1>1. N \in Nat /\ at(0) = 0
        /\ \A i \in 1 .. N : at(i) = at(i - 1) + f[Line[i]]
    BY SumUnfolds
  <1>2. \A i \in 1 .. N : f[Line[i]] \in Nat
    BY EveryLine DEF Counters
  <1> HIDE DEF at
  <1>3. 0 \in S /\ \A i \in 1 .. N : i - 1 \in S => i \in S
    BY <1>1, <1>2
  <1> HIDE DEF S
  <1>4. 0 .. N \subseteq S
    BY <1>1, <1>3, Sum!InductionUpto
  <1>5. N \in S
    BY <1>1, <1>4
  <1> QED
    BY <1>4, <1>5, SumUnfolds DEF S, at

\* What every player gains, one for each item that is his, adds up to the items.
Gains(f, g, C, who) ==
    g = [p \in Players |-> f[p] + Cardinality({o \in C : who[o] = p})]

LEMMA SumGrows ==
    ASSUME NEW f \in Counters, NEW C, IsFiniteSet(C), NEW who \in [C -> Players],
           NEW g, Gains(f, g, C, who)
    PROVE  g \in Counters /\ SumOf(g) = SumOf(f) + Cardinality(C)
  <1> DEFINE mine(p) == {o \in C : who[o] = p}
             first(i) == {o \in C : \E j \in 1 .. i : who[o] = Line[j]}
             fat(i) == Sum!Upto(f, N)[i]
             gat(i) == Sum!Upto(g, N)[i]
             S == {i \in 0 .. N : gat(i) = fat(i) + Cardinality(first(i))}
  <1>1. \A p \in Players : IsFiniteSet(mine(p)) /\ Cardinality(mine(p)) \in Nat
    BY FS_Subset, FS_CardinalityType
  <1>2. g \in Counters /\ \A p \in Players : g[p] = f[p] + Cardinality(mine(p))
    <2>1. \A p \in Players : f[p] \in Nat
      BY DEF Counters
    <2>2. g = [p \in Players |-> f[p] + Cardinality(mine(p))]
      BY DEF Gains
    <2> HIDE DEF mine
    <2> QED
      BY <1>1, <2>1, <2>2 DEF Counters
  <1>3. N \in Nat /\ fat(0) = 0 /\ gat(0) = 0 /\ SumOf(f) = fat(N) /\ SumOf(g) = gat(N)
    BY SumUnfolds
  <1>4. ASSUME NEW i \in 1 .. N
        PROVE  /\ Line[i] \in Players /\ fat(i - 1) \in Nat /\ f[Line[i]] \in Nat
               /\ fat(i) = fat(i - 1) + f[Line[i]]
               /\ gat(i) = gat(i - 1) + f[Line[i]] + Cardinality(mine(Line[i]))
    <2>1. Line[i] \in Players
      BY EveryLine
    <2>2. i - 1 \in 0 .. N
      BY <1>3
    <2>3. fat(i - 1) \in Nat /\ gat(i - 1) \in Nat
      BY <1>2, <2>2, SumType
    <2>4. fat(i) = fat(i - 1) + f[Line[i]] /\ gat(i) = gat(i - 1) + g[Line[i]]
      BY SumUnfolds
    <2>5. g[Line[i]] = f[Line[i]] + Cardinality(mine(Line[i])) /\ f[Line[i]] \in Nat
          /\ Cardinality(mine(Line[i])) \in Nat
      BY <1>1, <1>2, <2>1 DEF Counters
    <2> HIDE DEF fat, gat, mine
    <2> QED
      BY <2>1, <2>3, <2>4, <2>5
  <1> HIDE DEF fat, gat
  <1>5. \A i \in 0 .. N : IsFiniteSet(first(i)) /\ Cardinality(first(i)) \in Nat
    BY FS_Subset, FS_CardinalityType
  <1>6. ASSUME NEW i \in 1 .. N
        PROVE  Cardinality(first(i)) = Cardinality(first(i - 1)) + Cardinality(mine(Line[i]))
    <2>1. first(i) = first(i - 1) \cup mine(Line[i])
      BY <1>3
    <2>2. first(i - 1) \cap mine(Line[i]) = {}
      BY <1>3, EveryLine
    <2>3. i - 1 \in 0 .. N
      BY <1>3
    <2>4. /\ IsFiniteSet(first(i - 1)) /\ IsFiniteSet(mine(Line[i]))
          /\ Cardinality(first(i - 1)) \in Nat /\ Cardinality(mine(Line[i])) \in Nat
      BY <1>1, <1>4, <1>5, <2>3
    <2> HIDE DEF first, mine
    <2>5. Cardinality(first(i - 1) \cup mine(Line[i]))
            = Cardinality(first(i - 1)) + Cardinality(mine(Line[i])) - Cardinality({})
      BY <2>2, <2>4, FS_Union
    <2>6. Cardinality({}) = 0
      BY FS_EmptySet
    <2> QED
      BY <2>1, <2>4, <2>5, <2>6
  <1>7. 0 \in S
    <2>1. first(0) = {}
      OBVIOUS
    <2> HIDE DEF first
    <2> QED
      BY <1>3, <2>1, FS_EmptySet
  <1>8. ASSUME NEW i \in 1 .. N, i - 1 \in S PROVE i \in S
    <2>1. Cardinality(mine(Line[i])) \in Nat /\ Cardinality(first(i - 1)) \in Nat /\ i - 1 \in 0 .. N
      <3>1. i - 1 \in 0 .. N
        BY <1>3
      <3>3. Line[i] \in Players
        BY EveryLine
      <3> HIDE DEF first, mine
      <3> QED
        BY <1>1, <1>5, <3>1, <3>3
    <2> HIDE DEF first, mine
    <2> QED
      BY <1>4, <1>6, <1>8, <2>1
  <1> HIDE DEF S
  <1>9. 0 .. N \subseteq S
    BY <1>3, <1>7, <1>8, Sum!InductionUpto
  <1>10. gat(N) = fat(N) + Cardinality(first(N))
    BY <1>3, <1>9 DEF S
  <1>11. first(N) = C
    BY EveryLine
  <1> QED
    BY <1>2, <1>3, <1>10, <1>11

\* The sum over a side grows by the items that are of its players.
LEMMA SideGrows ==
    ASSUME NEW f \in Counters, NEW C, IsFiniteSet(C), NEW who \in [C -> Players],
           NEW g, Gains(f, g, C, who), NEW side
    PROVE  /\ g \in Counters /\ OfSide(f, side) \in Nat
           /\ OfSide(g, side) = OfSide(f, side) + Cardinality({o \in C : Team[who[o]] = side})
  <1> DEFINE D == {o \in C : Team[who[o]] = side}
             v == [o \in D |-> who[o]]
             ff == [p \in Players |-> IF Team[p] = side THEN f[p] ELSE 0]
             gg == [p \in Players |-> IF Team[p] = side THEN g[p] ELSE 0]
  <1>1. g \in Counters
    BY SumGrows
  <1>2. ff \in Counters /\ IsFiniteSet(D) /\ v \in [D -> Players]
    BY FS_Subset DEF Counters
  <1>3. Gains(ff, gg, D, v)
    <2> SUFFICES ASSUME NEW p \in Players
                 PROVE  gg[p] = ff[p] + Cardinality({o \in D : v[o] = p})
      BY DEF Gains
    <2>1. CASE Team[p] = side
      <3>1. {o \in D : v[o] = p} = {o \in C : who[o] = p}
        BY <2>1
      <3> QED
        BY <2>1, <3>1 DEF Gains
    <2>2. CASE Team[p] # side
      <3>1. {o \in D : v[o] = p} = {}
        BY <2>2
      <3>2. gg[p] = 0 /\ ff[p] = 0
        BY <2>2
      <3>3. Cardinality({o \in D : v[o] = p}) = 0
        BY <3>1, FS_EmptySet
      <3> HIDE DEF gg, ff, D, v
      <3> QED
        BY <3>2, <3>3
    <2> QED
      BY <2>1, <2>2
  <1>4. OfSide(f, side) = SumOf(ff) /\ OfSide(g, side) = SumOf(gg)
    BY DEF OfSide
  <1> HIDE DEF D, v, ff, gg
  <1> QED
    BY <1>1, <1>2, <1>3, <1>4, SumGrows, SumType DEF D

\* Nobody has anything at the start.
LEMMA SumOfNothing ==
    ASSUME NEW side PROVE OfSide([p \in Players |-> 0], side) = 0
  <1> DEFINE f == [p \in Players |-> IF Team[p] = side THEN [q \in Players |-> 0][p] ELSE 0]
             S == {i \in 0 .. N : Sum!Upto(f, N)[i] = 0}
  <1>1. \A p \in Players : f[p] = 0
    OBVIOUS
  <1>2. OfSide([p \in Players |-> 0], side) = SumOf(f)
    BY DEF OfSide
  <1> HIDE DEF f
  <1>3. N \in Nat /\ 0 \in S /\ \A i \in 1 .. N : i - 1 \in S => i \in S
    BY <1>1, SumUnfolds, EveryLine
  <1> HIDE DEF S
  <1>4. 0 .. N \subseteq S
    BY <1>3, Sum!InductionUpto
  <1>5. N \in S
    BY <1>3, <1>4
  <1> QED
    BY <1>2, <1>5, SumUnfolds DEF S

-----------------------------------------------------------------------------
(* A play, in the state it is played in *)

\* What the reducer found out about a play before it took it.
Legal(s, b) ==
    /\ Moves(s, Batter(b), b.to, b.counts) /\ Begun(s)
    /\ "BATTER" \in DOMAIN b.to =>
          /\ Batter(b) \in Batters(s, BattingSide(s))
    /\ "BATTER" \notin DOMAIN b.to => Batter(b) = None
    /\ b.counts \subseteq Home(b.to)
    /\ \A o \in DOMAIN b.to \ {"BATTER"} : s.bases[o] # None /\ s.resp[s.bases[o]] # None

LEMMA PlayIsLegal ==
    ASSUME NEW s \in State, NEW b \in Admitted, b.type \in Plays, Accepts(s, b)
    PROVE  /\ Legal(s, b)
           /\ Apply(s, b) = AfterPlay(s, Batter(b), b.to, b.counts)
  <1>1. /\ DOMAIN b.to \subseteq Bases \cup {"BATTER"}
        /\ \A o \in DOMAIN b.to : b.to[o] \in Destinations
    BY AdmittedBodies DEF Paths, Plays
  <1>2. CASE b.type = "PlateAppearanceRecorded"
    <2>1. /\ Live(s) /\ BatterAt(s, b.batter) /\ "BATTER" \in DOMAIN b.to
          /\ LegalMovements(s, b.batter, b.to, b.counts, FALSE)
          /\ Apply(s, b) = AfterPlateAppearance(s, b.batter, b.to, b.counts)
          /\ Batter(b) = b.batter
      BY <1>2 DEF Accepts, Apply, CanRecordPlateAppearance, Batter
    <2>2. b.batter \in Batters(s, BattingSide(s)) /\ b.batter \in Players /\ Begun(s)
      BY <2>1 DEF BatterAt, Batters, State, Live, Begun
    <2>3. \A o \in DOMAIN b.to \ {"BATTER"} : s.bases[o] # None /\ s.resp[s.bases[o]] # None
      BY <2>1 DEF LegalMovements
    <2>4. DOMAIN b.to \subseteq Occupied(s) \cup {"BATTER"}
      BY <1>1, <2>3 DEF Occupied
    <2>5. Moves(s, b.batter, b.to, b.counts)
      BY <1>1, <2>1, <2>2, <2>4 DEF Moves
    <2>6. b.counts \subseteq Home(b.to)
      BY <2>1 DEF LegalMovements
    <2> QED
      BY <2>1, <2>2, <2>3, <2>5, <2>6 DEF Legal, AfterPlay
  <1>3. CASE b.type = "RunnerPlayRecorded"
    <2>1. /\ Live(s) /\ "BATTER" \notin DOMAIN b.to
          /\ LegalMovements(s, None, b.to, b.counts, FALSE)
          /\ Apply(s, b) = AfterRunnerPlay(s, b.to, b.counts)
          /\ Batter(b) = None
      BY <1>3 DEF Accepts, Apply, CanRecordRunnerPlay, CanMoveRunners, Batter
    <2>2. Begun(s)
      BY <2>1 DEF Live, Begun
    <2>3. \A o \in DOMAIN b.to \ {"BATTER"} : s.bases[o] # None /\ s.resp[s.bases[o]] # None
      BY <2>1 DEF LegalMovements
    <2>4. DOMAIN b.to \subseteq Occupied(s) \cup {"BATTER"}
      BY <1>1, <2>3 DEF Occupied
    <2>5. Moves(s, None, b.to, b.counts)
      BY <1>1, <2>1, <2>4 DEF Moves
    <2>6. b.counts \subseteq Home(b.to)
      BY <2>1 DEF LegalMovements
    <2> QED
      BY <2>1, <2>2, <2>3, <2>5, <2>6 DEF Legal, AfterPlay
  <1> QED
    BY <1>2, <1>3 DEF Plays

\* The score and the clock after a play.
Scored(t, s, to, counts) ==
    /\ t.score = [s.score EXCEPT ![BattingSide(s)] = @ + Cardinality(counts)]
    /\ s.outs + Cardinality(Outs(to)) = 3 =>
          /\ t.half   = IF s.half = "TOP" THEN "BOTTOM" ELSE "TOP"
          /\ t.inning = IF s.half = "TOP" THEN s.inning ELSE s.inning + 1

LEMMA PlayScores ==
    ASSUME NEW s \in State, NEW batter, NEW to, NEW counts, Moves(s, batter, to, counts),
           "BATTER" \notin DOMAIN to => batter = None
    PROVE  Scored(AfterPlay(s, batter, to, counts), s, to, counts)
  <1> DEFINE moved == AfterMovements(s, batter, to, counts)
             side  == BattingSide(s)
             turned == [moved EXCEPT !.cursor[side] = NextCursor(s, side)]
             next  == IF "BATTER" \in DOMAIN to THEN turned ELSE moved
             n     == Cardinality(Outs(to))
             score == [s.score EXCEPT ![side] = @ + Cardinality(counts)]
             t     == AfterPlay(s, batter, to, counts)
  <1>1. Entered(s, batter, to, counts)
    BY MovesOrigins
  <1>2. /\ moved \in State /\ moved.outs = s.outs /\ moved.score = score
        /\ moved.half = s.half /\ moved.inning = s.inning
    BY <1>1, MovementsType DEF AfterMovements, State
  <1>3. t = FinishOuts(next, n)
    BY DEF AfterPlay, AfterPlateAppearance, AfterRunnerPlay
  <1> HIDE DEF moved, n, score
  <1>4. /\ turned.outs = moved.outs /\ turned.score = moved.score
        /\ turned.half = moved.half /\ turned.inning = moved.inning
        /\ DOMAIN turned = DOMAIN moved
    BY <1>2 DEF State
  <1> HIDE DEF turned
  <1>5. /\ next.outs = s.outs /\ next.score = score
        /\ next.half = s.half /\ next.inning = s.inning /\ DOMAIN next = DOMAIN moved
    BY <1>2, <1>4
  <1>6. DOMAIN moved = DOMAIN s
    BY <1>2 DEF State
  <1> HIDE DEF next, t
  <1>7. FinishOuts(next, n).score = next.score
    <2>1. {"score", "outs", "bases", "resp", "half", "inning"} \subseteq DOMAIN next
      BY <1>5, <1>6 DEF State
    <2> QED
      BY <2>1 DEF FinishOuts
  <1>8. ASSUME s.outs + n = 3
        PROVE  /\ FinishOuts(next, n).half = IF s.half = "TOP" THEN "BOTTOM" ELSE "TOP"
               /\ FinishOuts(next, n).inning = IF s.half = "TOP" THEN s.inning ELSE s.inning + 1
    <2>1. {"score", "outs", "bases", "resp", "half", "inning"} \subseteq DOMAIN next
      BY <1>5, <1>6 DEF State
    <2>2. HalfOver(next, n)
      BY <1>5, <1>8 DEF HalfOver
    <2> QED
      BY <1>5, <2>1, <2>2 DEF FinishOuts
  <1> QED
    BY <1>3, <1>5, <1>7, <1>8 DEF Scored, score, t, n

\* Whoever is on a base after a play came there with it or had stayed.
LEMMA WhoIsOn ==
    ASSUME NEW s \in State, NEW batter, NEW to, NEW b \in Bases,
           BasesAfter(s, batter, to)[b] # None
    PROVE  \/ \E o \in Safe(to) : to[o] = b /\ BasesAfter(s, batter, to)[b] = RunnerFrom(s, batter, o)
           \/ b \in Occupied(s) \ DOMAIN to /\ BasesAfter(s, batter, to)[b] = s.bases[b]
  <1>1. CASE \E o \in Safe(to) : to[o] = b
    <2> DEFINE o == CHOOSE o \in Safe(to) : to[o] = b
    <2>1. o \in Safe(to) /\ to[o] = b
      BY <1>1
    <2>2. BasesAfter(s, batter, to)[b] = RunnerFrom(s, batter, o)
      BY <1>1 DEF BasesAfter
    <2> HIDE DEF o
    <2> QED
      BY <2>1, <2>2
  <1>2. CASE ~ \E o \in Safe(to) : to[o] = b
    <2>1. BasesAfter(s, batter, to)[b] = LeftBehind(s, to, b)
      BY <1>2 DEF BasesAfter
    <2> QED
      BY <2>1 DEF LeftBehind, Occupied
  <1> QED
    BY <1>1, <1>2

\* The pitchers of both sides are their own.
LEMMA MoundSides ==
    ASSUME NEW s \in State, SoundLineup(s)
    PROVE  /\ BattingSide(s) \in Sides /\ FieldingSide(s) \in Sides
           /\ FieldingSide(s) # BattingSide(s)
           /\ \A side \in Sides : s.pitcher[side] \in Players /\ Team[s.pitcher[side]] = side
           /\ OnMound(s) \in Players /\ Team[OnMound(s)] = FieldingSide(s)
  <1>1. BattingSide(s) \in Sides /\ FieldingSide(s) \in Sides /\ FieldingSide(s) # BattingSide(s)
    BY DEF BattingSide, FieldingSide, Other, Sides
  <1>2. \A side \in Sides : s.pitcher[side] \in Players /\ Team[s.pitcher[side]] = side
    BY DEF SoundLineup, Standing, State, Mounds
  <1> QED
    BY <1>1, <1>2 DEF OnMound

\* What a legal play does, in one place.
LEMMA PlayDone ==
    ASSUME NEW s \in State, NEW b, Legal(s, b),
           NEW t, t = AfterPlay(s, Batter(b), b.to, b.counts)
    PROVE  Played(t, s, Batter(b), b.to) /\ Scored(t, s, b.to, b.counts)
  <1>1. "BATTER" \in DOMAIN b.to => Batters(s, BattingSide(s)) # {}
    BY DEF Legal
  <1> QED
    BY <1>1, PlayEffect, PlayScores DEF Legal

LEMMA PlayKeepsSides ==
    ASSUME NEW s \in State, SoundGame(s), NEW b, Legal(s, b),
           NEW t, t = AfterPlay(s, Batter(b), b.to, b.counts)
    PROVE  OwnSides(t) /\ Runners(t) \subseteq s.participated
  <1> DEFINE batter == Batter(b)
             to == b.to
  <1>1. Played(t, s, batter, to) /\ Moves(s, batter, to, b.counts)
    BY PlayDone DEF Legal
  <1>2. /\ SoundLineup(s) /\ OwnSides(s)
        /\ s.active \subseteq s.participated /\ Runners(s) \subseteq s.participated
    BY DEF SoundGame
  <1>3. "BATTER" \in DOMAIN to =>
           Team[batter] = BattingSide(s) /\ batter \in s.participated
    BY <1>2 DEF Legal, Batters
  <1>4. ASSUME NEW o \in DOMAIN to
        PROVE  /\ Team[RunnerFrom(s, batter, o)] = BattingSide(s)
               /\ RunnerFrom(s, batter, o) \in s.participated
    <2>1. o = "BATTER" \/ (o \in Occupied(s) /\ o # "BATTER")
      BY <1>1 DEF Moves, Occupied, Bases
    <2> QED
      BY <1>2, <1>3, <2>1 DEF RunnerFrom, OwnSides, Runners
  <1> HIDE DEF batter, to
  <1>5. CASE s.outs + Cardinality(Outs(to)) < 3
    <2>1. /\ t.bases = BasesAfter(s, batter, to) /\ t.resp = RespAfter(s, batter, to)
          /\ t.half = s.half
      BY <1>1, <1>5 DEF Played
    <2>2. BattingSide(t) = BattingSide(s) /\ FieldingSide(t) = FieldingSide(s)
      BY <2>1 DEF BattingSide, FieldingSide
    <2>3. ASSUME NEW c \in Occupied(t)
          PROVE  Team[t.bases[c]] = BattingSide(s) /\ t.bases[c] \in s.participated
      <3>1. c \in Bases /\ BasesAfter(s, batter, to)[c] # None
        BY <2>1 DEF Occupied
      <3>2. CASE \E o \in Safe(to) : to[o] = c /\ BasesAfter(s, batter, to)[c] = RunnerFrom(s, batter, o)
        BY <1>4, <2>1, <3>2 DEF Safe
      <3>3. CASE c \in Occupied(s) \ DOMAIN to /\ BasesAfter(s, batter, to)[c] = s.bases[c]
        BY <1>2, <2>1, <3>3 DEF OwnSides, Runners
      <3> QED
        BY <3>1, <3>2, <3>3, WhoIsOn
    <2>4. ASSUME NEW p \in Players, t.resp[p] # None
          PROVE  Team[t.resp[p]] = FieldingSide(s)
      <3>1. t.resp[p] \in {s.pitcher[FieldingSide(s)], s.resp[p]}
        BY <2>1, <2>4 DEF RespAfter
      <3>2. Team[s.pitcher[FieldingSide(s)]] = FieldingSide(s)
        BY <1>2, MoundSides
      <3> QED
        BY <1>2, <2>4, <3>1, <3>2 DEF OwnSides
    <2> QED
      BY <2>2, <2>3, <2>4 DEF OwnSides, Runners
  <1>6. CASE s.outs + Cardinality(Outs(to)) = 3
    <2>1. t.bases = [c \in Bases |-> None] /\ t.resp = [p \in Players |-> None]
      BY <1>1, <1>6 DEF Played
    <2>2. Occupied(t) = {} /\ Runners(t) = {}
      BY <2>1 DEF Occupied, Runners
    <2> QED
      BY <2>1, <2>2 DEF OwnSides
  <1>7. s.outs + Cardinality(Outs(to)) < 3 \/ s.outs + Cardinality(Outs(to)) = 3
    BY <1>1 DEF Played
  <1> QED
    BY <1>5, <1>6, <1>7

LEMMA PlaySound ==
    ASSUME NEW s \in State, SoundGame(s), NEW b, Legal(s, b),
           NEW t, t = AfterPlay(s, Batter(b), b.to, b.counts)
    PROVE  SoundGame(t)
  <1>1. Played(t, s, Batter(b), b.to) /\ Scored(t, s, b.to, b.counts)
    BY PlayDone
  <1>2. t \in State /\ Lineup(t) = Lineup(s) /\ t.status = s.status
    BY <1>1 DEF Played
  <1>3. SoundLineup(t)
    BY <1>2, SameLineup DEF SoundGame
  <1>4. t.active = s.active /\ t.participated = s.participated
    BY <1>2 DEF Lineup
  <1>5. t.inning # 0 /\ t.half # "NONE" /\ Begun(t)
    <2>1. s.inning \in Nat \ {0} /\ s.half # "NONE" /\ Begun(s)
      BY DEF SoundGame, Legal, State
    <2>2. \/ t.half = s.half /\ t.inning = s.inning
          \/ /\ t.half   = IF s.half = "TOP" THEN "BOTTOM" ELSE "TOP"
             /\ t.inning = IF s.half = "TOP" THEN s.inning ELSE s.inning + 1
      BY <1>1 DEF Played, Scored
    <2> QED
      BY <1>2, <2>1, <2>2 DEF Begun
  <1> QED
    BY <1>3, <1>4, <1>5, PlayKeepsSides DEF SoundGame

\* The lineup changes keep the game sound.
LEMMA SubstitutionKeepsGame ==
    ASSUME NEW s \in State, SoundGame(s), NEW side \in Sides, NEW out, NEW in \in Players,
           NEW pos \in Positions, CanSubstitute(s, side, out, in, pos),
           NEW t, t = AfterSubstitution(s, side, out, in, pos)
    PROVE  /\ SoundGame(t) /\ t.pitcher = s.pitcher /\ t.score = s.score
           /\ t.inning = s.inning /\ t.half = s.half /\ t.outs = s.outs
           /\ LeftOver(t) \subseteq LeftOver(s)
           /\ \A p \in Players : t.resp[p] # None => \E q \in Players : t.resp[p] = s.resp[q]
  <1>1. /\ out \in s.active /\ out \in Players /\ Team[out] = side /\ Team[in] = side /\ Live(s)
        /\ in \notin s.active /\ in \notin s.participated /\ in # out
    BY DEF CanSubstitute, MayLeave, MayEnter, State
  <1>2. Substituted(t, s, side, out, in, pos) /\ Replaced(t, s, out, in)
    BY <1>1, SubstitutionEffect, SubstitutionReplaces
  <1>3. SoundLineup(t) /\ t \in State
    BY <1>1, <1>2, SubstitutionSound DEF SoundGame, Substituted
  <1>4. /\ t.active = (s.active \ {out}) \cup {in} /\ t.participated = s.participated \cup {in}
        /\ t.pitcher = s.pitcher /\ t.status = s.status /\ t.half = s.half
        /\ t.inning = s.inning /\ t.outs = s.outs
    BY <1>2 DEF Substituted, Replaced, Clock
  <1>5. t.score = s.score
    BY DEF AfterSubstitution, State
  <1>6. BattingSide(t) = BattingSide(s) /\ FieldingSide(t) = FieldingSide(s) /\ OnMound(t) = OnMound(s)
    BY <1>4 DEF BattingSide, FieldingSide, OnMound
  <1>7. in \notin Runners(s) /\ in # None /\ out # None
    BY <1>1, LineupAssumption DEF SoundGame
  <1> DEFINE held == {b \in Bases : s.bases[b] = out}
  <1>8. CASE held = {}
    <2>1. t.bases = s.bases /\ t.resp = s.resp
      BY <1>2, <1>8 DEF Replaced
    <2>2. Occupied(t) = Occupied(s) /\ Runners(t) = Runners(s)
      BY <2>1 DEF Occupied, Runners
    <2>3. LeftOver(t) = LeftOver(s)
      BY <1>6, <2>1, <2>2 DEF LeftOver
    <2>4. OwnSides(t)
      BY <1>6, <2>1, <2>2 DEF OwnSides, SoundGame
    <2> QED
      BY <1>1, <1>3, <1>4, <1>5, <2>1, <2>2, <2>3, <2>4 DEF SoundGame, Begun, Live
  <1>9. CASE held # {}
    <2>1. PICK base \in held : t.bases = [s.bases EXCEPT ![base] = in]
      BY <1>2, <1>9 DEF Replaced
    <2>2. /\ base \in Bases /\ s.bases[base] = out /\ base \in Occupied(s)
          /\ \A c \in Bases : t.bases[c] = IF c = base THEN in ELSE s.bases[c]
      BY <1>7, <2>1 DEF State, Diamonds, Occupied
    <2>3. \A p \in Players : t.resp[p] =
            IF p = in THEN s.resp[out] ELSE IF p = out THEN None ELSE s.resp[p]
      BY <1>2, <1>9 DEF Replaced
    <2>4. Occupied(t) = Occupied(s)
      BY <1>7, <2>2 DEF Occupied
    <2>5. OwnSides(s)
      BY DEF SoundGame
    <2>6. Team[out] = BattingSide(s)
      BY <2>2, <2>5 DEF OwnSides
    <2>7. OwnSides(t)
      <3>1. \A c \in Occupied(s) : Team[t.bases[c]] = BattingSide(s)
        BY <1>1, <2>2, <2>5, <2>6 DEF OwnSides, Occupied
      <3>2. \A p \in Players : t.resp[p] # None => Team[t.resp[p]] = FieldingSide(s)
        BY <1>1, <2>3, <2>5 DEF OwnSides
      <3> QED
        BY <1>6, <2>4, <3>1, <3>2 DEF OwnSides
    <2>8. Runners(t) \subseteq t.participated
      BY <1>4, <2>2, <2>4 DEF Runners, SoundGame, Occupied
    <2>9. ASSUME NEW c \in LeftOver(t) PROVE c \in LeftOver(s)
      <3>1. c \in Occupied(s) /\ c \in Bases /\ t.resp[t.bases[c]] \notin {None, OnMound(s)}
        BY <1>6, <2>4 DEF LeftOver, Occupied
      <3>2. CASE c = base
        BY <2>2, <2>3, <3>1, <3>2 DEF LeftOver
      <3>3. CASE c # base
        <4>1. t.bases[c] = s.bases[c] /\ s.bases[c] # in /\ s.bases[c] \in Players
          BY <1>7, <2>2, <3>1, <3>3 DEF Runners, Occupied, State, Diamonds
        <4>2. t.resp[s.bases[c]] = IF s.bases[c] = out THEN None ELSE s.resp[s.bases[c]]
          BY <2>3, <4>1
        <4> QED
          BY <3>1, <4>1, <4>2 DEF LeftOver
      <3> QED
        BY <3>2, <3>3
    <2>10. SoundGame(t)
      BY <1>1, <1>3, <1>4, <2>7, <2>8 DEF SoundGame, Begun, Live
    <2>11. \A p \in Players : t.resp[p] # None => \E q \in Players : t.resp[p] = s.resp[q]
      BY <1>1, <2>3
    <2> QED
      BY <1>4, <1>5, <2>9, <2>10, <2>11
  <1> QED
    BY <1>8, <1>9

\* After a pitching change, every runner the new pitcher did not let on is one of
\* those he found.
LEMMA ReliefKeepsGame ==
    ASSUME NEW s \in State, SoundGame(s), NEW side \in Sides, NEW in \in Players,
           CanChangePitcher(s, side, in), NEW t, t = AfterPitchingChange(s, side, in)
    PROVE  /\ SoundGame(t) /\ Begun(s) /\ t.score = s.score /\ t.resp = s.resp
           /\ t.inning = s.inning /\ t.half = s.half /\ t.outs = s.outs
           /\ \A d \in Sides : t.pitcher[d] = IF d = side THEN in ELSE s.pitcher[d]
           /\ OnMound(t) = in /\ LeftOver(t) \subseteq Occupied(s)
  <1>1. Live(s) /\ side = FieldingSide(s) /\ Begun(s)
    BY DEF CanChangePitcher, Live, Begun
  <1>2. Relieved(t, s, side, in)
    BY PitchingChangeEffect
  <1>3. /\ t \in State /\ SoundLineup(t)
        /\ t.active \subseteq s.active \cup {in}
        /\ \A d \in Sides : t.pitcher[d] = IF d = side THEN in ELSE s.pitcher[d]
    BY <1>2, PitchingChangeSound DEF SoundGame, Relieved
  <1>4. /\ Clock(t) = Clock(s) /\ t.bases = s.bases /\ t.resp = s.resp
        /\ t.participated = IF in \notin s.active THEN s.participated \cup {in} ELSE s.participated
    BY PitchingChangeLeaves
  <1>5. t.status = s.status /\ t.half = s.half /\ t.inning = s.inning /\ t.outs = s.outs
    BY <1>4 DEF Clock
  <1>6. t.score = s.score
    BY DEF AfterPitchingChange, State
  <1>7. /\ BattingSide(t) = BattingSide(s) /\ FieldingSide(t) = FieldingSide(s)
        /\ Occupied(t) = Occupied(s) /\ Runners(t) = Runners(s)
    BY <1>4, <1>5 DEF BattingSide, FieldingSide, Occupied, Runners
  <1>8. OwnSides(t)
    BY <1>4, <1>7 DEF OwnSides, SoundGame
  <1>9. t.active \subseteq t.participated /\ Runners(t) \subseteq t.participated
    BY <1>3, <1>4, <1>7 DEF SoundGame
  <1>10. SoundGame(t)
    BY <1>1, <1>3, <1>5, <1>8, <1>9 DEF SoundGame, Begun
  <1>11. OnMound(t) = in /\ LeftOver(t) \subseteq Occupied(s)
    BY <1>1, <1>3, <1>7 DEF OnMound, LeftOver
  <1> QED
    BY <1>1, <1>3, <1>4, <1>5, <1>6, <1>10, <1>11

\* Two states that differ in their status only, or in that the game has begun.
SameField(s, t) ==
    /\ t.score = s.score /\ t.bases = s.bases /\ t.resp = s.resp /\ t.outs = s.outs
    /\ t.pitcher = s.pitcher /\ Lineup(t) = Lineup(s)

LEMMA StatusKeepsGame ==
    ASSUME NEW s \in State, SoundGame(s), Begun(s), NEW status \in Statuses \ {"READY"},
           NEW t, t = [s EXCEPT !.status = status]
    PROVE  /\ SoundGame(t) /\ Begun(t) /\ SameField(s, t)
           /\ t.half = s.half /\ t.inning = s.inning
  <1>1. /\ t \in State /\ Lineup(t) = Lineup(s) /\ t.status = status /\ t.bases = s.bases
        /\ t.resp = s.resp /\ t.half = s.half /\ t.inning = s.inning /\ t.score = s.score
        /\ t.outs = s.outs /\ t.pitcher = s.pitcher /\ t.active = s.active
        /\ t.participated = s.participated
    BY LifecycleType DEF State, Lineup
  <1>2. SoundLineup(t)
    BY <1>1, SameLineup DEF SoundGame
  <1>3. Occupied(t) = Occupied(s) /\ Runners(t) = Runners(s)
    BY <1>1 DEF Occupied, Runners
  <1>4. OwnSides(t)
    BY <1>1, <1>3 DEF OwnSides, SoundGame, BattingSide, FieldingSide
  <1> QED
    BY <1>1, <1>2, <1>3, <1>4 DEF SoundGame, Begun, SameField

LEMMA StartKeepsGame ==
    ASSUME NEW s \in State, SoundGame(s), ~Begun(s), NEW t, t = StartGame(s)
    PROVE  /\ SoundGame(t) /\ Begun(t) /\ SameField(s, t) /\ LeftOver(t) = {}
           /\ t.half = "TOP" /\ t.inning = 1 /\ Untaken(s)
  <1>1. /\ Lineup(t) = Lineup(s) /\ t.status = "IN_PROGRESS" /\ t.bases = s.bases
        /\ t.resp = s.resp /\ t.half = "TOP" /\ t.inning = 1 /\ t.score = s.score
        /\ t.outs = s.outs /\ t.pitcher = s.pitcher /\ t.active = s.active
        /\ t.participated = s.participated
    BY DEF StartGame, State, Lineup
  <1>2. t \in State
    BY DEF StartGame, State, Statuses, Halves
  <1>3. SoundLineup(t) /\ Untaken(s)
    BY <1>1, <1>2, SameLineup DEF SoundGame
  <1>4. Occupied(t) = {} /\ Runners(t) = {} /\ \A p \in Players : t.resp[p] = None
    BY <1>1, <1>3 DEF Occupied, Runners, Untaken
  <1> QED
    BY <1>1, <1>3, <1>4 DEF SoundGame, Begun, SameField, OwnSides, LeftOver

LEMMA StartIsSound == SoundGame(InitialState(TheSetup)) /\ ~Begun(InitialState(TheSetup))
  <1>1. TheSetup \in Setups /\ ValidSetup(TheSetup)
    BY SetupAssumption DEF TheSetup
  <1>2. SoundLineup(InitialState(TheSetup))
    BY <1>1, InitialSound
  <1> DEFINE s == InitialState(TheSetup)
  <1>3. /\ s.status = "READY" /\ s.inning = 0 /\ s.half = "NONE" /\ s.outs = 0
        /\ s.bases = [b \in Bases |-> None] /\ s.resp = [p \in Players |-> None]
        /\ s.active = s.participated
    BY DEF InitialState
  <1> HIDE DEF s
  <1>4. Occupied(s) = {} /\ Runners(s) = {} /\ \A p \in Players : s.resp[p] = None
    BY <1>3 DEF Occupied, Runners
  <1>5. Untaken(s) /\ OwnSides(s) /\ ~Begun(s)
    BY <1>3, <1>4 DEF Untaken, OwnSides, Begun
  <1> QED
    BY <1>2, <1>3, <1>4, <1>5 DEF SoundGame, s

-----------------------------------------------------------------------------
(* The box score of a play *)

\* The outs of a play go to the side in the field, whether they end the half inning
\* or not.
LEMMA OutsOfPlay ==
    ASSUME NEW s \in State, SoundGame(s), Begun(s), NEW t, NEW batter, NEW to, NEW counts,
           Played(t, s, batter, to), Scored(t, s, to, counts), Cardinality(Outs(to)) \in Nat,
           NEW side \in Sides
    PROVE  OutsFielded(t, side) = OutsFielded(s, side)
              + IF side = FieldingSide(s) THEN Cardinality(Outs(to)) ELSE 0
  <1> DEFINE n == Cardinality(Outs(to))
  <1>1. /\ s.inning \in Nat \ {0} /\ s.half \in {"TOP", "BOTTOM"} /\ s.outs \in Nat /\ n \in Nat
    BY DEF SoundGame, State, Halves, OutCounts
  <1>2. \/ s.outs + n < 3 /\ t.outs = s.outs + n /\ t.half = s.half /\ t.inning = s.inning
        \/ /\ s.outs + n = 3 /\ t.outs = 0
           /\ t.half = IF s.half = "TOP" THEN "BOTTOM" ELSE "TOP"
           /\ t.inning = IF s.half = "TOP" THEN s.inning ELSE s.inning + 1
    BY DEF Played, Scored
  <1> HIDE DEF n
  <1>3. side \in {"HOME", "AWAY"}
    BY DEF Sides
  <1>4. OutsFielded(s, side) = 3 * (IF side = "HOME" /\ s.half = "BOTTOM" THEN s.inning ELSE s.inning - 1)
           + IF (side = "HOME") = (s.half = "TOP") THEN s.outs ELSE 0
    BY <1>1, <1>3 DEF OutsFielded, OutsOfFinishedHalves, FieldingSide, BattingSide, Other
  <1>5. /\ t.inning \in Nat \ {0} /\ t.half \in {"TOP", "BOTTOM"} /\ t.outs \in Nat
    BY <1>1, <1>2
  <1>6. OutsFielded(t, side) = 3 * (IF side = "HOME" /\ t.half = "BOTTOM" THEN t.inning ELSE t.inning - 1)
           + IF (side = "HOME") = (t.half = "TOP") THEN t.outs ELSE 0
    BY <1>3, <1>5 DEF OutsFielded, OutsOfFinishedHalves, FieldingSide, BattingSide, Other
  <1>7. (side = FieldingSide(s)) <=> ((side = "HOME") = (s.half = "TOP"))
    BY <1>1, <1>3 DEF FieldingSide, BattingSide, Other
  <1> QED
    BY <1>1, <1>2, <1>3, <1>4, <1>5, <1>6, <1>7 DEF n

\* Who scores, who is charged with a run, and who is charged with an out.
RunnerOf(s, b)   == [o \in b.counts |-> RunnerFrom(s, Batter(b), o)]
Charge(s, b)   == [o \in b.counts |-> Charged(s, b, o)]
Retired(s, b)  == [o \in Outs(b.to) |-> OnMound(s)]
Strangers(s, b) == {o \in b.counts : Charge(s, b)[o] # OnMound(s)}

LEMMA WhoCounts ==
    ASSUME NEW s \in State, SoundGame(s), NEW b, Legal(s, b)
    PROVE  /\ IsFiniteSet(b.counts) /\ IsFiniteSet(Outs(b.to)) /\ IsFiniteSet(Strangers(s, b))
           /\ Cardinality(Outs(b.to)) \in Nat /\ Cardinality(b.counts) \in Nat
           /\ Cardinality(Strangers(s, b)) \in Nat
           /\ RunnerOf(s, b) \in [b.counts -> Players]
           /\ Charge(s, b) \in [b.counts -> Players]
           /\ Retired(s, b) \in [Outs(b.to) -> Players]
           /\ \A o \in b.counts : /\ Team[RunnerFrom(s, Batter(b), o)] = BattingSide(s)
                                  /\ Team[Charged(s, b, o)] = FieldingSide(s)
  <1>1. /\ Moves(s, Batter(b), b.to, b.counts) /\ b.counts \subseteq Home(b.to)
        /\ \A o \in DOMAIN b.to \ {"BATTER"} : s.bases[o] # None /\ s.resp[s.bases[o]] # None
    BY DEF Legal
  <1>2. /\ DOMAIN b.to \subseteq Bases \cup {"BATTER"} /\ b.counts \subseteq DOMAIN b.to
        /\ Outs(b.to) \subseteq DOMAIN b.to /\ Strangers(s, b) \subseteq DOMAIN b.to
        /\ \A o \in DOMAIN b.to : RunnerFrom(s, Batter(b), o) \in Players
    BY <1>1, MovesOrigins DEF Home, Outs, Strangers
  <1>3. OnMound(s) \in Players /\ Team[OnMound(s)] = FieldingSide(s)
    BY MoundSides DEF SoundGame
  <1>4. ASSUME NEW o \in b.counts
        PROVE  /\ RunnerFrom(s, Batter(b), o) \in Players /\ Charged(s, b, o) \in Players
               /\ Team[RunnerFrom(s, Batter(b), o)] = BattingSide(s)
               /\ Team[Charged(s, b, o)] = FieldingSide(s)
    <2>1. CASE o = "BATTER"
      <3>1. Team[Batter(b)] = BattingSide(s)
        BY <1>2, <2>1 DEF Legal, Batters
      <3> QED
        BY <1>2, <1>3, <2>1, <3>1 DEF RunnerFrom, Charged, OnMound
    <2>2. CASE o # "BATTER"
      <3>1. o \in Bases /\ o \in Occupied(s) /\ s.bases[o] \in Players /\ s.resp[s.bases[o]] # None
        BY <1>1, <1>2, <2>2 DEF Occupied, State, Diamonds
      <3>2. s.resp[s.bases[o]] \in Players
        BY <3>1 DEF State, Charges
      <3> QED
        BY <2>2, <3>1, <3>2 DEF RunnerFrom, Charged, SoundGame, OwnSides
    <2> QED
      BY <2>1, <2>2
  <1>5. /\ IsFiniteSet(b.counts) /\ IsFiniteSet(Outs(b.to)) /\ IsFiniteSet(Strangers(s, b))
        /\ Cardinality(Outs(b.to)) \in Nat /\ Cardinality(b.counts) \in Nat
        /\ Cardinality(Strangers(s, b)) \in Nat
    <2>1. \A S : S \subseteq DOMAIN b.to => IsFiniteSet(S) /\ Cardinality(S) \in Nat
      BY <1>2, OriginsFinite
    <2> QED
      BY <1>2, <2>1
  <1> QED
    BY <1>3, <1>4, <1>5 DEF RunnerOf, Charge, Retired

\* Every runner who counts and was left over from another pitcher stood on a base.
LEMMA StrangersWereLeft ==
    ASSUME NEW s \in State, SoundGame(s), NEW b, Legal(s, b)
    PROVE  Strangers(s, b) \subseteq LeftOver(s) \cap Home(b.to)
  <1> SUFFICES ASSUME NEW o \in Strangers(s, b)
               PROVE  o \in LeftOver(s) /\ o \in Home(b.to)
    OBVIOUS
  <1>1. o \in b.counts /\ o \in Home(b.to) /\ o \in DOMAIN b.to /\ Charged(s, b, o) # OnMound(s)
    BY DEF Strangers, Charge, Legal, Home
  <1>2. o # "BATTER"
    BY <1>1 DEF Charged, OnMound
  <1>3. s.bases[o] # None /\ s.resp[s.bases[o]] # None /\ o \in Bases
    BY <1>1, <1>2, MovesOrigins DEF Legal
  <1> QED
    BY <1>1, <1>2, <1>3 DEF Charged, LeftOver, Occupied

LEMMA CountPlayEffect ==
    ASSUME NEW s \in State, SoundGame(s), NEW b \in Admitted, b.type \in Plays, Legal(s, b),
           NEW box \in Box, ~NoFieldingAtAll(b), NEW u, u = CountPlay(box, s, b)
    PROVE  /\ u \in Box
           /\ Gains(box.runs, u.runs, b.counts, RunnerOf(s, b))
           /\ Gains(box.runsAllowed, u.runsAllowed, b.counts, Charge(s, b))
           /\ Gains(box.outs, u.outs, Outs(b.to), Retired(s, b))
           /\ u.appearances = box.appearances /\ u.inherited = box.inherited
           /\ \A p \in Players : u.inheritedScored[p] = box.inheritedScored[p] +
                 IF p = OnMound(s) THEN Cardinality(Strangers(s, b)) ELSE 0
           /\ \A side \in Sides : u.putouts[side] = box.putouts[side] +
                 IF side = FieldingSide(s) THEN b.putouts ELSE 0
  <1> DEFINE m == OnMound(s)
             F == FieldingSide(s)
             runs == [p \in Players |-> box.runs[p] + Cardinality({o \in b.counts : RunnerOf(s, b)[o] = p})]
             batted == [p \in Players |->
                          box.battedIn[p] + IF p = Batter(b) THEN Cardinality(RunsBattedIn(b)) ELSE 0]
             allowed == [p \in Players |-> box.runsAllowed[p]
                                             + Cardinality({o \in b.counts : Charge(s, b)[o] = p})]
             scored == [box.inheritedScored EXCEPT ![m] = @ + Cardinality(Strangers(s, b))]
             outs == [box.outs EXCEPT ![m] = @ + Cardinality(Outs(b.to))]
             credited == [box.putouts EXCEPT ![F] = @ + b.putouts]
  <1>1. u = [box EXCEPT !.runs = runs, !.battedIn = batted, !.runsAllowed = allowed,
                        !.inheritedScored = scored, !.outs = outs, !.putouts = credited]
    BY DEF CountPlay, RunnerOf, Charge, Strangers, OnMound, OutsOf
  <1>2. /\ m \in Players /\ F \in Sides
    BY MoundSides DEF SoundGame
  <1>3. /\ box.runs \in Counters /\ box.battedIn \in Counters /\ box.runsAllowed \in Counters
        /\ box.inheritedScored \in Counters /\ box.outs \in Counters /\ box.putouts \in [Sides -> Nat]
    BY DEF Box
  <1>4. b.putouts \in Nat /\ Cardinality(RunsBattedIn(b)) \in Nat
    <2>1. b.putouts \in Nat
      BY AdmittedJudged DEF NoFieldingAtAll, Plays
    <2>2. RunsBattedIn(b) \subseteq Bases \cup {"BATTER"}
      BY MovesOrigins DEF RunsBattedIn, Legal, Home
    <2> QED
      BY <2>1, <2>2, OriginsFinite
  <1>5. /\ Cardinality(Strangers(s, b)) \in Nat /\ Cardinality(Outs(b.to)) \in Nat
    BY WhoCounts
  <1>6. Gains(box.runs, runs, b.counts, RunnerOf(s, b)) /\ runs \in Counters
    <2>1. Gains(box.runs, runs, b.counts, RunnerOf(s, b))
      BY DEF Gains
    <2> HIDE DEF runs
    <2> QED
      BY <1>3, <2>1, WhoCounts, SumGrows
  <1>7. Gains(box.runsAllowed, allowed, b.counts, Charge(s, b)) /\ allowed \in Counters
    <2>1. Gains(box.runsAllowed, allowed, b.counts, Charge(s, b))
      BY DEF Gains
    <2> HIDE DEF allowed
    <2> QED
      BY <1>3, <2>1, WhoCounts, SumGrows
  <1>8. batted \in Counters
    BY <1>3, <1>4 DEF Counters
  <1>9. /\ scored \in Counters
        /\ \A p \in Players : scored[p] = box.inheritedScored[p] +
              IF p = m THEN Cardinality(Strangers(s, b)) ELSE 0
    BY <1>2, <1>3, <1>5 DEF Counters
  <1>10. /\ outs \in Counters
         /\ \A p \in Players : outs[p] = box.outs[p] + IF p = m THEN Cardinality(Outs(b.to)) ELSE 0
    BY <1>2, <1>3, <1>5 DEF Counters
  <1>11. /\ credited \in [Sides -> Nat]
         /\ \A side \in Sides : credited[side] = box.putouts[side] + IF side = F THEN b.putouts ELSE 0
    BY <1>2, <1>3, <1>4
  <1> HIDE DEF runs, batted, allowed, scored, outs, credited
  <1>12. /\ u \in Box /\ u.runs = runs /\ u.runsAllowed = allowed /\ u.outs = outs
         /\ u.appearances = box.appearances /\ u.inherited = box.inherited
         /\ u.inheritedScored = scored /\ u.putouts = credited
    BY <1>1, <1>6, <1>7, <1>8, <1>9, <1>10, <1>11, ZenonT(30) DEF Box
  <1>13. Gains(box.outs, outs, Outs(b.to), Retired(s, b))
    <2>1. ASSUME NEW p \in Players
          PROVE  outs[p] = box.outs[p] + Cardinality({o \in Outs(b.to) : Retired(s, b)[o] = p})
      <3>1. CASE p = m
        <4>1. {o \in Outs(b.to) : Retired(s, b)[o] = p} = Outs(b.to)
          BY <3>1 DEF Retired
        <4> QED
          BY <1>10, <3>1, <4>1
      <3>2. CASE p # m
        <4>1. {o \in Outs(b.to) : Retired(s, b)[o] = p} = {}
          BY <3>2 DEF Retired
        <4>2. Cardinality({o \in Outs(b.to) : Retired(s, b)[o] = p}) = 0
          BY <4>1, FS_EmptySet
        <4> QED
          BY <1>10, <3>2, <4>2
      <3> QED
        BY <3>1, <3>2
    <2>2. outs = [p \in Players |-> outs[p]]
      BY <1>10 DEF Counters
    <2> QED
      BY <2>1, <2>2 DEF Gains
  <1> QED
    BY <1>6, <1>7, <1>9, <1>11, <1>12, <1>13

\* While a half inning goes on, every left-over runner is one of those before the
\* play, less those who scored.
LEMMA LeftOverAfterPlay ==
    ASSUME NEW s \in State, SoundGame(s), NEW b, Legal(s, b), NEW t,
           Played(t, s, Batter(b), b.to)
    PROVE  /\ IsFiniteSet(LeftOver(s)) /\ Cardinality(LeftOver(s)) \in Nat
           /\ Cardinality(LeftOver(t)) \in Nat
           /\ Cardinality(LeftOver(t)) + Cardinality(Strangers(s, b)) <= Cardinality(LeftOver(s))
  <1> DEFINE batter == Batter(b)
             to == b.to
             m == OnMound(s)
             rest == LeftOver(s) \ Strangers(s, b)
  <1>1. /\ IsFiniteSet(LeftOver(s)) /\ Cardinality(LeftOver(s)) \in Nat
        /\ IsFiniteSet(LeftOver(t)) /\ Cardinality(LeftOver(t)) \in Nat
    BY OriginsFinite DEF LeftOver, Occupied
  <1>2. Cardinality(rest) = Cardinality(LeftOver(s)) - Cardinality(Strangers(s, b))
        /\ IsFiniteSet(rest) /\ Cardinality(Strangers(s, b)) \in Nat
    <2>1. LeftOver(s) \cap Strangers(s, b) = Strangers(s, b)
      BY StrangersWereLeft
    <2> QED
      BY <1>1, <2>1, FS_Difference, WhoCounts
  <1>3. CASE s.outs + Cardinality(Outs(to)) = 3
    <2>1. LeftOver(t) = {}
      BY <1>3 DEF Played, LeftOver, Occupied
    <2>2. Strangers(s, b) \subseteq LeftOver(s)
      BY StrangersWereLeft
    <2>3. Cardinality(Strangers(s, b)) <= Cardinality(LeftOver(s))
      BY <1>1, <2>2, FS_Subset
    <2> QED
      BY <1>1, <1>2, <2>1, <2>3, FS_EmptySet
  <1>4. CASE s.outs + Cardinality(Outs(to)) < 3
    <2>1. /\ t.bases = BasesAfter(s, batter, to) /\ t.resp = RespAfter(s, batter, to)
          /\ t.half = s.half /\ t.pitcher = s.pitcher
      BY <1>4 DEF Played, Lineup
    <2>2. OnMound(t) = m
      BY <2>1 DEF OnMound, FieldingSide, BattingSide
    <2>3. /\ DOMAIN to \subseteq Bases \cup {"BATTER"} /\ "BATTER" \notin Bases
          /\ \A o \in DOMAIN to \ {"BATTER"} : s.bases[o] # None
          /\ \A o \in DOMAIN to : RunnerFrom(s, batter, o) \in Players
      BY MovesOrigins DEF Legal, Bases
    <2> DEFINE came(c) == \E o \in Safe(to) : to[o] = c /\ BasesAfter(s, batter, to)[c] = RunnerFrom(s, batter, o)
               from(c) == CHOOSE o \in Safe(to) : to[o] = c /\ BasesAfter(s, batter, to)[c] = RunnerFrom(s, batter, o)
               f == [c \in LeftOver(t) |-> IF came(c) THEN from(c) ELSE c]
    <2>4. \A c : came(c) => /\ from(c) \in Safe(to) /\ to[from(c)] = c
                            /\ BasesAfter(s, batter, to)[c] = RunnerFrom(s, batter, from(c))
      OBVIOUS
    <2>5. ASSUME NEW p \in Players, t.resp[p] \notin {None, m}
          PROVE  s.resp[p] \notin {None, m} /\ ~("BATTER" \in Safe(to) /\ p = batter)
      BY <2>1, <2>5 DEF RespAfter, OnMound
    <2>6. ASSUME NEW c \in LeftOver(t)
          PROVE  /\ f[c] \in rest
                 /\ came(c) => f[c] \in DOMAIN to /\ to[f[c]] = c
                 /\ ~came(c) => f[c] = c /\ c \notin DOMAIN to
      <3>1. /\ c \in Bases /\ BasesAfter(s, batter, to)[c] # None
            /\ t.resp[BasesAfter(s, batter, to)[c]] \notin {None, m}
        BY <2>1, <2>2 DEF LeftOver, Occupied
      <3>2. CASE came(c)
        <4>1. /\ from(c) \in Safe(to) /\ to[from(c)] = c /\ f[c] = from(c)
              /\ BasesAfter(s, batter, to)[c] = RunnerFrom(s, batter, from(c))
          BY <2>4, <3>2
        <4> HIDE DEF from, f, came
        <4>2. from(c) \in DOMAIN to /\ from(c) \notin Home(to)
          BY <3>1, <4>1 DEF Safe, Home, Bases
        <4>3. RunnerFrom(s, batter, from(c)) \in Players
          <5>1. PICK o \in DOMAIN to : o = from(c)
            BY <4>2
          <5>2. RunnerFrom(s, batter, o) \in Players
            BY MovesOrigins DEF Legal
          <5> QED
            BY <5>1, <5>2
        <4>4. /\ s.resp[RunnerFrom(s, batter, from(c))] \notin {None, m}
              /\ ~("BATTER" \in Safe(to) /\ RunnerFrom(s, batter, from(c)) = batter)
          BY <2>5, <3>1, <4>1, <4>3
        <4>5. from(c) # "BATTER"
          BY <4>1, <4>4 DEF RunnerFrom
        <4>6. from(c) \in Bases /\ s.bases[from(c)] # None
          BY <2>3, <4>2, <4>5
        <4>7. from(c) \in LeftOver(s)
          BY <4>4, <4>5, <4>6 DEF RunnerFrom, LeftOver, Occupied
        <4>8. from(c) \notin Strangers(s, b)
          BY <4>2, StrangersWereLeft
        <4> QED
          BY <3>2, <4>1, <4>2, <4>7, <4>8
      <3>3. CASE ~came(c)
        <4>1. c \in Occupied(s) \ DOMAIN to /\ BasesAfter(s, batter, to)[c] = s.bases[c]
          BY <3>1, <3>3, WhoIsOn
        <4>2. f[c] = c
          BY <3>3
        <4> HIDE DEF from, f, came
        <4>3. s.bases[c] \in Players
          BY <4>1 DEF Occupied, State, Diamonds
        <4>4. c \in LeftOver(s)
          BY <2>5, <3>1, <4>1, <4>3 DEF LeftOver
        <4>5. c \notin Strangers(s, b)
          BY <4>1, StrangersWereLeft DEF Home
        <4> QED
          BY <3>3, <4>1, <4>2, <4>4, <4>5
      <3> QED
        BY <3>2, <3>3
    <2>7. f \in Injection(LeftOver(t), rest)
      <3>1. DOMAIN f = LeftOver(t) /\ f = [c \in LeftOver(t) |-> f[c]]
        OBVIOUS
      <3> HIDE DEF f, came, from, rest
      <3>2. \A c, d \in LeftOver(t) : f[c] = f[d] => c = d
        BY <2>6
      <3>3. f \in [LeftOver(t) -> rest]
        BY <2>6, <3>1
      <3> QED
        BY <3>2, <3>3 DEF Injection, IsInjective
    <2> HIDE DEF f, rest
    <2>8. Cardinality(LeftOver(t)) <= Cardinality(rest)
      BY <1>2, <2>7, FS_Injection
    <2> QED
      BY <1>1, <1>2, <2>8
  <1>5. s.outs + Cardinality(Outs(to)) < 3 \/ s.outs + Cardinality(Outs(to)) = 3
    BY DEF Played
  <1> QED
    BY <1>1, <1>3, <1>4, <1>5

LEMMA PlayBalances ==
    ASSUME NEW s \in State, SoundGame(s), NEW b \in Admitted, b.type \in Plays, Legal(s, b),
           NEW box \in Box, ~NoFieldingAtAll(b), NEW u, u = CountPlay(box, s, b),
           NEW t, t = AfterPlay(s, Batter(b), b.to, b.counts), Balanced(s, box)
    PROVE  /\ Balanced(t, u)
           /\ \A side \in Sides : OfSide(u.outs, side) = OfSide(box.outs, side)
                 + IF side = FieldingSide(s) THEN Cardinality(Outs(b.to)) ELSE 0
  <1> DEFINE B == BattingSide(s)
             F == FieldingSide(s)
             k == Cardinality(b.counts)
             n == Cardinality(Outs(b.to))
  <1>1. Played(t, s, Batter(b), b.to) /\ Scored(t, s, b.to, b.counts)
    BY PlayDone
  <1>2. /\ IsFiniteSet(b.counts) /\ IsFiniteSet(Outs(b.to)) /\ k \in Nat /\ n \in Nat
        /\ RunnerOf(s, b) \in [b.counts -> Players] /\ Charge(s, b) \in [b.counts -> Players]
        /\ Retired(s, b) \in [Outs(b.to) -> Players]
        /\ \A o \in b.counts : /\ Team[RunnerFrom(s, Batter(b), o)] = B
                               /\ Team[Charged(s, b, o)] = F
    BY WhoCounts
  <1>3. /\ B \in Sides /\ F \in Sides /\ F # B /\ Team[OnMound(s)] = F /\ F = Other(B)
    BY MoundSides DEF SoundGame, FieldingSide
  <1>4. /\ Gains(box.runs, u.runs, b.counts, RunnerOf(s, b))
        /\ Gains(box.runsAllowed, u.runsAllowed, b.counts, Charge(s, b))
        /\ Gains(box.outs, u.outs, Outs(b.to), Retired(s, b))
    BY CountPlayEffect
  <1>5. box.runs \in Counters /\ box.runsAllowed \in Counters /\ box.outs \in Counters
    BY DEF Box
  <1>6. /\ \A o \in b.counts : Team[RunnerOf(s, b)[o]] = B /\ Team[Charge(s, b)[o]] = F
        /\ \A o \in Outs(b.to) : Team[Retired(s, b)[o]] = F
    BY <1>2, <1>3 DEF RunnerOf, Charge, Retired
  <1>7. ASSUME NEW side \in Sides
        PROVE  /\ OfSide(u.runs, side) = OfSide(box.runs, side) + IF side = B THEN k ELSE 0
               /\ OfSide(u.runsAllowed, side) = OfSide(box.runsAllowed, side) + IF side = F THEN k ELSE 0
               /\ OfSide(u.outs, side) = OfSide(box.outs, side) + IF side = F THEN n ELSE 0
    <2>1. /\ OfSide(u.runs, side) = OfSide(box.runs, side)
                + Cardinality({o \in b.counts : Team[RunnerOf(s, b)[o]] = side})
          /\ OfSide(u.runsAllowed, side) = OfSide(box.runsAllowed, side)
                + Cardinality({o \in b.counts : Team[Charge(s, b)[o]] = side})
          /\ OfSide(u.outs, side) = OfSide(box.outs, side)
                + Cardinality({o \in Outs(b.to) : Team[Retired(s, b)[o]] = side})
      BY <1>2, <1>4, <1>5, SideGrows
    <2>2. {o \in b.counts : Team[RunnerOf(s, b)[o]] = side} = IF side = B THEN b.counts ELSE {}
      BY <1>6
    <2>3. {o \in b.counts : Team[Charge(s, b)[o]] = side} = IF side = F THEN b.counts ELSE {}
      BY <1>6
    <2>4. {o \in Outs(b.to) : Team[Retired(s, b)[o]] = side} = IF side = F THEN Outs(b.to) ELSE {}
      BY <1>6
    <2>5. Cardinality({}) = 0
      BY FS_EmptySet
    <2> QED
      BY <2>1, <2>2, <2>3, <2>4, <2>5
  <1>8. \A side \in Sides : t.score[side] = s.score[side] + IF side = B THEN k ELSE 0
    BY <1>1, <1>2, <1>3 DEF Scored, State, Tallies
  <1>9. \A side \in Sides : OutsFielded(t, side) = OutsFielded(s, side) + IF side = F THEN n ELSE 0
    BY <1>1, <1>2, OutsOfPlay DEF Legal
  <1>10. \A side \in Sides : Other(side) \in Sides /\ (Other(side) = F <=> side = B)
    BY <1>3 DEF Other, Sides
  <1> HIDE DEF B, F, k, n
  <1>11. Balanced(t, u)
    <2> SUFFICES ASSUME NEW side \in Sides
                 PROVE  /\ OfSide(u.runs, side) = t.score[side]
                        /\ OfSide(u.runsAllowed, Other(side)) = t.score[side]
                        /\ OfSide(u.outs, side) = OutsFielded(t, side)
      BY DEF Balanced
    <2>1. /\ OfSide(box.runs, side) = s.score[side]
          /\ OfSide(box.runsAllowed, Other(side)) = s.score[side]
          /\ OfSide(box.outs, side) = OutsFielded(s, side)
      BY DEF Balanced
    <2> QED
      BY <1>7, <1>8, <1>9, <1>10, <2>1
  <1> QED
    BY <1>7, <1>11 DEF F, n

LEMMA PlayCovers ==
    ASSUME NEW s \in State, SoundGame(s), NEW b \in Admitted, b.type \in Plays, Legal(s, b),
           NEW box \in Box, ~NoFieldingAtAll(b), NEW u, u = CountPlay(box, s, b),
           NEW t, t = AfterPlay(s, Batter(b), b.to, b.counts), WithinInherited(s, box)
    PROVE  WithinInherited(t, u)
  <1> DEFINE x == Cardinality(Strangers(s, b))
             m == OnMound(s)
  <1>1. Played(t, s, Batter(b), b.to)
    BY PlayDone
  <1>2. /\ Cardinality(LeftOver(s)) \in Nat /\ Cardinality(LeftOver(t)) \in Nat
        /\ Cardinality(LeftOver(t)) + x <= Cardinality(LeftOver(s))
    BY <1>1, LeftOverAfterPlay
  <1>3. x \in Nat
    BY WhoCounts
  <1>4. /\ u.inherited = box.inherited
        /\ \A p \in Players : u.inheritedScored[p] = box.inheritedScored[p] + IF p = m THEN x ELSE 0
    BY CountPlayEffect
  <1>5. \/ OnMound(t) = m
        \/ LeftOver(t) = {}
    <2>1. t.pitcher = s.pitcher
      BY <1>1 DEF Played, Lineup
    <2>2. t.half = s.half \/ t.bases = [c \in Bases |-> None]
      BY <1>1 DEF Played
    <2> QED
      BY <2>1, <2>2 DEF OnMound, FieldingSide, BattingSide, LeftOver, Occupied
  <1>6. LeftOver(t) = {} => Cardinality(LeftOver(t)) = 0
    BY FS_EmptySet
  <1> HIDE DEF x, m
  <1> SUFFICES ASSUME NEW p \in Players
               PROVE  u.inheritedScored[p] + (IF p = OnMound(t) THEN Cardinality(LeftOver(t)) ELSE 0)
                         <= u.inherited[p]
    BY DEF WithinInherited
  <1>7. /\ box.inheritedScored[p] + (IF p = m THEN Cardinality(LeftOver(s)) ELSE 0) <= box.inherited[p]
        /\ box.inheritedScored[p] \in Nat /\ box.inherited[p] \in Nat
    BY DEF WithinInherited, m, Box, Counters
  <1>8. u.inheritedScored[p] = box.inheritedScored[p] + (IF p = m THEN x ELSE 0)
        /\ u.inherited[p] = box.inherited[p]
    BY <1>4
  <1> QED
    BY <1>2, <1>3, <1>5, <1>6, <1>7, <1>8

\* A play charges nobody who has not appeared.
LEMMA PlayAppears ==
    ASSUME NEW s \in State, SoundGame(s), NEW b \in Admitted, b.type \in Plays, Legal(s, b),
           NEW box \in Box, ~NoFieldingAtAll(b), NEW u, u = CountPlay(box, s, b),
           NEW t, t = AfterPlay(s, Batter(b), b.to, b.counts), Appeared(s, box)
    PROVE  Appeared(t, u)
  <1> DEFINE m == OnMound(s)
  <1>1. Played(t, s, Batter(b), b.to)
    BY PlayDone
  <1>2. /\ u.appearances = box.appearances
        /\ Gains(box.runsAllowed, u.runsAllowed, b.counts, Charge(s, b))
        /\ Gains(box.outs, u.outs, Outs(b.to), Retired(s, b))
    BY CountPlayEffect
  <1>3. m \in Players /\ box.appearances[m] > 0 /\ Begun(s)
    BY MoundSides DEF Appeared, Legal, SoundGame, OnMound
  <1>4. t.pitcher = s.pitcher
    BY <1>1 DEF Played, Lineup
  <1>5. ASSUME NEW p \in Players, box.appearances[p] = 0
        PROVE  u.runsAllowed[p] = box.runsAllowed[p] /\ u.outs[p] = box.outs[p]
    <2>1. p # m
      BY <1>3, <1>5
    <2>2. \A o \in Outs(b.to) : Retired(s, b)[o] # p
      BY <2>1 DEF Retired
    <2>3. \A o \in b.counts : Charge(s, b)[o] # p
      <3> SUFFICES ASSUME NEW o \in b.counts, Charged(s, b, o) = p
                   PROVE  FALSE
        BY DEF Charge
      <3>1. o # "BATTER"
        BY <2>1 DEF Charged, OnMound
      <3>2. /\ o \in DOMAIN b.to \ {"BATTER"} /\ s.bases[o] # None /\ o \in Bases
        BY <3>1, MovesOrigins DEF Legal, Home
      <3>3. s.bases[o] \in Players
        BY <3>2 DEF State, Diamonds
      <3>4. s.resp[s.bases[o]] = p /\ p # None
        BY <3>1, LineupAssumption DEF Charged
      <3>5. box.appearances[s.resp[s.bases[o]]] > 0
        BY <3>3, <3>4 DEF Appeared
      <3> QED
        BY <1>5, <3>4, <3>5
    <2>4. {o \in Outs(b.to) : Retired(s, b)[o] = p} = {} /\ {o \in b.counts : Charge(s, b)[o] = p} = {}
      BY <2>2, <2>3
    <2>5. /\ u.runsAllowed[p] = box.runsAllowed[p] + Cardinality({o \in b.counts : Charge(s, b)[o] = p})
          /\ u.outs[p] = box.outs[p] + Cardinality({o \in Outs(b.to) : Retired(s, b)[o] = p})
      BY <1>2 DEF Gains
    <2>6. box.runsAllowed[p] \in Nat /\ box.outs[p] \in Nat
      BY DEF Box, Counters
    <2>7. Cardinality({}) = 0
      BY FS_EmptySet
    <2>8. u.runsAllowed[p] = box.runsAllowed[p] + 0 /\ u.outs[p] = box.outs[p] + 0
      BY <2>4, <2>5, <2>7, Zenon
    <2> QED
      BY <2>6, <2>8
  <1>6. ASSUME NEW p \in Players, u.runsAllowed[p] + u.outs[p] > 0
        PROVE  u.appearances[p] > 0
    <2>1. CASE box.appearances[p] = 0
      BY <1>5, <1>6, <2>1 DEF Appeared
    <2>2. CASE box.appearances[p] # 0
      <3>1. box.appearances[p] \in Nat
        BY DEF Box, Counters
      <3> QED
        BY <1>2, <2>2, <3>1
    <2> QED
      BY <2>1, <2>2
  <1>7. ASSUME NEW p \in Players, t.resp[p] # None
        PROVE  u.appearances[t.resp[p]] > 0
    <2>1. t.resp[p] = m \/ t.resp[p] = s.resp[p]
      BY <1>1, <1>7 DEF Played, RespAfter, OnMound
    <2> QED
      BY <1>2, <1>3, <1>7, <2>1 DEF Appeared
  <1> QED
    BY <1>2, <1>3, <1>4, <1>6, <1>7 DEF Appeared

\* A play keeps the box score sound, and adds its outs to those of the pitchers
\* and its putouts to those of the side in the field.
LEMMA PlayKeepsBox ==
    ASSUME NEW s \in State, SoundGame(s), NEW b \in Admitted, b.type \in Plays, Accepts(s, b),
           NEW box, SoundBox(s, box), ~NoFieldingAtAll(b), NEW u, u = CountPlay(box, s, b)
    PROVE  /\ SoundGame(Apply(s, b)) /\ SoundBox(Apply(s, b), u)
           /\ \A side \in Sides :
                 /\ OfSide(u.outs, side) = OfSide(box.outs, side)
                       + IF side = FieldingSide(s) THEN Cardinality(Outs(b.to)) ELSE 0
                 /\ u.putouts[side] = box.putouts[side]
                       + IF side = FieldingSide(s) THEN b.putouts ELSE 0
  <1>1. Legal(s, b) /\ Apply(s, b) = AfterPlay(s, Batter(b), b.to, b.counts)
    BY PlayIsLegal
  <1>2. box \in Box /\ Balanced(s, box) /\ WithinInherited(s, box) /\ Appeared(s, box)
    BY DEF SoundBox
  <1>3. SoundGame(Apply(s, b))
    BY <1>1, PlaySound
  <1>4. /\ u \in Box
        /\ \A side \in Sides : u.putouts[side] = box.putouts[side]
              + IF side = FieldingSide(s) THEN b.putouts ELSE 0
    BY <1>1, <1>2, CountPlayEffect
  <1>5. /\ Balanced(Apply(s, b), u)
        /\ \A side \in Sides : OfSide(u.outs, side) = OfSide(box.outs, side)
              + IF side = FieldingSide(s) THEN Cardinality(Outs(b.to)) ELSE 0
    BY <1>1, <1>2, PlayBalances
  <1>6. WithinInherited(Apply(s, b), u)
    BY <1>1, <1>2, PlayCovers
  <1>7. Appeared(Apply(s, b), u)
    BY <1>1, <1>2, PlayAppears
  <1> QED
    BY <1>3, <1>4, <1>5, <1>6, <1>7 DEF SoundBox

\* What changes neither the score nor the clock, nor the counters these are
\* compared with, keeps the box score in balance.
SameCounts(box, u) ==
    u.runs = box.runs /\ u.runsAllowed = box.runsAllowed /\ u.outs = box.outs
    /\ u.putouts = box.putouts /\ u.inheritedScored = box.inheritedScored

LEMMA SameClockBalances ==
    ASSUME NEW s, NEW t, NEW box, NEW u, Balanced(s, box), SameCounts(box, u),
           t.score = s.score, t.inning = s.inning, t.half = s.half, t.outs = s.outs
    PROVE  Balanced(t, u)
  <1>1. ASSUME NEW side \in Sides PROVE OutsFielded(t, side) = OutsFielded(s, side)
    BY DEF OutsFielded, OutsOfFinishedHalves, FieldingSide, BattingSide
  <1> QED
    BY <1>1, Zenon DEF Balanced, SameCounts

\* A substitution leaves the box score as it is.
LEMMA SubstitutionKeepsBox ==
    ASSUME NEW s \in State, SoundGame(s), NEW b \in Admitted, b.type = "DefensiveSubstitutionMade",
           Accepts(s, b), NEW box, SoundBox(s, box)
    PROVE  SoundGame(Apply(s, b)) /\ SoundBox(Apply(s, b), box)
  <1> DEFINE t == Apply(s, b)
  <1>1. /\ b.side \in Sides /\ b.in \in Players /\ b.pos \in Positions
        /\ CanSubstitute(s, b.side, b.out, b.in, b.pos)
        /\ t = AfterSubstitution(s, b.side, b.out, b.in, b.pos)
    BY AdmittedBodies DEF Accepts, Apply
  <1> HIDE DEF t
  <1>2. /\ SoundGame(t) /\ t.pitcher = s.pitcher /\ t.score = s.score
        /\ t.inning = s.inning /\ t.half = s.half /\ t.outs = s.outs
        /\ LeftOver(t) \subseteq LeftOver(s)
        /\ \A p \in Players : t.resp[p] # None => \E q \in Players : t.resp[p] = s.resp[q]
    <2>1. PICK side, out, in, pos :
             side = b.side /\ out = b.out /\ in = b.in /\ pos = b.pos
      OBVIOUS
    <2>2. /\ side \in Sides /\ in \in Players /\ pos \in Positions
          /\ CanSubstitute(s, side, out, in, pos) /\ t = AfterSubstitution(s, side, out, in, pos)
      BY <1>1, <2>1
    <2> QED
      BY <2>2, SubstitutionKeepsGame, Z3
  <1>3. Balanced(t, box)
    BY <1>2, SameClockBalances DEF SoundBox, SameCounts
  <1>4. OnMound(t) = OnMound(s)
    BY <1>2 DEF OnMound, FieldingSide, BattingSide
  <1>5. /\ Cardinality(LeftOver(t)) <= Cardinality(LeftOver(s))
        /\ Cardinality(LeftOver(t)) \in Nat /\ Cardinality(LeftOver(s)) \in Nat
    <2>1. IsFiniteSet(LeftOver(s)) /\ Cardinality(LeftOver(s)) \in Nat /\ Cardinality(LeftOver(t)) \in Nat
      BY OriginsFinite DEF LeftOver, Occupied
    <2> QED
      BY <1>2, <2>1, FS_Subset
  <1>6. WithinInherited(t, box)
    <2> SUFFICES ASSUME NEW p \in Players
                 PROVE  box.inheritedScored[p]
                           + (IF p = OnMound(t) THEN Cardinality(LeftOver(t)) ELSE 0) <= box.inherited[p]
      BY DEF WithinInherited
    <2>1. /\ box.inheritedScored[p] + (IF p = OnMound(s) THEN Cardinality(LeftOver(s)) ELSE 0)
                <= box.inherited[p]
          /\ box.inheritedScored[p] \in Nat /\ box.inherited[p] \in Nat
      BY DEF SoundBox, WithinInherited, Box, Counters
    <2> QED
      BY <1>4, <1>5, <2>1
  <1>7. Begun(s)
    BY <1>1 DEF CanSubstitute, Live, Begun
  <1>8. Appeared(t, box)
    BY <1>2, <1>7, Zenon DEF SoundBox, Appeared
  <1> QED
    BY <1>2, <1>3, <1>6, <1>8 DEF SoundBox, t

\* A reliever appears, and inherits whoever is on base.
LEMMA ReliefKeepsBox ==
    ASSUME NEW s \in State, SoundGame(s), NEW b \in Admitted, b.type = "PitchingChangeMade",
           Accepts(s, b), NEW box, SoundBox(s, box), NEW u, u = RelieverAppears(box, s, b)
    PROVE  SoundGame(Apply(s, b)) /\ SoundBox(Apply(s, b), u) /\ SameCounts(box, u)
  <1> DEFINE t == Apply(s, b)
             k == Cardinality(Occupied(s))
  <1>1. /\ b.side \in Sides /\ b.in \in Players
        /\ CanChangePitcher(s, b.side, b.in) /\ t = AfterPitchingChange(s, b.side, b.in)
    BY AdmittedBodies DEF Accepts, Apply
  <1> HIDE DEF t
  <1>2. /\ SoundGame(t) /\ Begun(s) /\ t.score = s.score /\ t.resp = s.resp
        /\ t.inning = s.inning /\ t.half = s.half /\ t.outs = s.outs
        /\ \A d \in Sides : t.pitcher[d] = IF d = b.side THEN b.in ELSE s.pitcher[d]
        /\ OnMound(t) = b.in /\ LeftOver(t) \subseteq Occupied(s)
    BY <1>1, ReliefKeepsGame
  <1>3. /\ Cardinality(LeftOver(t)) <= k /\ Cardinality(LeftOver(t)) \in Nat /\ k \in Nat
        /\ Cardinality(LeftOver(s)) \in Nat
    <2>1. /\ IsFiniteSet(Occupied(s)) /\ k \in Nat /\ Cardinality(LeftOver(t)) \in Nat
          /\ Cardinality(LeftOver(s)) \in Nat
      BY OriginsFinite DEF LeftOver, Occupied
    <2> QED
      BY <1>2, <2>1, FS_Subset
  <1> HIDE DEF k
  <1>4. box \in Box /\ box.appearances \in Counters /\ box.inherited \in Counters
        /\ box.inheritedScored \in Counters
    BY DEF SoundBox, Box
  <1>5. u = [box EXCEPT !.appearances = [box.appearances EXCEPT ![b.in] = @ + 1],
                        !.inherited = [box.inherited EXCEPT ![b.in] = @ + k]]
    BY DEF RelieverAppears, k
  <1>6. /\ SameCounts(box, u) /\ u \in Box
        /\ u.appearances = [box.appearances EXCEPT ![b.in] = @ + 1]
        /\ u.inherited = [box.inherited EXCEPT ![b.in] = @ + k]
    <2>1. /\ [box.appearances EXCEPT ![b.in] = @ + 1] \in Counters
          /\ [box.inherited EXCEPT ![b.in] = @ + k] \in Counters
      BY <1>1, <1>3, <1>4 DEF Counters
    <2> QED
      BY <1>4, <1>5, <2>1 DEF Box, SameCounts
  <1>7. \A p \in Players :
           /\ u.appearances[p] = box.appearances[p] + (IF p = b.in THEN 1 ELSE 0)
           /\ u.inherited[p] = box.inherited[p] + (IF p = b.in THEN k ELSE 0)
           /\ box.appearances[p] \in Nat /\ box.inherited[p] \in Nat /\ box.inheritedScored[p] \in Nat
    BY <1>1, <1>3, <1>4, <1>6 DEF Counters
  <1>8. Balanced(t, u)
    BY <1>2, <1>6, SameClockBalances DEF SoundBox
  <1>9. WithinInherited(t, u)
    <2> SUFFICES ASSUME NEW p \in Players
                 PROVE  u.inheritedScored[p]
                           + (IF p = OnMound(t) THEN Cardinality(LeftOver(t)) ELSE 0) <= u.inherited[p]
      BY DEF WithinInherited
    <2>1. box.inheritedScored[p] + (IF p = OnMound(s) THEN Cardinality(LeftOver(s)) ELSE 0)
             <= box.inherited[p]
      BY DEF SoundBox, WithinInherited
    <2>2. u.inheritedScored = box.inheritedScored
      BY <1>6 DEF SameCounts
    <2> QED
      BY <1>2, <1>3, <1>7, <2>1, <2>2
  <1>10. \A p \in Players : box.appearances[p] > 0 => u.appearances[p] > 0
    BY <1>7
  <1>11. u.appearances[b.in] > 0
    BY <1>1, <1>7
  <1>12. Appeared(t, u)
    <2>1. ASSUME NEW p \in Players, s.resp[p] # None
          PROVE  u.appearances[s.resp[p]] > 0
      <3>1. s.resp[p] \in Players /\ box.appearances[s.resp[p]] > 0
        BY <2>1 DEF State, Charges, SoundBox, Appeared
      <3> QED
        BY <1>10, <3>1
    <2>2. ASSUME NEW side \in Sides PROVE u.appearances[t.pitcher[side]] > 0
      <3>1. s.pitcher[side] \in Players /\ box.appearances[s.pitcher[side]] > 0
        BY <1>2 DEF State, Mounds, SoundBox, Appeared
      <3> QED
        BY <1>2, <1>10, <1>11, <3>1
    <2>3. ASSUME NEW p \in Players, u.runsAllowed[p] + u.outs[p] > 0
          PROVE  u.appearances[p] > 0
      <3>1. box.runsAllowed[p] + box.outs[p] > 0
        BY <1>6, <2>3 DEF SameCounts
      <3> QED
        BY <1>10, <3>1 DEF SoundBox, Appeared
    <2> QED
      BY <1>2, <2>1, <2>2, <2>3, Zenon DEF Appeared
  <1> QED
    BY <1>2, <1>6, <1>8, <1>9, <1>12 DEF SoundBox, t

\* A change of status leaves the box score as it is.
LEMMA StatusKeepsBox ==
    ASSUME NEW s \in State, SoundGame(s), Begun(s), NEW status \in Statuses \ {"READY"},
           NEW t, t = [s EXCEPT !.status = status], NEW box, SoundBox(s, box)
    PROVE  SoundGame(t) /\ SoundBox(t, box)
  <1>1. SoundGame(t) /\ Begun(t) /\ SameField(s, t) /\ t.half = s.half /\ t.inning = s.inning
    BY StatusKeepsGame
  <1>2. Balanced(t, box)
    BY <1>1, SameClockBalances DEF SoundBox, SameCounts, SameField
  <1>3. OnMound(t) = OnMound(s) /\ LeftOver(t) = LeftOver(s)
    BY <1>1 DEF OnMound, FieldingSide, BattingSide, LeftOver, Occupied, SameField
  <1>4. WithinInherited(t, box)
    BY <1>3, Zenon DEF SoundBox, WithinInherited
  <1>5. Appeared(t, box)
    BY <1>1, Zenon DEF SoundBox, Appeared, SameField
  <1> QED
    BY <1>1, <1>2, <1>4, <1>5 DEF SoundBox

\* The pitchers a game starts with appear; nobody is on base yet.
LEMMA StartKeepsBox ==
    ASSUME NEW s \in State, SoundGame(s), ~Begun(s), NEW t, t = StartGame(s),
           NEW box, SoundBox(s, box), NEW u, u = StartersAppear(box, s)
    PROVE  SoundGame(t) /\ SoundBox(t, u) /\ SameCounts(box, u)
  <1> DEFINE starters == {s.pitcher[side] : side \in Sides}
             seen == [p \in Players |-> IF p \in starters THEN 1 ELSE box.appearances[p]]
  <1>1. /\ SoundGame(t) /\ Begun(t) /\ SameField(s, t) /\ LeftOver(t) = {}
        /\ t.half = "TOP" /\ t.inning = 1 /\ Untaken(s)
    BY StartKeepsGame
  <1>2. box \in Box /\ box.appearances \in Counters /\ u = [box EXCEPT !.appearances = seen]
    BY DEF SoundBox, Box, StartersAppear
  <1>3. seen \in Counters /\ \A p \in Players : box.appearances[p] > 0 => seen[p] > 0
    <2>1. \A p \in Players : box.appearances[p] \in Nat
      BY <1>2 DEF Counters
    <2> QED
      BY <2>1 DEF Counters
  <1>4. \A side \in Sides : s.pitcher[side] \in Players /\ seen[s.pitcher[side]] = 1
    BY DEF State, Mounds
  <1> HIDE DEF seen, starters
  <1>5. u \in Box /\ SameCounts(box, u) /\ u.appearances = seen /\ u.inherited = box.inherited
    BY <1>2, <1>3 DEF Box, SameCounts
  <1>6. ASSUME NEW side \in Sides PROVE OutsFielded(t, side) = OutsFielded(s, side)
    <2>1. t.outs = 0 /\ s.inning = 0 /\ t.inning = 1 /\ t.half = "TOP"
      BY <1>1 DEF SameField, Untaken
    <2> QED
      BY <2>1 DEF OutsFielded, OutsOfFinishedHalves
  <1>7. Balanced(t, u)
    BY <1>1, <1>5, <1>6, Zenon DEF SoundBox, Balanced, SameCounts, SameField
  <1>8. WithinInherited(t, u)
    <2> SUFFICES ASSUME NEW p \in Players
                 PROVE  u.inheritedScored[p]
                           + (IF p = OnMound(t) THEN Cardinality(LeftOver(t)) ELSE 0) <= u.inherited[p]
      BY DEF WithinInherited
    <2>1. /\ box.inheritedScored[p] + (IF p = OnMound(s) THEN Cardinality(LeftOver(s)) ELSE 0)
                <= box.inherited[p]
          /\ box.inheritedScored[p] \in Nat /\ box.inherited[p] \in Nat
      BY <1>2 DEF SoundBox, WithinInherited, Box, Counters
    <2>2. LeftOver(s) = {} /\ Cardinality({}) = 0
      BY <1>1, FS_EmptySet DEF Untaken, LeftOver
    <2>3. u.inheritedScored[p] = box.inheritedScored[p] /\ u.inherited[p] = box.inherited[p]
      BY <1>5 DEF SameCounts
    <2> QED
      BY <1>1, <2>1, <2>2, <2>3
  <1>9. Appeared(t, u)
    <2>1. ASSUME NEW p \in Players, u.runsAllowed[p] + u.outs[p] > 0
          PROVE  u.appearances[p] > 0
      <3>1. box.runsAllowed[p] + box.outs[p] > 0
        BY <1>5, <2>1 DEF SameCounts
      <3>2. box.appearances[p] > 0
        BY <3>1 DEF SoundBox, Appeared
      <3> QED
        BY <1>3, <1>5, <3>2
    <2>2. \A p \in Players : t.resp[p] = None
      BY <1>1 DEF SameField, Untaken
    <2>3. \A side \in Sides : t.pitcher[side] = s.pitcher[side] /\ u.appearances[s.pitcher[side]] = 1
      BY <1>1, <1>4, <1>5 DEF SameField
    <2>4. \A side \in Sides : u.appearances[t.pitcher[side]] > 0
      BY <2>3
    <2> QED
      BY <2>1, <2>2, <2>4 DEF Appeared
  <1> QED
    BY <1>1, <1>5, <1>7, <1>8, <1>9 DEF SoundBox

\* Every event that is not a play keeps the game sound.
LEMMA EventKeepsGame ==
    ASSUME NEW s \in State, SoundGame(s), NEW b \in Events, b.type \notin Plays, Accepts(s, b)
    PROVE  SoundGame(Apply(s, b))
  <1> DEFINE t == Apply(s, b)
  <1>1. b.type \in BodyTypes \cup {"CorrectionApplied"}
    BY AdmittedBodies DEF Events, Corrections
  <1>2. Lifecycle(s, t, b)
    BY ApplyEffect
  <1> HIDE DEF t
  <1>3. CASE b.type = "GameStarted"
    <2>1. ~Begun(s) /\ t = StartGame(s)
      BY <1>2, <1>3 DEF Lifecycle, Begun
    <2> QED
      BY <2>1, StartKeepsGame DEF t
  <1>4. CASE b.type = "PitchingChangeMade"
    <2>1. /\ b \in Admitted /\ b.side \in Sides /\ b.in \in Players
          /\ CanChangePitcher(s, b.side, b.in) /\ t = AfterPitchingChange(s, b.side, b.in)
      BY <1>4, AdmittedBodies DEF Accepts, Apply, Events, Corrections, t
    <2> QED
      BY <2>1, ReliefKeepsGame DEF t
  <1>5. CASE b.type = "DefensiveSubstitutionMade"
    <2>1. b \in Admitted
      BY <1>5 DEF Events, Corrections
    <2>2. PICK side, out, in, pos :
             side = b.side /\ out = b.out /\ in = b.in /\ pos = b.pos
      OBVIOUS
    <2>3. /\ side \in Sides /\ in \in Players /\ pos \in Positions
          /\ CanSubstitute(s, side, out, in, pos) /\ t = AfterSubstitution(s, side, out, in, pos)
      BY <1>5, <2>1, <2>2, AdmittedBodies DEF Accepts, Apply, t
    <2>4. SoundGame(t)
      BY <2>3, SubstitutionKeepsGame, SMTT(60)
    <2> QED
      BY <2>4 DEF t
  <1>6. CASE b.type \in {"GameSuspended", "GameResumed", "GameCompleted", "GameVerified",
                         "GameReopened", "GameAbandoned", "CorrectionApplied"}
    <2>1. Begun(s) /\ \E status \in Statuses \ {"READY"} : t = [s EXCEPT !.status = status]
      BY <1>2, <1>6 DEF Lifecycle, Begun, Statuses
    <2>2. PICK status \in Statuses \ {"READY"} : t = [s EXCEPT !.status = status]
      BY <2>1
    <2> QED
      BY <2>1, <2>2, StatusKeepsGame DEF t
  <1> QED
    BY <1>1, <1>3, <1>4, <1>5, <1>6 DEF BodyTypes, Plays

\* Every event that is not a play keeps the box score sound, and adds no out.
LEMMA EventKeepsBox ==
    ASSUME NEW s \in State, SoundGame(s), NEW b \in Events, b.type \notin Plays, Accepts(s, b),
           NEW box, SoundBox(s, box)
    PROVE  /\ SoundGame(Apply(s, b)) /\ SoundBox(Apply(s, b), CountStep(box, s, b))
           /\ SameCounts(box, CountStep(box, s, b))
  <1>1. b.type \in BodyTypes \cup {"CorrectionApplied"}
    BY AdmittedBodies DEF Events, Corrections
  <1>2. SameCounts(box, box)
    BY DEF SameCounts
  <1>3. Lifecycle(s, Apply(s, b), b)
    BY ApplyEffect
  <1>4. CASE b.type = "GameStarted"
    <2>1. ~Begun(s) /\ Apply(s, b) = StartGame(s)
      BY <1>3, <1>4 DEF Lifecycle, Begun
    <2>2. CountStep(box, s, b) = StartersAppear(box, s)
      BY <1>4 DEF CountStep, Plays
    <2> QED
      BY <2>1, <2>2, StartKeepsBox
  <1>5. CASE b.type = "PitchingChangeMade"
    <2>1. b \in Admitted
      BY <1>5 DEF Events, Corrections
    <2>2. CountStep(box, s, b) = RelieverAppears(box, s, b)
      BY <1>5 DEF CountStep, Plays
    <2> QED
      BY <1>5, <2>1, <2>2, ReliefKeepsBox
  <1>6. CASE b.type = "DefensiveSubstitutionMade"
    <2>1. b \in Admitted
      BY <1>6 DEF Events, Corrections
    <2>2. CountStep(box, s, b) = box
      BY <1>6 DEF CountStep, Plays
    <2> QED
      BY <1>2, <1>6, <2>1, <2>2, SubstitutionKeepsBox
  <1>7. CASE b.type \in {"GameSuspended", "GameResumed", "GameCompleted", "GameVerified",
                         "GameReopened", "GameAbandoned", "CorrectionApplied"}
    <2>1. CountStep(box, s, b) = box
      BY <1>7 DEF CountStep, Plays
    <2>2. Begun(s) /\ \E status \in Statuses \ {"READY"} : Apply(s, b) = [s EXCEPT !.status = status]
      BY <1>3, <1>7 DEF Lifecycle, Begun, Statuses
    <2>3. PICK status \in Statuses \ {"READY"} : Apply(s, b) = [s EXCEPT !.status = status]
      BY <2>2
    <2> QED
      BY <1>2, <2>1, <2>2, <2>3, StatusKeepsBox
  <1> QED
    BY <1>1, <1>4, <1>5, <1>6, <1>7 DEF BodyTypes, Plays

-----------------------------------------------------------------------------
(* The derivation *)

\* A play is judged: its runs are earned or not, each of its outs is credited.
PlayJudged(b) ==
    /\ ~EarnedRunsOpen(b) /\ ~RuleUndefined(b) /\ ~RunBattedInByNobody(b)
    /\ b.putouts = Cardinality(Outs(b.to))

PutoutsMatch(box) == \A side \in Sides : OfSide(box.outs, side) = box.putouts[side]

\* What a derivation has established once it has reached a state of the game.
Established(d, s, judged) ==
    /\ d.state = s /\ s \in State /\ SoundGame(s)
    /\ d.known => SoundBox(s, d.box)
    /\ judged => d.known /\ PutoutsMatch(d.box)

LEMMA NothingEstablished ==
    ASSUME NEW judged PROVE Established(Nothing, InitialState(TheSetup), judged)
  <1> DEFINE s == InitialState(TheSetup)
             zero == [p \in Players |-> 0]
  <1>1. Nothing.state = s /\ Nothing.box = BlankBox /\ Nothing.known
    BY DEF Nothing
  <1>2. s \in State /\ SoundGame(s) /\ ~Begun(s)
    BY StartType, StartIsSound
  <1>3. \A side \in Sides : s.score[side] = 0
    BY DEF InitialState
  <1>4. Untaken(s)
    BY <1>2 DEF SoundGame
  <1> HIDE DEF s
  <1>5. /\ BlankBox.runs = zero /\ BlankBox.outs = zero /\ BlankBox.runsAllowed = zero
        /\ BlankBox.appearances = zero /\ BlankBox.inherited = zero /\ BlankBox.inheritedScored = zero
        /\ \A side \in Sides : BlankBox.putouts[side] = 0
    BY DEF BlankBox
  <1>6. BlankBox \in Box
    <2>1. zero \in Counters /\ [side \in Sides |-> 0] \in [Sides -> Nat]
      BY DEF Counters
    <2> QED
      BY <2>1 DEF BlankBox, Box
  <1>7. \A side \in Sides : OfSide(zero, side) = 0 /\ OfSide(zero, Other(side)) = 0
    BY SumOfNothing
  <1>8. \A side \in Sides : OutsFielded(s, side) = 0
    BY <1>4 DEF Untaken, OutsFielded, OutsOfFinishedHalves
  <1>9. Balanced(s, BlankBox)
    BY <1>3, <1>5, <1>7, <1>8, Zenon DEF Balanced
  <1>10. WithinInherited(s, BlankBox)
    <2>1. LeftOver(s) = {} /\ Cardinality({}) = 0
      BY <1>4, FS_EmptySet DEF Untaken, LeftOver
    <2>2. \A p \in Players : BlankBox.inheritedScored[p] = 0 /\ BlankBox.inherited[p] = 0
      BY <1>5
    <2> QED
      BY <2>1, <2>2 DEF WithinInherited
  <1>11. Appeared(s, BlankBox)
    <2>1. \A p \in Players : BlankBox.runsAllowed[p] = 0 /\ BlankBox.outs[p] = 0 /\ s.resp[p] = None
      BY <1>4, <1>5 DEF Untaken
    <2> QED
      BY <1>2, <2>1 DEF Appeared
  <1>12. PutoutsMatch(BlankBox)
    BY <1>5, <1>7, Zenon DEF PutoutsMatch
  <1> QED
    BY <1>1, <1>2, <1>6, <1>9, <1>10, <1>11, <1>12 DEF Established, SoundBox, s

\* A judged play that was accepted can be attributed.
LEMMA JudgedIsAttributable ==
    ASSUME NEW s \in State, SoundGame(s), NEW b \in Admitted, b.type \in Plays, Accepts(s, b),
           PlayJudged(b)
    PROVE  Attributable(s, b)
  <1>1. Legal(s, b)
    BY PlayIsLegal
  <1>2. /\ Cardinality(Outs(b.to)) \in Nat
        /\ \A o \in b.counts : /\ Team[RunnerFrom(s, Batter(b), o)] = BattingSide(s)
                               /\ Team[Charged(s, b, o)] = FieldingSide(s)
    BY <1>1, WhoCounts
  <1>3. ~NoFieldingAtAll(b)
    BY <1>2, AdmittedJudged DEF PlayJudged, NoFieldingAtAll
  <1> QED
    BY <1>2, <1>3 DEF PlayJudged, Attributable

\* Every event that is accepted takes the derivation one step on.
LEMMA StepEstablishes ==
    ASSUME NEW s, NEW judged, NEW d, Established(d, s, judged), NEW b \in Events, Accepts(s, b),
           judged => (b.type \in Plays => PlayJudged(b))
    PROVE  Established(CountBody(d, b), Apply(s, b), judged)
  <1> DEFINE e == CountBody(d, b)
             t == Apply(s, b)
             sure == d.known /\ (b.type \in Plays => Attributable(d.state, b))
  <1>1. /\ d.state = s /\ s \in State /\ SoundGame(s)
        /\ d.known => SoundBox(s, d.box)
        /\ judged => d.known /\ PutoutsMatch(d.box)
    BY DEF Established
  <1>2. /\ e.state = t /\ e.known = sure
        /\ e.box = IF sure THEN CountStep(d.box, s, b) ELSE d.box
    BY <1>1 DEF CountBody
  <1>3. t \in State
    BY <1>1, ApplyEffect
  <1> HIDE DEF e, t
  <1>4. CASE b.type \notin Plays
    <2>1. sure <=> d.known
      BY <1>4
    <2>2. SoundGame(t)
      <3>1. CASE d.known
        BY <1>1, <1>4, <3>1, EventKeepsBox DEF t
      <3>2. CASE ~d.known
        BY <1>1, <1>4, EventKeepsGame DEF t
      <3> QED
        BY <3>1, <3>2
    <2>3. ASSUME d.known
          PROVE  SoundBox(t, e.box) /\ SameCounts(d.box, e.box)
      <3>1. e.box = CountStep(d.box, s, b)
        BY <1>2, <2>1, <2>3
      <3> QED
        BY <1>1, <1>4, <2>3, <3>1, EventKeepsBox DEF t
    <2>4. ASSUME d.known, PutoutsMatch(d.box) PROVE PutoutsMatch(e.box)
      BY <2>3, <2>4 DEF PutoutsMatch, SameCounts
    <2> QED
      BY <1>1, <1>2, <1>3, <2>1, <2>2, <2>3, <2>4 DEF Established, e, t
  <1>5. CASE b.type \in Plays
    <2>1. b \in Admitted
      BY <1>5 DEF Events, Corrections, Plays
    <2>2. Legal(s, b) /\ SoundGame(t)
      BY <1>1, <1>5, <2>1, PlayIsLegal, PlaySound DEF t
    <2>3. ASSUME sure
          PROVE  /\ SoundBox(t, e.box) /\ e.box = CountPlay(d.box, s, b)
                 /\ \A side \in Sides :
                      /\ OfSide(e.box.outs, side) = OfSide(d.box.outs, side)
                            + IF side = FieldingSide(s) THEN Cardinality(Outs(b.to)) ELSE 0
                      /\ e.box.putouts[side] = d.box.putouts[side]
                            + IF side = FieldingSide(s) THEN b.putouts ELSE 0
      <3>1. e.box = CountPlay(d.box, s, b)
        BY <1>2, <1>5, <2>3 DEF CountStep, Plays
      <3>2. SoundBox(s, d.box) /\ ~NoFieldingAtAll(b)
        BY <1>1, <1>5, <2>3 DEF Attributable
      <3> QED
        BY <1>1, <1>5, <2>1, <3>1, <3>2, PlayKeepsBox DEF t
    <2>4. ASSUME judged PROVE sure /\ PutoutsMatch(e.box)
      <3>1. sure
        BY <1>1, <1>5, <2>1, <2>4, JudgedIsAttributable
      <3>2. PutoutsMatch(d.box) /\ b.putouts = Cardinality(Outs(b.to))
        BY <1>1, <1>5, <2>4 DEF PlayJudged
      <3> QED
        BY <2>3, <3>1, <3>2 DEF PutoutsMatch
    <2> HIDE DEF sure
    <2> QED
      BY <1>2, <1>3, <2>2, <2>3, <2>4 DEF Established, e, t
  <1> QED
    BY <1>4, <1>5

CountFirst(q) == Nothing
CountNext(q, d, i) == CountBody(d, q[i])
Count == INSTANCE Recursion WITH First <- CountFirst, Step <- CountNext

LEMMA CountUnfolds ==
    ASSUME NEW q, Len(q) \in Nat
    PROVE  /\ CountAll(q) = Count!Upto(q, Len(q))[Len(q)]
           /\ Count!Upto(q, Len(q))[0] = Nothing
           /\ \A i \in 1 .. Len(q) :
                 Count!Upto(q, Len(q))[i] = CountBody(Count!Upto(q, Len(q))[i - 1], q[i])
  <1>1. CountAll(q) = Count!Upto(q, Len(q))[Len(q)]
    BY DEF CountAll, Count!Upto, CountFirst, CountNext
  <1> QED
    BY <1>1, Count!UptoUnfolds DEF CountFirst, CountNext

AllJudged(q) == \A i \in DOMAIN q : q[i].type \in Plays => PlayJudged(q[i])

\* Replay and box score go over the same bodies in step.
LEMMA ReplayEstablishes ==
    ASSUME NEW q \in Seq(Events), NEW s \in Reached(q)
    PROVE  Established(CountAll(q), s, AllJudged(q))
  <1> DEFINE n == Len(q)
             at(i) == Reach!Upto(q, n)[i]
             d(i) == Count!Upto(q, n)[i]
             S == {i \in 0 .. n : \A t \in at(i) : Established(d(i), t, AllJudged(q))}
  <1>1. n \in Nat /\ DOMAIN q = 1 .. n /\ \A i \in 1 .. n : q[i] \in Events
    OBVIOUS
  <1>2. /\ Reached(q) = at(n) /\ at(0) = {InitialState(TheSetup)}
        /\ \A i \in 1 .. n : at(i) = ReachStep(q, at(i - 1), i)
    BY <1>1, ReachedUnfolds
  <1>3. /\ CountAll(q) = d(n) /\ d(0) = Nothing
        /\ \A i \in 1 .. n : d(i) = CountBody(d(i - 1), q[i])
    BY <1>1, CountUnfolds
  <1> HIDE DEF at, d, n
  <1>4. 0 \in S
    BY <1>1, <1>2, <1>3, NothingEstablished
  <1>5. ASSUME NEW i \in 1 .. n, i - 1 \in S PROVE i \in S
    <2>1. i \in 0 .. n
      BY <1>1
    <2>2. ASSUME NEW u \in at(i) PROVE Established(d(i), u, AllJudged(q))
      <3>1. PICK t \in at(i - 1) : Accepts(t, q[i]) /\ u = Apply(t, q[i])
        BY <1>2, <2>2 DEF ReachStep
      <3>2. Established(d(i - 1), t, AllJudged(q)) /\ q[i] \in Events
        BY <1>1, <1>5, <3>1
      <3>3. AllJudged(q) => (q[i].type \in Plays => PlayJudged(q[i]))
        BY <1>1 DEF AllJudged
      <3>4. Established(CountBody(d(i - 1), q[i]), Apply(t, q[i]), AllJudged(q))
        BY <3>1, <3>2, <3>3, StepEstablishes
      <3> QED
        BY <1>3, <3>1, <3>4
    <2> QED
      BY <2>1, <2>2
  <1> HIDE DEF S
  <1>6. 0 .. n \subseteq S
    BY <1>1, <1>4, <1>5, Reach!InductionUpto
  <1>7. n \in S
    BY <1>1, <1>6
  <1> QED
    BY <1>2, <1>3, <1>7 DEF S

LEMMA BoxScoreFollows == IInv => BoxScoreHolds
  <1> SUFFICES ASSUME IInv PROVE BoxScoreHolds
    OBVIOUS
  <1> DEFINE d == Derivation(history)
             box == d.box
  <1>1. Established(d, game, AllJudged(Effective(history)))
    <2>1. Effective(history) \in Seq(Events) /\ game \in Reached(Effective(history))
      BY GameReached
    <2> QED
      BY <2>1, ReplayEstablishes DEF Derivation
  <1>2. Judged(history) => AllJudged(Effective(history))
    BY DEF Judged, AllJudged, PlayJudged
  <1> HIDE DEF d
  <1>3. /\ d.state = game
        /\ d.known => SoundBox(game, box)
        /\ Judged(history) => d.known /\ PutoutsMatch(box)
    BY <1>1, <1>2 DEF Established
  <1>4. JudgedGameHasBoxScore
    <2> SUFFICES ASSUME Judged(history) PROVE d.known /\ Reconciles(d)
      BY DEF JudgedGameHasBoxScore, HasBoxScore, d
    <2>1. d.known /\ PutoutsMatch(box) /\ Balanced(game, box)
      BY <1>3 DEF SoundBox
    <2>2. \A side \in Sides : Other(side) \in Sides
      BY DEF Other, Sides
    <2>3. Reconciles(d)
      BY <1>3, <2>1, <2>2, Zenon DEF Reconciles, Balanced, PutoutsMatch
    <2> QED
      BY <2>1, <2>3
  <1>5. PitchersRecordEveryOut
    <2> SUFFICES ASSUME d.known, NEW side \in Sides
                 PROVE  OfSide(d.box.outs, side) = OutsFielded(game, side)
      BY DEF PitchersRecordEveryOut, OutsFielded, d
    <2> QED
      BY <1>3 DEF SoundBox, Balanced
  <1>6. InheritedRunnersCovered
    <2> SUFFICES ASSUME d.known, NEW p \in Players
                 PROVE  /\ d.box.inheritedScored[p] <= d.box.inherited[p]
                        /\ d.box.runsAllowed[p] + d.box.outs[p] > 0 => d.box.appearances[p] > 0
      BY DEF InheritedRunnersCovered, d
    <2>1. box \in Box /\ WithinInherited(game, box) /\ Appeared(game, box)
      BY <1>3 DEF SoundBox
    <2>2. Cardinality(LeftOver(game)) \in Nat
      BY OriginsFinite DEF LeftOver, Occupied
    <2>3. box.inheritedScored[p] + (IF p = OnMound(game) THEN Cardinality(LeftOver(game)) ELSE 0)
             <= box.inherited[p]
      BY <2>1 DEF WithinInherited
    <2>4. box.inheritedScored[p] \in Nat /\ box.inherited[p] \in Nat
      BY <2>1 DEF Box, Counters
    <2>5. d.box.runsAllowed[p] + d.box.outs[p] > 0 => d.box.appearances[p] > 0
      BY <2>1 DEF Appeared
    <2> QED
      BY <2>2, <2>3, <2>4, <2>5
  <1> QED
    BY <1>4, <1>5, <1>6 DEF BoxScoreHolds

\* A game that is scored, with every correction refused that has no box score, is
\* a game of the history.
LEMMA ScoredIsHistory == ScoredSpec => Spec
  <1>1. NextScored => Next
    BY DEF NextScored, Score, Correct, Next
  <1>2. [NextScored]_vars => [Next]_vars
    BY <1>1
  <1> QED
    BY <1>2, PTL DEF ScoredSpec, Spec

\* The box score of every game: a game whose plays are all judged has one, which
\* reconciles with the replay; the pitchers are charged with exactly the outs their
\* side fielded; and nobody is charged with what he could not have had, whatever was
\* corrected, substituted or relieved.
THEOREM StatisticsCorrect == ScoredSpec => []BoxScoreHolds
  BY ScoredIsHistory, HistoryInvariant, BoxScoreFollows, PTL
-----------------------------------------------------------------------------
(***************************************************************************)
(* The review page                                                         *)
(***************************************************************************)

\* What a history replays to.
LEMMA ReplayedOne ==
    ASSUME NEW h, WellFormed(h), NEW s \in Replay(h)
    PROVE  /\ Resolve(h).valid /\ Effective(h) \in Seq(Events)
           /\ s \in State /\ Replay(h) = {s} /\ Reached(Effective(h)) = {s}
  <1>1. Resolve(h).valid /\ s \in Reached(Effective(h)) /\ Replay(h) = Reached(Effective(h))
    BY DEF Replay, Reached
  <1>2. Effective(h) \in Seq(Events)
    <2>1. Len(h) \in Nat /\ Len(h) \in 0 .. Len(h)
      BY FromUnfolds
    <2> QED
      BY <2>1, EffectiveType, EffectiveUnfolds
  <1> QED
    BY <1>1, <1>2, ReachedOne

\* An event that corrects nothing leaves the corrections as they are, and comes last.
LEMMA PlainAppended ==
    ASSUME NEW h, WellFormed(h), Resolve(h).valid, NEW e \in Events, ~IsCorrection(e),
           Resolve(Append(h, e)).valid
    PROVE  WellFormed(Append(h, e)) /\ Effective(Append(h, e)) = Append(Effective(h), e)
  <1> DEFINE n == Len(h)
             g == Append(h, e)
  <1>1. /\ n \in Nat /\ Len(g) = n + 1 /\ DOMAIN g = 1 .. n + 1 /\ DOMAIN h = 1 .. n
        /\ g[n + 1] = e /\ \A i \in 1 .. n : g[i] = h[i]
        /\ CorrectionsOf(g) = CorrectionsOf(h) \cup (IF IsCorrection(e) THEN {n + 1} ELSE {})
        /\ WellFormed(g)
    BY Appended, FromUnfolds
  <1>0. CorrectionsOf(g) = CorrectionsOf(h)
    BY <1>1
  <1> HIDE DEF g, n
  <1>2. \A c \in CorrectionsOf(h) : /\ g[c] = h[c] /\ c \in 1 .. n /\ h[c].targets \subseteq 1 .. c - 1
                                    /\ h[c].with # <<>> => Earliest(h[c].targets) \in h[c].targets
    BY <1>0, <1>1, CorrectionAt DEF n
  <1>3. Active(g) = Active(h) /\ Active(h) \subseteq CorrectionsOf(h)
    <2>1. Kernels(g) = Kernels(h)
      BY <1>0, <1>2 DEF Kernels
    <2> QED
      BY <2>1, OneKernel DEF Active, Applied
  <1>4. ASSUME NEW i \in 1 .. n
        PROVE  /\ Here(g, i) = Here(h, i) /\ Here(h, i) \subseteq CorrectionsOf(h)
               /\ i \in InEffect(g) <=> i \in InEffect(h)
    BY <1>1, <1>2, <1>3 DEF Here, InEffect
  <1>5. Here(g, n + 1) = {} /\ n + 1 \in InEffect(g)
    BY <1>1, <1>2, <1>3 DEF Here, InEffect
  <1>6. ASSUME NEW i \in 1 .. n, NEW bodies
        PROVE  IntendedStep(h, bodies, i) = IntendedStep(g, bodies, i)
    <2>1. CASE Here(h, i) = {}
      BY <1>1, <1>4, <2>1 DEF IntendedStep
    <2>2. CASE Here(h, i) # {}
      <3> DEFINE c == CHOOSE c \in Here(h, i) : TRUE
      <3>1. c \in Here(h, i)
        BY <2>2
      <3>2. g[c] = h[c]
        BY <1>2, <1>4, <3>1
      <3> QED
        BY <1>1, <1>4, <3>2 DEF IntendedStep
    <2> QED
      BY <2>1, <2>2
  <1>7. Asked!Upto(h, n)[n] = Asked!Upto(g, n + 1)[n]
    <2>1. Asked!SameSteps(h, n, g, n + 1, n)
      BY <1>1, <1>6 DEF Asked!SameSteps, IntendedFirst
    <2>2. n \in Nat /\ n + 1 \in Nat /\ n \in 0 .. n
      BY <1>1
    <2> QED
      BY <2>1, <2>2, Asked!UptoAgrees
  <1>8. Intended(h) = Asked!Upto(h, n)[n] /\ Intended(g) = IntendedStep(g, Asked!Upto(g, n + 1)[n], n + 1)
    <2>1. n + 1 \in Nat /\ n + 1 \in 1 .. n + 1 /\ (n + 1) - 1 = n
      BY <1>1
    <2> QED
      BY <1>1, <2>1, IntendedUnfolds DEF n
  <1>9. Effective(h) = Intended(h) /\ Effective(g) = Intended(g) /\ Intended(h) \in Seq(Events)
    <2>1. n \in 0 .. n
      BY <1>1
    <2> QED
      BY <1>1, <2>1, EffectiveIsIntended, EffectiveType, EffectiveUnfolds DEF g, n
  <1>10. Intended(g) = Intended(h) \o <<>> \o <<e>>
    BY <1>1, <1>5, <1>7, <1>8 DEF IntendedStep
  <1>11. Intended(h) \o <<>> \o <<e>> = Append(Intended(h), e)
    BY <1>9
  <1> QED
    BY <1>1, <1>9, <1>10, <1>11 DEF g

\* So it is played where the game stands.
LEMMA PlainReplayed ==
    ASSUME NEW h, WellFormed(h), NEW s \in Replay(h), NEW e \in Events, ~IsCorrection(e),
           NEW t \in Replay(Append(h, e))
    PROVE  Accepts(s, e) /\ t = Apply(s, e) /\ Lifecycle(s, t, e) /\ s \in State /\ t \in State
  <1>1. Resolve(h).valid /\ Effective(h) \in Seq(Events) /\ s \in State /\ Reached(Effective(h)) = {s}
    BY ReplayedOne
  <1>2. Resolve(Append(h, e)).valid /\ t \in Reached(Effective(Append(h, e)))
    BY DEF Replay, Reached
  <1>3. t \in Reached(Append(Effective(h), e))
    BY <1>1, <1>2, PlainAppended
  <1>4. Accepts(s, e) /\ t = Apply(s, e)
    BY <1>1, <1>3, ReachedAppend
  <1> QED
    BY <1>1, <1>4, ApplyEffect

-----------------------------------------------------------------------------
(* The history as it was at a revision *)

LEMMA Revision ==
    ASSUME NEW h, WellFormed(h), NEW r \in 0 .. Len(h)
    PROVE  /\ WellFormed(SubSeq(h, 1, r)) /\ Len(SubSeq(h, 1, r)) = r /\ DOMAIN SubSeq(h, 1, r) = 1 .. r
           /\ DOMAIN h = 1 .. Len(h) /\ Len(h) \in Nat
           /\ \A i \in 1 .. r : SubSeq(h, 1, r)[i] = h[i]
           /\ \A k \in 0 .. r : SubSeq(SubSeq(h, 1, r), 1, k) = SubSeq(h, 1, k)
  <1> DEFINE g == SubSeq(h, 1, r)
  <1>1. h \in Seq(Events) /\ Len(h) \in Nat /\ DOMAIN h = 1 .. Len(h)
    BY DEF WellFormed
  <1>2. /\ g \in Seq(Events) /\ Len(g) = r /\ DOMAIN g = 1 .. r
        /\ \A i \in 1 .. r : g[i] = h[i]
    BY <1>1
  <1>3. \A k \in 0 .. r : SubSeq(g, 1, k) = SubSeq(h, 1, k)
    BY <1>1
  <1> HIDE DEF g
  <1>4. WellFormed(g)
    BY <1>1, <1>2 DEF WellFormed, CorrectionsOf
  <1> QED
    BY <1>1, <1>2, <1>3, <1>4 DEF g

LEMMA RevisionGrows ==
    ASSUME NEW h, WellFormed(h), NEW r \in 1 .. Len(h)
    PROVE  SubSeq(h, 1, r) = Append(SubSeq(h, 1, r - 1), h[r])
  BY DEF WellFormed

LEMMA RevisionKept ==
    ASSUME NEW h, WellFormed(h), NEW e \in Events
    PROVE  /\ \A r \in 0 .. Len(h) : SubSeq(Append(h, e), 1, r) = SubSeq(h, 1, r)
           /\ SubSeq(h, 1, Len(h)) = h /\ SubSeq(h, 1, 0) = <<>>
           /\ SubSeq(Append(h, e), 1, Len(h) + 1) = Append(h, e)
  <1>1. h \in Seq(Events) /\ Append(h, e) \in Seq(Events) /\ Len(Append(h, e)) = Len(h) + 1
    BY DEF WellFormed
  <1> QED
    BY <1>1

\* Each revision of a history replays.
Replays(h) == \A r \in 0 .. Len(h) : Replay(SubSeq(h, 1, r)) # {}

LEMMA StoodAt ==
    ASSUME NEW h, WellFormed(h), Replays(h), NEW r \in 0 .. Len(h)
    PROVE  Replay(SubSeq(h, 1, r)) = {At(h, r)} /\ At(h, r) \in State
  <1>1. At(h, r) \in Replay(SubSeq(h, 1, r))
    BY DEF At, Replays
  <1> QED
    BY <1>1, Revision, ReplayedOne

LEMMA StandsAt ==
    ASSUME NEW h, WellFormed(h), NEW s \in Replay(h)
    PROVE  At(h, Len(h)) = s /\ StatusOf(h) = s.status
  <1>1. SubSeq(h, 1, Len(h)) = h
    BY DEF WellFormed
  <1>2. Replay(h) = {s}
    BY ReplayedOne
  <1>3. Replay(SubSeq(h, 1, Len(h))) = {s}
    BY <1>1, <1>2
  <1>4. At(h, Len(h)) \in Replay(SubSeq(h, 1, Len(h)))
    BY <1>3 DEF At
  <1>5. At(h, Len(h)) = s
    BY <1>3, <1>4
  <1> QED
    BY <1>5 DEF StatusOf

-----------------------------------------------------------------------------
(* Drafts *)

\* What the page submits: the reversal of one entry of the list, or another play in the
\* place of one play.
DraftOf(h, e) ==
    \E t \in Listed(h) :
        \/ e = Reversal({t})
        \/ /\ h[t].type \in Replaceable
           /\ \E b \in Admitted : b.type \in Replaceable /\ e = Replacement({t}, <<b>>)
Drafted(h) == \A c \in CorrectionsOf(h) : DraftOf(h, h[c])

\* Where a correction puts what.
PutsInPlace(h, e, t) ==
    /\ t \in Listed(h) /\ e.targets = {t} /\ Earliest(e.targets) = t
    /\ \/ e.with = <<>>
       \/ /\ h[t].type \in Replaceable
          /\ \E b \in Admitted : b.type \in Replaceable /\ e.with = <<b>>

LEMMA DraftIs ==
    ASSUME NEW h, WellFormed(h), NEW e, DraftOf(h, e)
    PROVE  /\ e \in Corrections /\ e \in Events /\ IsCorrection(e) /\ e.targets \subseteq DOMAIN h
           /\ \E t \in Listed(h) : PutsInPlace(h, e, t)
  <1>1. PICK t \in Listed(h) :
           \/ e = Reversal({t})
           \/ /\ h[t].type \in Replaceable
              /\ \E b \in Admitted : b.type \in Replaceable /\ e = Replacement({t}, <<b>>)
    BY DEF DraftOf
  <1>2. t \in DOMAIN h /\ t \in Nat
    BY DEF Listed, WellFormed
  <1>3. Earliest({t}) = t
    BY <1>2, EarliestIsTarget
  <1>4. CASE e = Reversal({t})
    <2>1. <<>> \in Seq(Admitted)
      OBVIOUS
    <2> QED
      BY <1>2, <1>3, <1>4, <2>1 DEF Reversal, Corrections, Events, IsCorrection, PutsInPlace
  <1>5. ASSUME NEW b \in Admitted, b.type \in Replaceable, e = Replacement({t}, <<b>>),
               h[t].type \in Replaceable
        PROVE  /\ e \in Corrections /\ e \in Events /\ IsCorrection(e) /\ e.targets \subseteq DOMAIN h
               /\ PutsInPlace(h, e, t)
    <2>1. <<b>> \in Seq(Admitted)
      OBVIOUS
    <2>2. /\ e.type = "CorrectionApplied" /\ e.targets = {t} /\ e.with = <<b>>
          /\ e \in Corrections
      BY <1>2, <1>5, <2>1 DEF Replacement, Corrections
    <2> QED
      BY <1>2, <1>3, <1>5, <2>2 DEF Events, IsCorrection, PutsInPlace
  <1> QED
    BY <1>1, <1>4, <1>5

\* A draft of a revision stays one.
LEMMA DraftKept ==
    ASSUME NEW h, WellFormed(h), NEW g, WellFormed(g), Len(h) <= Len(g),
           \A i \in 1 .. Len(h) : g[i] = h[i], NEW e, DraftOf(h, e)
    PROVE  DraftOf(g, e)
  <1>1. \A t \in Listed(h) : t \in Listed(g) /\ g[t] = h[t]
    <2>1. DOMAIN h = 1 .. Len(h) /\ DOMAIN g = 1 .. Len(g) /\ Len(g) \in Nat /\ Len(h) \in Nat
      BY FromUnfolds
    <2> QED
      BY <2>1 DEF Listed, IsCorrection
  <1> QED
    BY <1>1 DEF DraftOf

\* Of the corrections, at most one names an entry, and it is the one in effect.
LEMMA NamingIs ==
    ASSUME NEW h, WellFormed(h), Resolve(h).valid, NEW i \in DOMAIN h
    PROVE  /\ Naming(h, i) = {c \in Active(h) : i \in h[c].targets}
           /\ \A c \in Naming(h, i) : Naming(h, i) = {c} /\ Latest(Naming(h, i)) = c
           /\ i \in InEffect(h) <=> Naming(h, i) = {}
           /\ Status(h, i) = "SUPERSEDED" <=> Naming(h, i) # {}
  <1>1. Active(h) = Applied(h) /\ InEffect(h) = DOMAIN h \ Resolve(h).suppressed
    BY OneKernel
  <1>2. CorrectionsInForce(h) = Active(h)
    <2>1. ASSUME NEW c \in CorrectionsOf(h) PROVE c \in Current(h) <=> c \in Active(h)
      <3>1. c \in DOMAIN h
        BY DEF CorrectionsOf
      <3>2. Active(h) \in Kernels(h)
        BY <1>1, OneKernel
      <3>3. c \in Active(h) <=> ~ \E d \in Active(h) : c \in h[d].targets
        BY <3>2 DEF Kernels
      <3> QED
        BY <1>1, <3>1, <3>3 DEF Current, InEffect
    <2> QED
      BY <1>1, <2>1 DEF CorrectionsInForce, CorrectionsEver, Applied
  <1>3. Naming(h, i) = {c \in Active(h) : i \in h[c].targets}
    BY <1>2 DEF Naming
  <1>4. ASSUME NEW c \in Naming(h, i) PROVE Naming(h, i) = {c} /\ Latest(Naming(h, i)) = c
    <2>1. Naming(h, i) = {c}
      BY <1>1, <1>3, <1>4, AppliedApart
    <2>2. c \in Nat
      BY <1>1, <1>3, <1>4, CorrectionAt DEF Applied
    <2> QED
      BY <2>1, <2>2 DEF Latest
  <1>5. i \in InEffect(h) <=> Naming(h, i) = {}
    BY <1>3 DEF InEffect
  <1>6. Status(h, i) = "SUPERSEDED" <=> Naming(h, i) # {}
    BY <1>1, <1>5 DEF Status, Current
  <1> QED
    BY <1>3, <1>4, <1>5, <1>6

\* What is asked for at a place of the history.
LEMMA AskedHereIs ==
    ASSUME NEW h, WellFormed(h), Resolve(h).valid, Drafted(h), NEW i \in DOMAIN h,
           NEW bodies \in Seq(Events)
    PROVE  IntendedStep(h, bodies, i) =
             IF IsCorrection(h[i]) \/ h[i].type \notin Correctable
             THEN IF Naming(h, i) = {} THEN Append(bodies, h[i]) ELSE bodies
             ELSE IF CorrectedTo(h, i) = <<>> THEN bodies ELSE Append(bodies, CorrectedTo(h, i)[1])
  <1>1. /\ h[i] \in Events /\ Active(h) = Applied(h) /\ Active(h) \subseteq CorrectionsOf(h)
        /\ Naming(h, i) = {c \in Active(h) : i \in h[c].targets}
        /\ i \in InEffect(h) <=> Naming(h, i) = {}
    BY OneKernel, NamingIs DEF WellFormed, Applied
  <1>2. ASSUME NEW c \in Active(h)
        PROVE  \E t \in Listed(h) : PutsInPlace(h, h[c], t)
    BY <1>1, DraftIs DEF Drafted
  <1>3. Here(h, i) = {c \in Naming(h, i) : h[c].with # <<>>}
    BY <1>1, <1>2 DEF Here, PutsInPlace
  <1>4. bodies \o <<>> \o <<>> = bodies /\ bodies \o <<>> \o <<h[i]>> = Append(bodies, h[i])
    BY <1>1
  <1>5. CASE Naming(h, i) = {}
    <2>1. IntendedStep(h, bodies, i) = Append(bodies, h[i])
      BY <1>1, <1>3, <1>4, <1>5 DEF IntendedStep
    <2>2. CorrectedTo(h, i) = <<h[i]>> /\ <<h[i]>> # <<>> /\ <<h[i]>>[1] = h[i]
      BY <1>5 DEF CorrectedTo
    <2> QED
      BY <1>5, <2>1, <2>2
  <1>6. ASSUME NEW c \in Naming(h, i)
        PROVE  IntendedStep(h, bodies, i) =
                 IF IsCorrection(h[i]) \/ h[i].type \notin Correctable
                 THEN IF Naming(h, i) = {} THEN Append(bodies, h[i]) ELSE bodies
                 ELSE IF CorrectedTo(h, i) = <<>> THEN bodies
                      ELSE Append(bodies, CorrectedTo(h, i)[1])
    <2>1. Naming(h, i) = {c} /\ Latest(Naming(h, i)) = c /\ c \in Active(h) /\ i \in h[c].targets
      BY <1>1, NamingIs
    <2>2. PutsInPlace(h, h[c], i)
      BY <1>2, <2>1 DEF PutsInPlace
    <2>3. CorrectedTo(h, i) = h[c].with
      BY <2>1 DEF CorrectedTo
    <2>4. CASE h[c].with = <<>>
      <3>1. Here(h, i) = {}
        BY <1>3, <2>1, <2>4
      <3>2. IntendedStep(h, bodies, i) = bodies
        BY <1>1, <1>4, <2>1, <3>1 DEF IntendedStep
      <3> QED
        BY <2>1, <2>3, <2>4, <3>2
    <2>5. ASSUME NEW b \in Admitted, b.type \in Replaceable, h[c].with = <<b>>, h[i].type \in Replaceable
          PROVE  IntendedStep(h, bodies, i) =
                   IF IsCorrection(h[i]) \/ h[i].type \notin Correctable
                   THEN IF Naming(h, i) = {} THEN Append(bodies, h[i]) ELSE bodies
                   ELSE IF CorrectedTo(h, i) = <<>> THEN bodies
                        ELSE Append(bodies, CorrectedTo(h, i)[1])
      <3>1. <<b>> # <<>> /\ <<b>>[1] = b /\ b \in Events /\ bodies \o <<b>> \o <<>> = Append(bodies, b)
        BY DEF Events
      <3>2. Here(h, i) = {c}
        BY <1>3, <2>1, <2>5, <3>1
      <3>3. (CHOOSE d \in Here(h, i) : TRUE) = c
        BY <3>2
      <3>4. IntendedStep(h, bodies, i) = Append(bodies, b)
        BY <1>1, <2>1, <2>5, <3>1, <3>2, <3>3 DEF IntendedStep
      <3>5. ~IsCorrection(h[i]) /\ h[i].type \in Correctable
        BY <2>5 DEF IsCorrection, Replaceable, Correctable
      <3> QED
        BY <2>3, <2>5, <3>1, <3>4, <3>5
    <2> QED
      BY <2>2, <2>4, <2>5 DEF PutsInPlace
  <1> QED
    BY <1>5, <1>6

-----------------------------------------------------------------------------
(* The list reads as the game was played *)

AmongFirst(q) == <<>>
AmongStep(q, plays, i) == IF q[i].type \in Correctable THEN Append(plays, q[i]) ELSE plays
Among == INSTANCE Recursion WITH First <- AmongFirst, Step <- AmongStep

LEMMA AmongUnfolds ==
    ASSUME NEW q, Len(q) \in Nat
    PROVE  /\ PlaysAmong(q) = Among!Upto(q, Len(q))[Len(q)]
           /\ Among!Upto(q, Len(q))[0] = <<>>
           /\ \A i \in 1 .. Len(q) :
                 Among!Upto(q, Len(q))[i] = AmongStep(q, Among!Upto(q, Len(q))[i - 1], i)
  <1>1. PlaysAmong(q) = Among!Upto(q, Len(q))[Len(q)]
    BY DEF PlaysAmong, Among!Upto, AmongFirst, AmongStep
  <1> QED
    BY <1>1, Among!UptoUnfolds DEF AmongFirst

LEMMA PlaysAmongAppend ==
    ASSUME NEW q \in Seq(Events), NEW b \in Events
    PROVE  PlaysAmong(Append(q, b)) =
             IF b.type \in Correctable THEN Append(PlaysAmong(q), b) ELSE PlaysAmong(q)
  <1> DEFINE longer == Append(q, b)
             n == Len(q)
             l == Len(longer)
  <1>1. /\ n \in Nat /\ l \in 1 .. l /\ l \in Nat /\ n <= l /\ l - 1 = n /\ longer[l] = b
        /\ \A i \in 1 .. n : longer[i] = q[i]
    OBVIOUS
  <1>2. /\ PlaysAmong(q) = Among!Upto(q, n)[n]
        /\ PlaysAmong(longer) = Among!Upto(longer, l)[l]
    BY <1>1, AmongUnfolds
  <1>3. Among!Upto(longer, l)[l] = AmongStep(longer, Among!Upto(longer, l)[n], l)
    BY <1>1, AmongUnfolds
  <1> HIDE DEF longer, n, l
  <1>4. Among!Upto(q, n)[n] = Among!Upto(longer, l)[n]
    <2>1. Among!SameSteps(q, n, longer, l, n)
      <3>1. \A i \in 1 .. n : AmongStep(q, Among!Upto(q, n)[i - 1], i)
                               = AmongStep(longer, Among!Upto(q, n)[i - 1], i)
        BY <1>1 DEF AmongStep
      <3> QED
        BY <1>1, <3>1 DEF Among!SameSteps, AmongFirst
    <2>2. n \in Nat /\ l \in Nat /\ n \in 0 .. n
      BY <1>1
    <2> QED
      BY <2>1, <2>2, Among!UptoAgrees
  <1> QED
    BY <1>1, <1>2, <1>3, <1>4 DEF longer, AmongStep

LEMMA PlaysAmongNothing == PlaysAmong(<<>>) = <<>>
  <1>1. Len(<<>>) = 0
    OBVIOUS
  <1> QED
    BY <1>1, AmongUnfolds

OriginalsOf(h) == {i \in Listed(h) : ~IsCorrection(h[i])}
ListFirst(h) == <<>>
ListStep(h, read, i) == IF i \in OriginalsOf(h) THEN read \o CorrectedTo(h, i) ELSE read
List == INSTANCE Recursion WITH First <- ListFirst, Step <- ListStep

LEMMA ListUnfolds ==
    ASSUME NEW h, Len(h) \in Nat
    PROVE  /\ List!Upto(h, Len(h))[0] = <<>>
           /\ \A i \in 1 .. Len(h) :
                 List!Upto(h, Len(h))[i] = ListStep(h, List!Upto(h, Len(h))[i - 1], i)
  BY List!UptoUnfolds DEF ListFirst

\* Read up to any entry, the list shows the plays among what is asked for up to there.
LEMMA ListReads ==
    ASSUME NEW h, WellFormed(h), Resolve(h).valid, Drafted(h)
    PROVE  List!Upto(h, Len(h))[Len(h)] = PlaysAmong(Intended(h))
  <1> DEFINE n == Len(h)
             asked(i) == Asked!Upto(h, n)[i]
             read(i)  == List!Upto(h, n)[i]
             S == {i \in 0 .. n : /\ asked(i) \in Seq(Events) /\ read(i) = PlaysAmong(asked(i))
                                  /\ read(i) \in Seq(Events)}
  <1>1. n \in Nat /\ DOMAIN h = 1 .. n
    BY FromUnfolds
  <1>2. /\ asked(0) = <<>> /\ read(0) = <<>> /\ Intended(h) = asked(n)
        /\ \A i \in 1 .. n : /\ asked(i) = IntendedStep(h, asked(i - 1), i)
                             /\ read(i) = ListStep(h, read(i - 1), i)
    BY <1>1, IntendedUnfolds, ListUnfolds
  <1> HIDE DEF n, asked, read
  <1>3. 0 \in S
    <2>1. <<>> \in Seq(Events) /\ 0 \in 0 .. n
      BY <1>1
    <2> QED
      BY <1>2, <2>1, PlaysAmongNothing
  <1>4. ASSUME NEW i \in 1 .. n, i - 1 \in S PROVE i \in S
    <2> DEFINE before == asked(i - 1)
               shown  == read(i - 1)
    <2>1. /\ before \in Seq(Events) /\ shown = PlaysAmong(before) /\ shown \in Seq(Events)
          /\ i \in 0 .. n /\ i \in DOMAIN h /\ h[i] \in Events
          /\ asked(i) = IntendedStep(h, before, i) /\ read(i) = ListStep(h, shown, i)
      BY <1>1, <1>2, <1>4 DEF WellFormed
    <2> HIDE DEF before, shown
    <2>2. i \in OriginalsOf(h) <=> h[i].type \in Correctable
      BY <2>1 DEF OriginalsOf, Listed, IsCorrection, Correctable, Replaceable
    <2>3. CASE h[i].type \notin Correctable
      <3>1. read(i) = shown
        BY <2>1, <2>2, <2>3 DEF ListStep
      <3>2. asked(i) = before \/ asked(i) = Append(before, h[i])
        BY <2>1, <2>3, AskedHereIs
      <3>3. PlaysAmong(Append(before, h[i])) = shown /\ Append(before, h[i]) \in Seq(Events)
        BY <2>1, <2>3, PlaysAmongAppend
      <3> QED
        BY <2>1, <3>1, <3>2, <3>3
    <2>4. CASE h[i].type \in Correctable
      <3> DEFINE to == CorrectedTo(h, i)
      <3>1. ~IsCorrection(h[i])
        BY <2>4 DEF IsCorrection, Correctable, Replaceable
      <3>2. read(i) = shown \o to
        BY <2>1, <2>2, <2>4 DEF ListStep
      <3>3. asked(i) = IF to = <<>> THEN before ELSE Append(before, to[1])
        BY <2>1, <2>4, <3>1, AskedHereIs
      <3>4. to = <<>> \/ \E b \in Events : to = <<b>> /\ b.type \in Correctable
        <4>1. CASE Naming(h, i) = {}
          BY <2>1, <2>4, <4>1 DEF CorrectedTo
        <4>2. ASSUME NEW c \in Naming(h, i)
              PROVE  to = <<>> \/ \E b \in Events : to = <<b>> /\ b.type \in Correctable
          <5>1. to = h[c].with /\ c \in CorrectionsOf(h)
            BY <2>1, NamingIs, OneKernel DEF CorrectedTo, Applied
          <5>2. PICK t \in Listed(h) : PutsInPlace(h, h[c], t)
            BY <5>1, DraftIs DEF Drafted
          <5> QED
            BY <5>1, <5>2 DEF PutsInPlace, Correctable, Events
        <4> QED
          BY <4>1, <4>2
      <3> HIDE DEF to
      <3>5. CASE to = <<>>
        BY <2>1, <3>2, <3>3, <3>5
      <3>6. ASSUME NEW b \in Events, to = <<b>>, b.type \in Correctable PROVE i \in S
        <4>1. asked(i) = Append(before, b) /\ read(i) = Append(shown, b)
          BY <2>1, <3>2, <3>3, <3>6
        <4>2. PlaysAmong(Append(before, b)) = Append(shown, b)
          BY <2>1, <3>6, PlaysAmongAppend
        <4>3. Append(before, b) \in Seq(Events) /\ Append(shown, b) \in Seq(Events)
          BY <2>1
        <4> QED
          BY <2>1, <4>1, <4>2, <4>3
      <3> QED
        BY <3>4, <3>5, <3>6
    <2> QED
      BY <2>3, <2>4
  <1> HIDE DEF S
  <1>5. 0 .. n \subseteq S
    BY <1>1, <1>3, <1>4, List!InductionUpto
  <1>6. n \in S
    BY <1>1, <1>5
  <1> QED
    BY <1>2, <1>6 DEF S, read, n

-----------------------------------------------------------------------------
(* The effects add up *)

TotalFirst(h) == [side \in Sides |-> 0]
TotalStep(h, total, i) ==
    IF i \notin Listed(h) THEN total
    ELSE [side \in Sides |-> total[side] + [j \in Listed(h) |-> ScoreEffect(h, j)][i][side]]
Total == INSTANCE Recursion WITH First <- TotalFirst, Step <- TotalStep

\* What is not in the list does not score.
LEMMA UnlistedScoresNothing ==
    ASSUME NEW s \in State, NEW t \in State, NEW e \in Events, Lifecycle(s, t, e),
           e.type \notin Correctable, ~IsCorrection(e)
    PROVE  t.score = s.score
  BY DEF Lifecycle, State, StartGame, Correctable, Replaceable, IsCorrection

LEMMA TotalIs ==
    ASSUME NEW h, WellFormed(h), Replays(h)
    PROVE  Total!Upto(h, Len(h))[Len(h)] = At(h, Len(h)).score
  <1> DEFINE n == Len(h)
             total(i) == Total!Upto(h, n)[i]
             S == {i \in 0 .. n : total(i) = At(h, i).score}
  <1>1. n \in Nat /\ DOMAIN h = 1 .. n
    BY FromUnfolds
  <1>2. /\ total(0) = [side \in Sides |-> 0]
        /\ \A i \in 1 .. n : total(i) = TotalStep(h, total(i - 1), i)
    BY <1>1, Total!UptoUnfolds DEF TotalFirst
  <1>3. \A i \in 0 .. n : At(h, i) \in State /\ Replay(SubSeq(h, 1, i)) = {At(h, i)}
    BY StoodAt
  <1> HIDE DEF n, total
  <1>4. 0 \in S
    <2>1. SubSeq(h, 1, 0) = <<>> /\ 0 \in 0 .. n
      BY <1>1 DEF WellFormed
    <2>2. Replay(<<>>) = {At(h, 0)} /\ WellFormed(<<>>)
      BY <1>1, <1>3, <2>1, Revision DEF n
    <2>3. Replay(<<>>) = {InitialState(TheSetup)}
      BY <2>2, EmptyHistory, ReachedEmpty DEF Replay, Untouched, Reached
    <2>4. At(h, 0) = InitialState(TheSetup)
      BY <2>2, <2>3
    <2> QED
      BY <1>2, <2>1, <2>4 DEF InitialState
  <1>5. ASSUME NEW i \in 1 .. n, i - 1 \in S PROVE i \in S
    <2> DEFINE s == At(h, i - 1)
               t == At(h, i)
    <2>1. i \in 0 .. n /\ i - 1 \in 0 .. n /\ i \in DOMAIN h /\ h[i] \in Events
      BY <1>1 DEF WellFormed
    <2>2. /\ s \in State /\ t \in State /\ total(i - 1) = s.score
          /\ s \in Replay(SubSeq(h, 1, i - 1)) /\ t \in Replay(SubSeq(h, 1, i))
      <3>1. total(i - 1) = s.score
        BY <1>5
      <3>2. s \in State /\ Replay(SubSeq(h, 1, i - 1)) = {s}
        BY <1>3, <2>1
      <3>3. t \in State /\ Replay(SubSeq(h, 1, i)) = {t}
        BY <1>3, <2>1
      <3> HIDE DEF s, t
      <3> QED
        BY <3>1, <3>2, <3>3
    <2>3. s.score \in [Sides -> Nat] /\ t.score \in [Sides -> Nat]
      BY <2>2 DEF State, Tallies
    <2>4. CASE i \in Listed(h)
      <3>1. total(i) = [side \in Sides |-> s.score[side] + (t.score[side] - s.score[side])]
        BY <1>2, <2>2, <2>4 DEF TotalStep, ScoreEffect
      <3> HIDE DEF s, t
      <3>2. total(i) = t.score
        BY <2>3, <3>1
      <3> QED
        BY <2>1, <3>2 DEF t
    <2>5. CASE i \notin Listed(h)
      <3>1. h[i].type \notin Correctable /\ ~IsCorrection(h[i])
        BY <2>1, <2>5 DEF Listed
      <3>2. WellFormed(SubSeq(h, 1, i - 1)) /\ SubSeq(h, 1, i) = Append(SubSeq(h, 1, i - 1), h[i])
        BY <2>1, Revision, RevisionGrows DEF n
      <3> HIDE DEF s, t
      <3>3. Lifecycle(s, t, h[i])
        BY <2>1, <2>2, <3>1, <3>2, PlainReplayed
      <3>4. t.score = s.score
        BY <2>1, <2>2, <3>1, <3>3, UnlistedScoresNothing
      <3>5. total(i) = total(i - 1)
        BY <1>2, <2>5 DEF TotalStep
      <3> QED
        BY <2>1, <2>2, <3>4, <3>5 DEF t
    <2> QED
      BY <2>4, <2>5
  <1> HIDE DEF S
  <1>6. 0 .. n \subseteq S
    BY <1>1, <1>4, <1>5, Total!InductionUpto
  <1>7. n \in S
    BY <1>1, <1>6
  <1> QED
    BY <1>7 DEF S, total, n

-----------------------------------------------------------------------------
(* What was verified *)

\* The page never takes anything back but plays, changes of the lineup and corrections, so
\* a verification stays in effect.
LEMMA VerificationStands ==
    ASSUME NEW h, WellFormed(h), Resolve(h).valid, Drafted(h),
           NEW k \in DOMAIN h, h[k].type = "GameVerified"
    PROVE  \E j \in DOMAIN Effective(h) : Effective(h)[j].type = "GameVerified"
  <1> DEFINE n == Len(h)
             left(i) == Left!Upto(h, n)[i]
             Holds(i) == i >= k => \E j \in DOMAIN left(i) : left(i)[j].type = "GameVerified"
             S == {i \in 0 .. n : Holds(i)}
  <1>1. n \in Nat /\ DOMAIN h = 1 .. n /\ k \in 1 .. n /\ h[k] \in Events
        /\ Resolve(h) \in Resolution(h)
    <2>1. n \in Nat /\ DOMAIN h = 1 .. n /\ Resolve(h) = From(h, 1)
      BY FromUnfolds
    <2>2. Resolve(h) \in Resolution(h)
      BY <2>1, FromType
    <2> QED
      BY <2>1, <2>2 DEF WellFormed
  <1>2. k \notin Resolve(h).suppressed
    <2>1. ASSUME NEW c \in CorrectionsOf(h) PROVE k \notin h[c].targets
      <3>1. PICK t \in Listed(h) : PutsInPlace(h, h[c], t)
        BY DraftIs DEF Drafted
      <3>2. h[t].type # "GameVerified"
        BY DEF Listed, Correctable, Replaceable, IsCorrection
      <3> QED
        BY <3>1, <3>2 DEF PutsInPlace
    <2>2. Active(h) \subseteq CorrectionsOf(h) /\ InEffect(h) = DOMAIN h \ Resolve(h).suppressed
      BY OneKernel DEF Applied
    <2> QED
      BY <2>1, <2>2 DEF InEffect
  <1>3. \A i \in 0 .. n : left(i) \in Seq(Events)
    BY EffectiveType
  <1>4. /\ Effective(h) = left(n)
        /\ \A i \in 1 .. n : left(i) = EffectiveStep(h, left(i - 1), i)
    BY <1>1, EffectiveUnfolds
  <1> HIDE DEF n, left
  <1>5. 0 \in S
    BY <1>1
  <1>6. ASSUME NEW i \in 1 .. n, i - 1 \in S PROVE i \in S
    <2> DEFINE before == left(i - 1)
               place  == Resolve(h).inserted[i]
               own    == IF i \in Resolve(h).suppressed THEN <<>> ELSE <<h[i]>>
    <2>1. /\ i - 1 \in 0 .. n /\ i \in 0 .. n /\ i \in DOMAIN h /\ h[i] \in Events
          /\ left(i) = before \o place \o own
      <3>1. i - 1 \in 0 .. n /\ i \in 0 .. n /\ i \in DOMAIN h /\ h[i] \in Events
        BY <1>1 DEF WellFormed
      <3>2. left(i) = EffectiveStep(h, before, i)
        BY <1>4
      <3> QED
        BY <3>1, <3>2 DEF EffectiveStep
    <2>2. before \in Seq(Events) /\ own \in Seq(Events) /\ place \in Seq(Events)
      <3>1. place \in Seq(Admitted)
        BY <1>1, <2>1 DEF Resolution
      <3>2. place \in Seq(Events)
        BY <3>1 DEF Events
      <3> QED
        BY <1>3, <2>1, <3>2
    <2>3. i = k => own = <<h[k]>>
      BY <1>2
    <2>4. i - 1 >= k => \E j \in DOMAIN before : before[j].type = "GameVerified"
      BY <1>6
    <2> HIDE DEF before, place, own
    <2>5. CASE i = k
      <3>1. /\ Len(before \o place \o <<h[k]>>) \in DOMAIN (before \o place \o <<h[k]>>)
            /\ (before \o place \o <<h[k]>>)[Len(before \o place \o <<h[k]>>)] = h[k]
        BY <1>1, <2>2
      <3> QED
        BY <2>1, <2>3, <2>5, <3>1
    <2>6. CASE i - 1 >= k
      <3>1. PICK j \in DOMAIN before : before[j].type = "GameVerified"
        BY <2>4, <2>6
      <3>2. j \in DOMAIN (before \o place \o own) /\ (before \o place \o own)[j] = before[j]
        BY <2>2
      <3> QED
        BY <2>1, <3>1, <3>2
    <2>7. CASE i < k
      BY <1>1, <2>1, <2>7
    <2> QED
      BY <1>1, <2>5, <2>6, <2>7
  <1> HIDE DEF S
  <1>7. 0 .. n \subseteq S
    BY <1>1, <1>5, <1>6, Left!InductionUpto
  <1>8. n \in S
    BY <1>1, <1>7
  <1> QED
    BY <1>1, <1>4, <1>8 DEF S

\* What a game is after it was verified.
Final == {"VERIFIED", "CORRECTED", "ABANDONED"}
LEMMA VerifiedIsFinal ==
    ASSUME NEW q \in Seq(Events), NEW s \in Reached(q),
           NEW k \in DOMAIN q, q[k].type = "GameVerified"
    PROVE  s.status \in Final
  <1> DEFINE n == Len(q)
             at(i) == Reach!Upto(q, n)[i]
             Holds(i) == \A t \in at(i) : t \in State /\ (i >= k => t.status \in Final)
             S == {i \in 0 .. n : Holds(i)}
  <1>1. n \in Nat /\ k \in 1 .. n /\ \A i \in 1 .. n : q[i] \in Events
    OBVIOUS
  <1>2. /\ Reached(q) = at(n) /\ at(0) = {InitialState(TheSetup)}
        /\ \A i \in 1 .. n : at(i) = ReachStep(q, at(i - 1), i)
    BY <1>1, ReachedUnfolds
  <1> HIDE DEF n, at
  <1>3. 0 \in S
    BY <1>1, <1>2, StartType
  <1>4. ASSUME NEW i \in 1 .. n, i - 1 \in S PROVE i \in S
    <2>1. \A u \in at(i - 1) : u \in State /\ (i - 1 >= k => u.status \in Final)
      BY <1>4
    <2>2. ASSUME NEW t \in at(i) PROVE t \in State /\ (i >= k => t.status \in Final)
      <3>1. PICK u \in at(i - 1) : Accepts(u, q[i]) /\ t = Apply(u, q[i])
        BY <1>2, <2>2 DEF ReachStep
      <3>2. u \in State /\ q[i] \in Events
        BY <1>1, <2>1
      <3>3. t \in State /\ Lifecycle(u, t, q[i])
        BY <3>1, <3>2, ApplyEffect
      <3>4. CASE i = k
        BY <3>2, <3>3, <3>4 DEF Lifecycle, Final, State
      <3>5. CASE i - 1 >= k
        <4>1. u.status \in Final
          BY <2>1, <3>5
        <4> QED
          BY <3>2, <3>3, <4>1 DEF Lifecycle, Final, State
      <3>6. i = k \/ i - 1 >= k \/ ~(i >= k)
        BY <1>1
      <3> QED
        BY <3>3, <3>4, <3>5, <3>6
    <2> QED
      BY <1>1, <2>2
  <1> HIDE DEF S
  <1>5. 0 .. n \subseteq S
    BY <1>1, <1>3, <1>4, Reach!InductionUpto
  <1>6. n \in S
    BY <1>1, <1>5
  <1> QED
    BY <1>1, <1>2, <1>6 DEF S

\* A draft of a revision is one of the whole history.
LEMMA DraftsOfRevisions ==
    ASSUME NEW h, WellFormed(h), Drafted(h), NEW r \in 0 .. Len(h)
    PROVE  Drafted(SubSeq(h, 1, r))
  <1> DEFINE g == SubSeq(h, 1, r)
  <1>1. /\ WellFormed(g) /\ Len(g) = r /\ DOMAIN g = 1 .. r /\ DOMAIN h = 1 .. Len(h) /\ Len(h) \in Nat
        /\ \A i \in 1 .. r : g[i] = h[i]
    BY Revision
  <1> HIDE DEF g
  <1>2. ASSUME NEW c \in CorrectionsOf(g) PROVE DraftOf(g, g[c])
    <2>1. c \in 1 .. r /\ c \in CorrectionsOf(h) /\ g[c] = h[c] /\ h[c].targets \subseteq 1 .. c - 1
      BY <1>1, CorrectionAt DEF CorrectionsOf
    <2>2. PICK t \in Listed(h) :
             \/ h[c] = Reversal({t})
             \/ /\ h[t].type \in Replaceable
                /\ \E b \in Admitted : b.type \in Replaceable /\ h[c] = Replacement({t}, <<b>>)
      BY <2>1 DEF Drafted, DraftOf
    <2>3. t \in h[c].targets
      <3>1. Reversal({t}).targets = {t} /\ \A b : Replacement({t}, <<b>>).targets = {t}
        BY DEF Reversal, Replacement
      <3> QED
        BY <2>2, <3>1
    <2>4. t \in Listed(g) /\ g[t] = h[t]
      BY <1>1, <2>1, <2>3 DEF Listed, IsCorrection
    <2> QED
      BY <2>1, <2>2, <2>4 DEF DraftOf
  <1> QED
    BY <1>2 DEF Drafted, g

\* The audit of a correction says what its preview said, if the game could be corrected
\* when the preview was made.
OpenToCorrections == {"IN_PROGRESS", "COMPLETED", "CORRECTED"}
LEMMA AuditIs ==
    ASSUME NEW h, WellFormed(h), Drafted(h), Replays(h), NEW i \in DOMAIN h,
           StatusOf(SubSeq(h, 1, i - 1)) \in OpenToCorrections
    PROVE  AuditEffect(h, i) = "UNCHANGED" <=> PreviewEffect(SubSeq(h, 1, i - 1)) = "UNCHANGED"
  <1> DEFINE g == SubSeq(h, 1, i - 1)
  <1>1. i - 1 \in 0 .. Len(h)
    BY FromUnfolds
  <1>2. Replay(g) = {At(h, i - 1)} /\ WellFormed(g) /\ Drafted(g)
    BY <1>1, StoodAt, Revision, DraftsOfRevisions
  <1>3. StatusOf(g) = At(h, i - 1).status
    <2> HIDE DEF g
    <2> QED
      BY <1>2, StandsAt
  <1>4. ASSUME NEW k \in DOMAIN g, g[k].type = "GameVerified"
        PROVE  At(h, i - 1).status \in Final
    <2> HIDE DEF g
    <2>1. /\ Resolve(g).valid /\ Effective(g) \in Seq(Events)
          /\ At(h, i - 1) \in Reached(Effective(g))
      BY <1>2, ReplayedOne
    <2>2. PICK j \in DOMAIN Effective(g) : Effective(g)[j].type = "GameVerified"
      BY <1>2, <1>4, <2>1, VerificationStands
    <2> QED
      BY <2>1, <2>2, VerifiedIsFinal
  <1>5. PreviewEffect(g) = "UNCHANGED" <=> At(h, i - 1).status = "IN_PROGRESS"
    BY <1>3 DEF PreviewEffect
  <1>6. AuditEffect(h, i) = "UNCHANGED" <=>
          /\ ~ \E k \in DOMAIN g : g[k].type = "GameVerified"
          /\ At(h, i - 1).status \notin {"COMPLETED", "CORRECTED"}
    BY DEF AuditEffect
  <1>7. StatusOf(g) \in OpenToCorrections
    OBVIOUS
  <1> HIDE DEF g
  <1>8. AuditEffect(h, i) = "UNCHANGED" <=> PreviewEffect(g) = "UNCHANGED"
    BY <1>3, <1>4, <1>5, <1>6, <1>7 DEF Final, OpenToCorrections
  <1> QED
    BY <1>8 DEF g

-----------------------------------------------------------------------------
(* The invariant of the review page *)

Reopening == [type |-> "GameReopened"]
Answers   == {"SENT", "EXAMINED", "CONFLICT", "REFUSED", "STALE", "RECORDED", "SUCCESS"}
Accepted  == {"RECORDED", "SUCCESS", "STALE"}
Requests  == [by : Pages \cup {None}, key : Nat, body : Events, revision : Nat, reviewed : Nat,
              answer : Answers]
Previews  == [revision : Nat, body : Corrections] \cup {NoPreview}
PageRecords == [revision : Nat, at : Int, keys : Nat, preview : Previews]
PageMaps  == [Pages -> PageRecords]

\* A draft that was calculated for a revision at which the game could be corrected.
Reviewed(h, r, e) ==
    /\ r \in 0 .. Len(h) /\ DraftOf(SubSeq(h, 1, r), e)
    /\ StatusOf(SubSeq(h, 1, r)) \in OpenToCorrections

PageTypes   == /\ page \in PageMaps /\ request \in Seq(Requests)
               /\ origin \in Seq(Nat) /\ Len(origin) = Len(history)
PreviewsInv == \A p \in Pages :
                  \/ page[p].preview = NoPreview
                  \/ Reviewed(history, page[p].preview.revision, page[p].preview.body)
RequestsInv == \A n \in DOMAIN request :
                  \/ request[n].body = Reopening
                  \/ Reviewed(history, request[n].reviewed, request[n].body)
\* What came with a request is what it asked for, and its answer does not deny it.
OriginsInv  == \A i \in DOMAIN origin : origin[i] # 0 =>
                  /\ origin[i] \in DOMAIN request /\ history[i] = request[origin[i]].body
                  /\ request[origin[i]].answer \in Accepted
AnswersInv  == \A n \in DOMAIN request : request[n].answer \in {"SUCCESS", "RECORDED"} =>
                  \E i \in Prior(n) : history[i] = request[n].body
ReviewInv   == /\ PageTypes /\ PreviewsInv /\ RequestsInv /\ OriginsInv /\ AnswersInv
               /\ Drafted(history) /\ Replays(history)
PanelInv    == IInv /\ (part = "review" => ReviewInv)

-----------------------------------------------------------------------------
(* Pages and requests *)

LEMMA PagesAreNumbers ==
    ASSUME NEW h, WellFormed(h)
    PROVE  PagesOf(h) \subseteq Int /\ LastPage(h) \in Int
  <1>1. Cardinality(Listed(h)) \in Nat
    <2>1. DOMAIN h = 1 .. Len(h) /\ Len(h) \in Nat
      BY FromUnfolds
    <2>2. IsFiniteSet(1 .. Len(h))
      BY <2>1, FS_Interval
    <2> QED
      BY <2>1, <2>2, FS_Subset, FS_CardinalityType DEF Listed
  <1>2. PageCount(h) \in Int
    BY <1>1, PanelAssumption DEF PageCount
  <1> QED
    BY <1>2 DEF PagesOf, LastPage

LEMMA RenderedIs ==
    ASSUME NEW r \in Nat, NEW at \in Int, NEW preview \in Previews
    PROVE  Rendered(r, at, preview) \in PageRecords /\ Rendered(r, at, preview).preview = preview
  BY DEF Rendered, PageRecords

LEMMA RefreshKeepsPreviews ==
    ASSUME NEW h, WellFormed(h), page \in PageMaps, NEW p \in Pages, page' = Refreshed(p, h)
    PROVE  page' \in PageMaps /\ \A q \in Pages : page'[q].preview = page[q].preview
  <1> DEFINE at  == IF page[p].at \in PagesOf(h) THEN page[p].at ELSE LastPage(h)
             now == Rendered(Len(h), at, page[p].preview)
  <1>1. at \in Int /\ Len(h) \in Nat /\ page[p].preview \in Previews
    BY PagesAreNumbers, FromUnfolds DEF PageMaps, PageRecords
  <1>2. page' = [page EXCEPT ![p] = now]
    BY DEF Refreshed, PageMaps
  <1> HIDE DEF at
  <1>3. now \in PageRecords /\ now.preview = page[p].preview
    BY <1>1, RenderedIs
  <1> HIDE DEF now
  <1> QED
    BY <1>2, <1>3 DEF PageMaps

\* The same submissions, with other answers or nobody waiting.
SameSubmissions(q, r) ==
    /\ r \in Seq(Requests) /\ DOMAIN r = DOMAIN q
    /\ \A n \in DOMAIN q : r[n].key = q[n].key /\ r[n].body = q[n].body /\ r[n].reviewed = q[n].reviewed

Answered(q, n, a) == [q EXCEPT ![n].answer = a]
LEMMA WithAnswer ==
    ASSUME NEW q \in Seq(Requests), NEW n \in DOMAIN q, NEW a \in Answers
    PROVE  /\ SameSubmissions(q, Answered(q, n, a)) /\ Answered(q, n, a)[n].answer = a
           /\ \A m \in DOMAIN q : m # n => Answered(q, n, a)[m].answer = q[m].answer
  <1> DEFINE r == Answered(q, n, a)
  <1>1. DOMAIN q = 1 .. Len(q) /\ Len(q) \in Nat /\ q \in [1 .. Len(q) -> Requests]
    OBVIOUS
  <1>2. ASSUME NEW m \in DOMAIN q
        PROVE  r[m] = IF m = n THEN [q[n] EXCEPT !.answer = a] ELSE q[m]
    BY <1>1 DEF Answered
  <1>3. q[n] \in Requests
    OBVIOUS
  <1>4. [q[n] EXCEPT !.answer = a] \in Requests
    BY <1>3 DEF Requests
  <1>5. /\ [q[n] EXCEPT !.answer = a].key = q[n].key /\ [q[n] EXCEPT !.answer = a].body = q[n].body
        /\ [q[n] EXCEPT !.answer = a].reviewed = q[n].reviewed
        /\ [q[n] EXCEPT !.answer = a].answer = a
    BY <1>3 DEF Requests
  <1>6. r \in [1 .. Len(q) -> Requests] /\ DOMAIN r = DOMAIN q
    BY <1>1, <1>4 DEF Answered
  <1> HIDE DEF r
  <1>7. r \in Seq(Requests)
    BY <1>1, <1>6
  <1> QED
    BY <1>2, <1>5, <1>6, <1>7 DEF SameSubmissions, r

LEMMA WithNobody ==
    ASSUME NEW q \in Seq(Requests), NEW r, DOMAIN r = DOMAIN q,
           r = [m \in DOMAIN q |-> r[m]],
           \A m \in DOMAIN q : r[m] = q[m] \/ r[m] = [q[m] EXCEPT !.by = None]
    PROVE  SameSubmissions(q, r) /\ \A m \in DOMAIN q : r[m].answer = q[m].answer
  <1>1. DOMAIN q = 1 .. Len(q) /\ Len(q) \in Nat
    OBVIOUS
  <1>2. ASSUME NEW m \in DOMAIN q
        PROVE  /\ r[m] \in Requests /\ r[m].key = q[m].key /\ r[m].body = q[m].body
               /\ r[m].reviewed = q[m].reviewed /\ r[m].answer = q[m].answer
    <2>1. q[m] \in Requests /\ (r[m] = q[m] \/ r[m] = [q[m] EXCEPT !.by = None])
      OBVIOUS
    <2> QED
      BY <2>1 DEF Requests
  <1>3. r \in [1 .. Len(q) -> Requests]
    BY <1>1, <1>2
  <1>4. r \in Seq(Requests)
    BY <1>1, <1>3
  <1> QED
    BY <1>2, <1>4 DEF SameSubmissions

\* Where the history stays, requests with their answers corrected stay true.
LEMMA AnsweredAgain ==
    ASSUME ReviewInv, UNCHANGED <<history, game, origin>>, SameSubmissions(request, request'),
           \A n \in DOMAIN request :
               \/ request'[n].answer = request[n].answer
               \/ /\ request'[n].answer \in {"SUCCESS", "RECORDED"} =>
                        \E i \in Prior(n) : history[i] = request[n].body
                  /\ InHistory(n) => request'[n].answer \in Accepted
    PROVE  RequestsInv' /\ OriginsInv' /\ AnswersInv' /\ request' \in Seq(Requests)
  <1>1. /\ DOMAIN request' = DOMAIN request /\ history' = history /\ origin' = origin
        /\ \A n \in DOMAIN request : /\ request'[n].key = request[n].key
                                     /\ request'[n].body = request[n].body
                                     /\ request'[n].reviewed = request[n].reviewed
    BY DEF SameSubmissions
  <1>2. RequestsInv'
    BY <1>1 DEF ReviewInv, RequestsInv
  <1>3. OriginsInv'
    <2> SUFFICES ASSUME NEW i \in DOMAIN origin, origin[i] # 0
                 PROVE  /\ origin[i] \in DOMAIN request /\ history[i] = request'[origin[i]].body
                        /\ request'[origin[i]].answer \in Accepted
      BY <1>1 DEF OriginsInv
    <2>1. /\ origin[i] \in DOMAIN request /\ history[i] = request[origin[i]].body
          /\ request[origin[i]].answer \in Accepted
      BY DEF ReviewInv, OriginsInv
    <2>2. InHistory(origin[i])
      BY DEF InHistory
    <2> QED
      BY <1>1, <2>1, <2>2
  <1>4. AnswersInv'
    <2>1. ASSUME NEW n \in DOMAIN request PROVE Prior(n)' = Prior(n)
      BY <1>1, <2>1 DEF Prior, ReviewInv, OriginsInv
    <2> SUFFICES ASSUME NEW n \in DOMAIN request, request'[n].answer \in {"SUCCESS", "RECORDED"}
                 PROVE  \E i \in Prior(n) : history[i] = request[n].body
      BY <1>1, <2>1 DEF AnswersInv
    <2> QED
      BY DEF ReviewInv, AnswersInv
  <1> QED
    BY <1>2, <1>3, <1>4 DEF SameSubmissions

\* Where the history stays, pages may drop their previews or make new ones, and requests
\* may be answered.
LEMMA ReviewKept ==
    ASSUME IInv, ReviewInv, UNCHANGED <<vars, origin>>, page' \in PageMaps,
           \A p \in Pages : \/ page'[p].preview \in {page[p].preview, NoPreview}
                            \/ Reviewed(history, page'[p].preview.revision, page'[p].preview.body),
           SameSubmissions(request, request'),
           \A n \in DOMAIN request :
               \/ request'[n].answer = request[n].answer
               \/ /\ request'[n].answer \in {"SUCCESS", "RECORDED"} =>
                        \E i \in Prior(n) : history[i] = request[n].body
                  /\ InHistory(n) => request'[n].answer \in Accepted
    PROVE  IInv' /\ ReviewInv'
  <1>1. UNCHANGED <<history, game, origin>>
    BY DEF vars
  <1>2. RequestsInv' /\ OriginsInv' /\ AnswersInv' /\ request' \in Seq(Requests)
    BY <1>1, AnsweredAgain
  <1>3. PreviewsInv'
    BY <1>1 DEF ReviewInv, PreviewsInv
  <1>4. /\ Drafted(history)' /\ Replays(history)' /\ IInv'
        /\ origin' \in Seq(Nat) /\ Len(origin') = Len(history')
    BY <1>1 DEF ReviewInv, PageTypes, IInv
  <1> QED
    BY <1>2, <1>3, <1>4 DEF ReviewInv, PageTypes

LEMMA SameRequests ==
    ASSUME NEW q \in Seq(Requests)
    PROVE  SameSubmissions(q, q)
  BY DEF SameSubmissions

-----------------------------------------------------------------------------
(* Steps that leave the history alone *)

LEMMA PanelBegins == PanelInit => IInv /\ ReviewInv
  <1> SUFFICES ASSUME PanelInit PROVE IInv /\ ReviewInv
    OBVIOUS
  <1>1. IInv /\ history = <<>>
    BY InitInvariant DEF PanelInit, Init
  <1>2. page = [p \in Pages |-> Rendered(0, 0, NoPreview)] /\ request = <<>> /\ origin = <<>>
    BY DEF PanelInit
  <1>3. Rendered(0, 0, NoPreview) \in PageRecords /\ Rendered(0, 0, NoPreview).preview = NoPreview
    BY RenderedIs DEF Previews
  <1>4. page \in PageMaps /\ \A p \in Pages : page[p].preview = NoPreview
    BY <1>2, <1>3 DEF PageMaps
  <1>5. /\ request \in Seq(Requests) /\ DOMAIN request = {}
        /\ origin \in Seq(Nat) /\ DOMAIN origin = {} /\ Len(origin) = Len(history)
    BY <1>1, <1>2
  <1>6. Drafted(history)
    BY <1>1 DEF Drafted, CorrectionsOf
  <1>7. Replays(history)
    <2>1. \A r \in 0 .. Len(history) : SubSeq(history, 1, r) = history
      BY <1>1
    <2> QED
      BY <1>1, <2>1 DEF Replays, IInv
  <1> QED
    BY <1>1, <1>4, <1>5, <1>6, <1>7
       DEF ReviewInv, PageTypes, PreviewsInv, RequestsInv, OriginsInv, AnswersInv

LEMMA OpenKeeps ==
    ASSUME IInv, ReviewInv, NEW p \in Pages, Open(p)
    PROVE  IInv' /\ ReviewInv'
  <1>1. /\ page' = [page EXCEPT ![p] = Rendered(Len(history), 0, NoPreview)]
        /\ request' = [n \in DOMAIN request |->
                          IF request[n].by = p THEN [request[n] EXCEPT !.by = None] ELSE request[n]]
        /\ UNCHANGED <<vars, origin>>
    BY DEF Open
  <1>2. page \in PageMaps /\ request \in Seq(Requests) /\ Len(history) \in Nat
    BY FromUnfolds DEF ReviewInv, PageTypes, IInv
  <1>3. /\ Rendered(Len(history), 0, NoPreview) \in PageRecords
        /\ Rendered(Len(history), 0, NoPreview).preview = NoPreview
    BY <1>2, RenderedIs DEF Previews
  <1>4. /\ page' \in PageMaps
        /\ \A q \in Pages : page'[q].preview \in {page[q].preview, NoPreview}
    BY <1>1, <1>2, <1>3 DEF PageMaps
  <1>5. /\ DOMAIN request' = DOMAIN request /\ request' = [m \in DOMAIN request |-> request'[m]]
        /\ \A m \in DOMAIN request :
              request'[m] = request[m] \/ request'[m] = [request[m] EXCEPT !.by = None]
    BY <1>1
  <1>6. SameSubmissions(request, request')
        /\ \A m \in DOMAIN request : request'[m].answer = request[m].answer
    BY <1>2, <1>5, WithNobody
  <1> QED
    BY <1>1, <1>4, <1>6, ReviewKept

LEMMA TurnKeeps ==
    ASSUME IInv, ReviewInv, NEW p \in Pages, Turn(p)
    PROVE  IInv' /\ ReviewInv'
  <1>1. PICK at \in PagesOf(history) :
           /\ page' = [page EXCEPT ![p] = Rendered(Len(history), at, page[p].preview)]
           /\ UNCHANGED <<vars, origin, request>>
    BY DEF Turn, ReviewInv, PageTypes, PageMaps
  <1>2. /\ page \in PageMaps /\ request \in Seq(Requests) /\ Len(history) \in Nat
        /\ at \in Int /\ page[p].preview \in Previews
    BY FromUnfolds, PagesAreNumbers DEF ReviewInv, PageTypes, IInv, PageMaps, PageRecords
  <1> DEFINE now == Rendered(Len(history), at, page[p].preview)
  <1>3. now \in PageRecords /\ now.preview = page[p].preview
    BY <1>2, RenderedIs
  <1>4. page' = [page EXCEPT ![p] = now]
    BY <1>1
  <1> HIDE DEF now
  <1>5. page' \in PageMaps /\ \A q \in Pages : page'[q].preview \in {page[q].preview, NoPreview}
    BY <1>2, <1>3, <1>4 DEF PageMaps
  <1> QED
    BY <1>1, <1>2, <1>5, SameRequests, ReviewKept

\* What a page offers for an entry is a draft.
LEMMA OfferedIsDraft ==
    ASSUME IInv, NEW i \in Listed(history), NEW e \in Drafts(history, i)
    PROVE  DraftOf(history, e)
  <1>1. CASE e = Reversal({i})
    BY <1>1 DEF DraftOf
  <1>2. ASSUME NEW o \in ReplacementOutcomes(history[i]),
               e = Replacement({i}, <<Rejudged(history[i], o)>>)
        PROVE  DraftOf(history, e)
    <2>1. history[i].type = "PlateAppearanceRecorded"
      BY <1>2 DEF ReplacementOutcomes
    <2>2. history[i] \in Bodies
      BY <2>1 DEF IInv, CorrectionsOf, IsCorrection, Listed
    <2>3. /\ Rejudged(history[i], o) \in Admitted
          /\ Rejudged(history[i], o).type = "PlateAppearanceRecorded"
      BY <1>2, <2>2, RejudgedIs DEF Admitted
    <2> QED
      BY <1>2, <2>1, <2>3 DEF DraftOf, Replaceable
  <1> QED
    BY <1>1, <1>2 DEF Drafts

LEMMA PreviewKeeps ==
    ASSUME IInv, ReviewInv, NEW p \in Pages, Preview(p)
    PROVE  IInv' /\ ReviewInv'
  <1>1. PICK i \in Selectable(p) : \E e \in Drafts(Shown(p), i) :
           page' = [page EXCEPT ![p].preview =
                      IF page[p].revision = Len(history) /\ Calculates(history, e)
                      THEN [revision |-> Len(history), body |-> e] ELSE NoPreview]
    BY DEF Preview
  <1>2. PICK e \in Drafts(Shown(p), i) :
           page' = [page EXCEPT ![p].preview =
                      IF page[p].revision = Len(history) /\ Calculates(history, e)
                      THEN [revision |-> Len(history), body |-> e] ELSE NoPreview]
    BY <1>1
  <1>3. StatusOf(Shown(p)) \in OpenToCorrections /\ UNCHANGED <<vars, origin, request>>
    BY DEF Preview, OpenToCorrections
  <1> DEFINE preview == IF page[p].revision = Len(history) /\ Calculates(history, e)
                        THEN [revision |-> Len(history), body |-> e] ELSE NoPreview
  <1>4. /\ page \in PageMaps /\ request \in Seq(Requests) /\ Len(history) \in Nat
        /\ WellFormed(history) /\ SubSeq(history, 1, Len(history)) = history
    BY FromUnfolds DEF ReviewInv, PageTypes, IInv, WellFormed
  <1>5. /\ preview \in Previews
        /\ preview = NoPreview \/ Reviewed(history, preview.revision, preview.body)
    <2>1. CASE preview = NoPreview
      BY <2>1 DEF Previews
    <2>2. CASE preview # NoPreview
      <3>1. page[p].revision = Len(history) /\ preview = [revision |-> Len(history), body |-> e]
        BY <2>2
      <3>2. Shown(p) = history
        BY <1>4, <3>1 DEF Shown
      <3>3. i \in Listed(history) /\ e \in Drafts(history, i)
        BY <3>2 DEF Selectable, OnPage
      <3>4. DraftOf(history, e)
        BY <3>3, OfferedIsDraft
      <3>5. e \in Corrections
        BY <1>4, <3>4, DraftIs
      <3>6. Reviewed(history, Len(history), e)
        <4>1. Len(history) \in 0 .. Len(history) /\ StatusOf(history) \in OpenToCorrections
          BY <1>3, <1>4, <3>2
        <4>2. /\ DraftOf(SubSeq(history, 1, Len(history)), e)
              /\ StatusOf(SubSeq(history, 1, Len(history))) \in OpenToCorrections
          BY <1>4, <3>4, <4>1, Zenon
        <4> QED
          BY <4>1, <4>2 DEF Reviewed
      <3> QED
        BY <1>4, <3>1, <3>5, <3>6 DEF Previews
    <2> QED
      BY <2>1, <2>2
  <1>6. page' = [page EXCEPT ![p].preview = preview]
    BY <1>2
  <1> HIDE DEF preview
  <1>7. /\ page' \in PageMaps /\ page'[p].preview = preview
        /\ \A q \in Pages : q # p => page'[q] = page[q]
    <2>1. page[p] \in PageRecords
      BY <1>4 DEF PageMaps
    <2>2. [page[p] EXCEPT !.preview = preview] \in PageRecords
          /\ [page[p] EXCEPT !.preview = preview].preview = preview
      BY <1>5, <2>1 DEF PageRecords
    <2>3. page' = [page EXCEPT ![p] = [page[p] EXCEPT !.preview = preview]]
      BY <1>6
    <2> QED
      BY <1>4, <2>2, <2>3 DEF PageMaps
  <1> QED
    BY <1>3, <1>4, <1>5, <1>7, SameRequests, ReviewKept

LEMMA RefusedHereKeeps ==
    ASSUME IInv, ReviewInv, NEW p \in Pages, RefusedHere(p)
    PROVE  IInv' /\ ReviewInv'
  <1>1. page' = Refreshed(p, history) /\ UNCHANGED <<vars, origin, request>>
    BY DEF RefusedHere
  <1>2. page \in PageMaps /\ request \in Seq(Requests) /\ WellFormed(history)
    BY DEF ReviewInv, PageTypes, IInv
  <1>3. page' \in PageMaps /\ \A q \in Pages : page'[q].preview = page[q].preview
    BY <1>1, <1>2, RefreshKeepsPreviews
  <1> QED
    BY <1>1, <1>2, <1>3, SameRequests, ReviewKept

\* What was not answered as accepted is not in the history.
LEMMA NotInHistory ==
    ASSUME ReviewInv, NEW n \in DOMAIN request, request[n].answer \notin Accepted
    PROVE  ~InHistory(n)
  <1>1. n # 0
    BY DEF ReviewInv, PageTypes
  <1> QED
    BY <1>1 DEF InHistory, ReviewInv, OriginsInv

\* An answer changes nothing but the answer.
LEMMA AnswerKeeps ==
    ASSUME IInv, ReviewInv, NEW n \in DOMAIN request, NEW a \in Answers, Answer(n, a),
           UNCHANGED <<vars, page, origin>>,
           a \in {"SUCCESS", "RECORDED"} => \E i \in Prior(n) : history[i] = request[n].body,
           InHistory(n) => a \in Accepted
    PROVE  IInv' /\ ReviewInv'
  <1>1. request' = Answered(request, n, a) /\ request \in Seq(Requests)
    BY DEF Answer, Answered, ReviewInv, PageTypes
  <1>2. /\ SameSubmissions(request, request') /\ request'[n].answer = a
        /\ \A m \in DOMAIN request : m # n => request'[m].answer = request[m].answer
    BY <1>1, WithAnswer
  <1>3. page' \in PageMaps /\ \A q \in Pages : page'[q].preview = page[q].preview
    BY DEF ReviewInv, PageTypes
  <1>4. UNCHANGED <<vars, origin>>
    OBVIOUS
  <1>5. ASSUME NEW m \in DOMAIN request
        PROVE  \/ request'[m].answer = request[m].answer
               \/ /\ request'[m].answer \in {"SUCCESS", "RECORDED"} =>
                        \E i \in Prior(m) : history[i] = request[m].body
                  /\ InHistory(m) => request'[m].answer \in Accepted
    <2>1. CASE m = n
      BY <1>2, <2>1
    <2>2. CASE m # n
      BY <1>2, <2>2
    <2> QED
      BY <2>1, <2>2
  <1> QED
    BY <1>2, <1>3, <1>4, <1>5, ReviewKept

LEMMA ExamineKeeps ==
    ASSUME IInv, ReviewInv, NEW n \in DOMAIN request, Examine(n)
    PROVE  IInv' /\ ReviewInv'
  <1>1. request[n].answer = "SENT" /\ UNCHANGED <<vars, page, origin>>
    BY DEF Examine
  <1>2. PICK a \in {"REFUSED", "CONFLICT", "EXAMINED"} : Answer(n, a)
    BY DEF Examine
  <1>3. ~InHistory(n)
    BY <1>1, NotInHistory DEF Accepted
  <1>4. a \in Answers /\ a \notin {"SUCCESS", "RECORDED"}
    BY DEF Answers
  <1> QED
    BY <1>1, <1>2, <1>3, <1>4, AnswerKeeps

LEMMA LoadResultKeeps ==
    ASSUME IInv, ReviewInv, NEW n \in DOMAIN request, LoadResult(n)
    PROVE  IInv' /\ ReviewInv'
  <1>1. request[n].answer = "RECORDED" /\ UNCHANGED <<vars, page, origin>>
    BY DEF LoadResult
  <1>2. PICK a \in {"SUCCESS", "STALE"} : Answer(n, a)
    BY DEF LoadResult
  <1>3. \E i \in Prior(n) : history[i] = request[n].body
    BY <1>1 DEF ReviewInv, AnswersInv
  <1>4. a \in Answers /\ a \in Accepted
    BY DEF Answers, Accepted
  <1> QED
    BY <1>1, <1>2, <1>3, <1>4, AnswerKeeps

LEMMA HearKeeps ==
    ASSUME IInv, ReviewInv, NEW n \in DOMAIN request, Hear(n)
    PROVE  IInv' /\ ReviewInv'
  <1> DEFINE p == request[n].by
  <1>1. /\ p # None /\ request' = [request EXCEPT ![n].by = None] /\ UNCHANGED <<vars, origin>>
        /\ page' = Refreshed(p, history) \/ page' = page
    BY DEF Hear
  <1>2. page \in PageMaps /\ request \in Seq(Requests) /\ WellFormed(history)
    BY DEF ReviewInv, PageTypes, IInv
  <1>3. p \in Pages
    <2>1. request[n] \in Requests
      BY <1>2
    <2>2. p \in Pages \cup {None}
      BY <2>1 DEF Requests
    <2> QED
      BY <1>1, <2>2
  <1> HIDE DEF p
  <1>4. page' \in PageMaps /\ \A q \in Pages : page'[q].preview = page[q].preview
    BY <1>1, <1>2, <1>3, RefreshKeepsPreviews
  <1>5. /\ DOMAIN request' = DOMAIN request /\ request' = [m \in DOMAIN request |-> request'[m]]
        /\ \A m \in DOMAIN request :
              request'[m] = request[m] \/ request'[m] = [request[m] EXCEPT !.by = None]
    BY <1>1, <1>2
  <1>6. SameSubmissions(request, request')
        /\ \A m \in DOMAIN request : request'[m].answer = request[m].answer
    BY <1>2, <1>5, WithNobody, ZenonT(30)
  <1> QED
    BY <1>1, <1>4, <1>6, ReviewKept

LEMMA SendKeeps ==
    ASSUME IInv, ReviewInv, NEW p \in Pages, NEW body \in Events, NEW reviewed \in Nat,
           Send(p, body, reviewed),
           body = Reopening \/ Reviewed(history, reviewed, body)
    PROVE  IInv' /\ ReviewInv'
  <1> DEFINE key == IF page[p].keys = 0 THEN Len(request) + 1 ELSE page[p].keys
             sent == [by |-> p, key |-> key, body |-> body, revision |-> page[p].revision,
                      reviewed |-> reviewed, answer |-> "SENT"]
             n == Len(request)
  <1>1. /\ request' = Append(request, sent) /\ page' = [page EXCEPT ![p].keys = key]
        /\ history' = history /\ game' = game /\ origin' = origin
    BY DEF Send, vars
  <1>2. /\ page \in PageMaps /\ request \in Seq(Requests) /\ page[p] \in PageRecords
        /\ n \in Nat /\ DOMAIN request = 1 .. n
    BY DEF ReviewInv, PageTypes, PageMaps
  <1>3. key \in Nat /\ page[p].revision \in Nat
    BY <1>2 DEF PageRecords
  <1> HIDE DEF key
  <1>4. sent \in Requests /\ sent.body = body /\ sent.reviewed = reviewed /\ sent.answer = "SENT"
    BY <1>3 DEF Requests, Answers
  <1> HIDE DEF sent, n
  <1>5. /\ request' \in Seq(Requests) /\ DOMAIN request' = 1 .. n + 1 /\ request'[n + 1] = sent
        /\ \A m \in 1 .. n : request'[m] = request[m]
    BY <1>1, <1>2, <1>4 DEF n
  <1>6. page' \in PageMaps /\ \A q \in Pages : page'[q].preview = page[q].preview
    <2>1. /\ [page[p] EXCEPT !.keys = key] \in PageRecords
          /\ [page[p] EXCEPT !.keys = key].preview = page[p].preview
      BY <1>2, <1>3 DEF PageRecords
    <2>2. page' = [page EXCEPT ![p] = [page[p] EXCEPT !.keys = key]]
      BY <1>1
    <2> QED
      BY <1>2, <2>1, <2>2 DEF PageMaps
  <1>7. RequestsInv'
    <2>1. ASSUME NEW m \in 1 .. n + 1
          PROVE  \/ request'[m].body = Reopening
                 \/ Reviewed(history, request'[m].reviewed, request'[m].body)
      <3>1. CASE m \in 1 .. n
        BY <1>2, <1>5, <3>1 DEF ReviewInv, RequestsInv
      <3>2. CASE m = n + 1
        BY <1>4, <1>5, <3>2
      <3> QED
        BY <1>2, <3>1, <3>2
    <2> QED
      BY <1>1, <1>5, <2>1 DEF RequestsInv
  <1>8. OriginsInv'
    <2>1. ASSUME NEW i \in DOMAIN origin, origin[i] # 0
          PROVE  /\ origin[i] \in 1 .. n + 1 /\ history[i] = request'[origin[i]].body
                 /\ request'[origin[i]].answer \in Accepted
      BY <1>2, <1>5, <2>1 DEF ReviewInv, OriginsInv
    <2> QED
      BY <1>1, <1>5, <2>1 DEF OriginsInv
  <1>9. AnswersInv'
    <2>1. ASSUME NEW m \in 1 .. n + 1, request'[m].answer \in {"SUCCESS", "RECORDED"}
          PROVE  \E i \in DOMAIN origin :
                    /\ origin[i] # 0 /\ request'[origin[i]].key = request'[m].key
                    /\ history[i] = request'[m].body
      <3>1. m \in 1 .. n
        BY <1>2, <1>4, <1>5, <2>1
      <3>2. PICK i \in Prior(m) : history[i] = request[m].body
        BY <1>2, <1>5, <2>1, <3>1 DEF ReviewInv, AnswersInv
      <3>3. i \in DOMAIN origin /\ origin[i] # 0 /\ request[origin[i]].key = request[m].key
        BY <3>2 DEF Prior
      <3>4. origin[i] \in 1 .. n
        BY <1>2, <3>3 DEF ReviewInv, OriginsInv
      <3> QED
        BY <1>5, <3>1, <3>2, <3>3, <3>4
    <2> QED
      BY <1>1, <1>5, <2>1 DEF AnswersInv, Prior
  <1>10. /\ IInv' /\ PreviewsInv' /\ Drafted(history)' /\ Replays(history)'
         /\ origin' \in Seq(Nat) /\ Len(origin') = Len(history')
    BY <1>1, <1>6 DEF IInv, ReviewInv, PreviewsInv, PageTypes
  <1> QED
    BY <1>5, <1>6, <1>7, <1>8, <1>9, <1>10 DEF ReviewInv, PageTypes

LEMMA ConfirmKeeps ==
    ASSUME IInv, ReviewInv, NEW p \in Pages, Confirm(p)
    PROVE  IInv' /\ ReviewInv'
  <1> DEFINE preview == page[p].preview
  <1>1. preview # NoPreview /\ Send(p, preview.body, preview.revision)
    BY DEF Confirm
  <1>2. preview \in Previews /\ Reviewed(history, preview.revision, preview.body)
    BY <1>1 DEF ReviewInv, PageTypes, PreviewsInv, PageMaps, PageRecords
  <1> HIDE DEF preview
  <1>3. preview.revision \in Nat /\ preview.body \in Events
    BY <1>1, <1>2 DEF Previews, Events
  <1> QED
    BY <1>1, <1>2, <1>3, SendKeeps

LEMMA ReopenKeeps ==
    ASSUME IInv, ReviewInv, NEW p \in Pages, Reopen(p)
    PROVE  IInv' /\ ReviewInv'
  <1>1. Send(p, Reopening, page[p].revision)
    BY DEF Reopen, Reopening
  <1>2. page[p].revision \in Nat /\ Reopening \in Events
    BY PanelAssumption, AdmittedBodies DEF ReviewInv, PageTypes, PageMaps, PageRecords, Reopening, Events
  <1> QED
    BY <1>1, <1>2, SendKeeps

-----------------------------------------------------------------------------
(* Steps that extend the history *)

LEMMA HistoryExtends ==
    ASSUME IInv, ReviewInv, NEW e \in Events, Accept(e),
           IsCorrection(e) => DraftOf(history, e), ~IsCorrection(e) => e \in Bodies
    PROVE  /\ IInv' /\ Drafted(history') /\ Replays(history')
           /\ Len(history') = Len(history) + 1 /\ Len(history) \in Nat
           /\ history'[Len(history) + 1] = e
           /\ \A i \in 1 .. Len(history) : history'[i] = history[i]
           /\ \A r, b : Reviewed(history, r, b) => Reviewed(history', r, b)
  <1> DEFINE n == Len(history)
             g == Append(history, e)
  <1>1. /\ WellFormed(history) /\ Drafted(history) /\ Replays(history)
        /\ history' = g /\ game' \in Replay(history')
    BY DEF IInv, ReviewInv, Accept
  <1>2. IsCorrection(e) => e.targets \subseteq DOMAIN history
    BY <1>1, DraftIs
  <1>3. IInv'
    BY <1>1, <1>2, JoinedInvariant DEF Joins
  <1>4. /\ Len(g) = n + 1 /\ n \in Nat /\ g[n + 1] = e
        /\ \A i \in 1 .. n : g[i] = history[i]
        /\ CorrectionsOf(g) = CorrectionsOf(history) \cup (IF IsCorrection(e) THEN {n + 1} ELSE {})
        /\ WellFormed(g)
    BY <1>1, <1>2, Appended
  <1>5. /\ \A r \in 0 .. n : SubSeq(g, 1, r) = SubSeq(history, 1, r)
        /\ SubSeq(g, 1, n + 1) = g
    BY <1>1, RevisionKept
  <1>6. Replay(g) # {}
    BY <1>1
  <1> HIDE DEF g
  <1>7. n <= Len(g)
    BY <1>4
  <1> HIDE DEF n
  <1>8. \A b : DraftOf(history, b) => DraftOf(g, b)
    BY <1>1, <1>4, <1>7, DraftKept DEF n
  <1>9. Drafted(g)
    <2>1. ASSUME NEW c \in CorrectionsOf(g) PROVE DraftOf(g, g[c])
      <3>1. CASE c \in CorrectionsOf(history)
        <4>1. c \in 1 .. n
          BY <1>1, <3>1, CorrectionAt DEF n
        <4> QED
          BY <1>1, <1>4, <1>8, <3>1, <4>1 DEF Drafted
      <3>2. CASE IsCorrection(e) /\ c = n + 1
        BY <1>4, <1>8, <3>2
      <3> QED
        BY <1>4, <2>1, <3>1, <3>2
    <2> QED
      BY <2>1 DEF Drafted
  <1>10. Replays(g)
    <2>1. ASSUME NEW r \in 0 .. Len(g) PROVE Replay(SubSeq(g, 1, r)) # {}
      <3>1. CASE r \in 0 .. n
        BY <1>1, <1>5, <3>1 DEF Replays, n
      <3>2. CASE r = n + 1
        BY <1>5, <1>6, <3>2
      <3> QED
        BY <1>4, <2>1, <3>1, <3>2
    <2> QED
      BY <2>1 DEF Replays
  <1>11. ASSUME NEW r, NEW b, Reviewed(history, r, b) PROVE Reviewed(g, r, b)
    <2>1. r \in 0 .. n /\ r \in 0 .. Len(g)
      BY <1>4, <1>11 DEF Reviewed, n
    <2> QED
      BY <1>5, <1>11, <2>1 DEF Reviewed
  <1> QED
    BY <1>1, <1>3, <1>4, <1>9, <1>10, <1>11 DEF n

\* What is reviewed at a revision is a draft of every later one.
LEMMA ReviewedIsDraft ==
    ASSUME NEW h, WellFormed(h), NEW r, NEW e, Reviewed(h, r, e)
    PROVE  DraftOf(h, e)
  <1> DEFINE g == SubSeq(h, 1, r)
  <1>1. r \in 0 .. Len(h) /\ DraftOf(g, e)
    BY DEF Reviewed
  <1>2. /\ WellFormed(g) /\ Len(g) = r /\ Len(h) \in Nat /\ \A i \in 1 .. r : g[i] = h[i]
    BY <1>1, Revision
  <1> HIDE DEF g
  <1>3. Len(g) <= Len(h) /\ \A i \in 1 .. Len(g) : h[i] = g[i]
    BY <1>1, <1>2
  <1> QED
    BY <1>1, <1>2, <1>3, DraftKept

LEMMA ExtendedReview ==
    ASSUME IInv, ReviewInv, NEW e \in Events, Accept(e),
           IsCorrection(e) => DraftOf(history, e), ~IsCorrection(e) => e \in Bodies,
           NEW o \in Nat, origin' = Append(origin, o),
           page' \in PageMaps, \A p \in Pages : page'[p].preview = page[p].preview,
           SameSubmissions(request, request'),
           \A m \in DOMAIN request : m # o => request'[m].answer = request[m].answer,
           o # 0 => /\ o \in DOMAIN request /\ e = request[o].body
                    /\ request'[o].answer \in {"RECORDED", "SUCCESS"}
    PROVE  IInv' /\ ReviewInv'
  <1> DEFINE n == Len(history)
  <1>1. /\ IInv' /\ Drafted(history') /\ Replays(history')
        /\ Len(history') = n + 1 /\ n \in Nat /\ history'[n + 1] = e
        /\ \A i \in 1 .. n : history'[i] = history[i]
        /\ \A r, b : Reviewed(history, r, b) => Reviewed(history', r, b)
    BY HistoryExtends
  <1>2. /\ origin \in Seq(Nat) /\ Len(origin) = n /\ DOMAIN origin = 1 .. n
    BY DEF ReviewInv, PageTypes
  <1> HIDE DEF n
  <1>3. /\ origin' \in Seq(Nat) /\ Len(origin') = n + 1 /\ DOMAIN origin' = 1 .. n + 1
        /\ origin'[n + 1] = o /\ \A i \in 1 .. n : origin'[i] = origin[i]
    BY <1>1, <1>2
  <1>4. /\ request' \in Seq(Requests) /\ DOMAIN request' = DOMAIN request /\ 0 \notin DOMAIN request
        /\ \A m \in DOMAIN request : /\ request'[m].key = request[m].key
                                     /\ request'[m].body = request[m].body
                                     /\ request'[m].reviewed = request[m].reviewed
    BY DEF SameSubmissions, ReviewInv, PageTypes
  <1>5. PreviewsInv'
    BY <1>1 DEF ReviewInv, PreviewsInv
  <1>6. RequestsInv'
    BY <1>1, <1>4 DEF ReviewInv, RequestsInv
  <1>7. OriginsInv'
    <2>1. ASSUME NEW i \in 1 .. n + 1, origin'[i] # 0
          PROVE  /\ origin'[i] \in DOMAIN request /\ history'[i] = request[origin'[i]].body
                 /\ request'[origin'[i]].answer \in Accepted
      <3>1. CASE i \in 1 .. n
        <4>1. origin[i] # 0 /\ i \in DOMAIN origin
          BY <1>2, <1>3, <2>1, <3>1
        <4>2. /\ origin[i] \in DOMAIN request /\ history[i] = request[origin[i]].body
              /\ request[origin[i]].answer \in Accepted
          BY <4>1 DEF ReviewInv, OriginsInv
        <4>3. request'[origin[i]].answer \in Accepted
          BY <4>1, <4>2 DEF Accepted
        <4> QED
          BY <1>1, <1>3, <3>1, <4>2, <4>3
      <3>2. CASE i = n + 1
        BY <1>1, <1>3, <2>1, <3>2 DEF Accepted
      <3>3. i \in 1 .. n \/ i = n + 1
        BY <1>1
      <3> QED
        BY <3>1, <3>2, <3>3
    <2> QED
      BY <1>3, <1>4, <2>1 DEF OriginsInv
  <1>8. AnswersInv'
    <2>1. ASSUME NEW m \in DOMAIN request, request'[m].answer \in {"SUCCESS", "RECORDED"}
          PROVE  \E i \in 1 .. n + 1 :
                    /\ origin'[i] # 0 /\ request'[origin'[i]].key = request'[m].key
                    /\ history'[i] = request'[m].body
      <3>1. CASE m = o
        <4>1. o # 0 /\ e = request[o].body /\ n + 1 \in 1 .. n + 1
          BY <1>1, <1>4, <3>1
        <4> QED
          BY <1>1, <1>3, <1>4, <3>1, <4>1
      <3>2. CASE m # o
        <4>1. request[m].answer \in {"SUCCESS", "RECORDED"}
          BY <2>1, <3>2
        <4>2. PICK i \in Prior(m) : history[i] = request[m].body
          BY <4>1 DEF ReviewInv, AnswersInv
        <4>3. i \in 1 .. n /\ origin[i] # 0 /\ request[origin[i]].key = request[m].key
          BY <1>2, <4>2 DEF Prior
        <4>4. origin[i] \in DOMAIN request
          BY <1>2, <4>3 DEF ReviewInv, OriginsInv
        <4>5. i \in 1 .. n + 1 /\ origin'[i] = origin[i] /\ history'[i] = history[i]
          BY <1>1, <1>3, <4>3
        <4> QED
          BY <1>4, <4>2, <4>3, <4>4, <4>5
      <3> QED
        BY <3>1, <3>2
    <2> QED
      BY <1>3, <1>4, <2>1 DEF AnswersInv, Prior
  <1> QED
    BY <1>1, <1>3, <1>4, <1>5, <1>6, <1>7, <1>8 DEF ReviewInv, PageTypes

\* An event from another surface.
LEMMA BodyRecorded ==
    ASSUME EventRecorded
    PROVE  \E b \in Bodies : b \in Events /\ ~IsCorrection(b) /\ Accept(b)
  <1>1. PICK b \in Bodies : Accept(b)
    BY DEF EventRecorded
  <1>2. b \in Events /\ ~IsCorrection(b)
    BY AdmittedBodies DEF Events, IsCorrection, BodyTypes
  <1> QED
    BY <1>1, <1>2

LEMMA RecordHereKeeps ==
    ASSUME IInv, ReviewInv, NEW p \in Pages, RecordHere(p)
    PROVE  IInv' /\ ReviewInv'
  <1>1. /\ EventRecorded /\ origin' = Append(origin, 0) /\ page' = Refreshed(p, history')
        /\ request' = request
    BY DEF RecordHere
  <1>2. PICK b \in Bodies : b \in Events /\ ~IsCorrection(b) /\ Accept(b)
    BY <1>1, BodyRecorded
  <1>3. IInv'
    BY <1>2, HistoryExtends
  <1>4. page \in PageMaps /\ request \in Seq(Requests) /\ 0 \in Nat /\ 0 \notin DOMAIN request
    BY DEF ReviewInv, PageTypes
  <1>5. WellFormed(history')
    BY <1>3 DEF IInv
  <1>6. page' \in PageMaps /\ \A q \in Pages : page'[q].preview = page[q].preview
    BY <1>1, <1>4, <1>5, RefreshKeepsPreviews
  <1>7. SameSubmissions(request, request')
        /\ \A m \in DOMAIN request : request'[m].answer = request[m].answer
    BY <1>1, <1>4, SameRequests
  <1> QED
    BY <1>1, <1>2, <1>4, <1>6, <1>7, ExtendedReview

LEMMA RecordElsewhereKeeps ==
    ASSUME IInv, ReviewInv, RecordElsewhere
    PROVE  IInv' /\ ReviewInv'
  <1>1. EventRecorded /\ origin' = Append(origin, 0) /\ page' = page /\ request' = request
    BY DEF RecordElsewhere
  <1>2. PICK b \in Bodies : b \in Events /\ ~IsCorrection(b) /\ Accept(b)
    BY <1>1, BodyRecorded
  <1>3. page \in PageMaps /\ request \in Seq(Requests) /\ 0 \in Nat
    BY DEF ReviewInv, PageTypes
  <1>4. page' \in PageMaps /\ \A q \in Pages : page'[q].preview = page[q].preview
    BY <1>1, <1>3
  <1>5. SameSubmissions(request, request')
        /\ \A m \in DOMAIN request : request'[m].answer = request[m].answer
    BY <1>1, <1>3, SameRequests
  <1> QED
    BY <1>1, <1>2, <1>3, <1>4, <1>5, ExtendedReview

LEMMA AdmitKeeps ==
    ASSUME IInv, ReviewInv, NEW n \in DOMAIN request, Admit(n)
    PROVE  IInv' /\ ReviewInv'
  <1>1. request[n].answer = "EXAMINED" /\ UNCHANGED page
    BY DEF Admit
  <1>2. ~InHistory(n)
    BY <1>1, NotInHistory DEF Accepted
  <1>3. Done(n) \in {"RECORDED", "SUCCESS"} /\ Done(n) \in Answers
    BY DEF Done, Answers
  <1>4. CASE /\ Prior(n) # {}
             /\ Answer(n, IF \A i \in Prior(n) : history[i] = request[n].body THEN Done(n) ELSE "REFUSED")
             /\ UNCHANGED <<vars, origin>>
    <2> DEFINE a == IF \A i \in Prior(n) : history[i] = request[n].body THEN Done(n) ELSE "REFUSED"
    <2>1. /\ a \in Answers /\ Answer(n, a) /\ UNCHANGED <<vars, page, origin>>
          /\ a \in {"SUCCESS", "RECORDED"} => \E i \in Prior(n) : history[i] = request[n].body
      BY <1>1, <1>3, <1>4 DEF Answers
    <2> HIDE DEF a
    <2> QED
      BY <1>2, <2>1, AnswerKeeps
  <1>5. CASE Answer(n, "STALE") /\ UNCHANGED <<vars, origin>>
    <2>1. "STALE" \in Answers /\ UNCHANGED <<vars, page, origin>>
      BY <1>1, <1>5 DEF Answers
    <2> QED
      BY <1>2, <1>5, <2>1, AnswerKeeps
  <1>6. CASE Answer(n, "REFUSED") /\ UNCHANGED <<vars, origin>>
    <2>1. "REFUSED" \in Answers /\ UNCHANGED <<vars, page, origin>>
      BY <1>1, <1>6 DEF Answers
    <2> QED
      BY <1>2, <1>6, <2>1, AnswerKeeps
  <1>7. CASE Accept(request[n].body) /\ origin' = Append(origin, n) /\ Answer(n, Done(n))
    <2> DEFINE e == request[n].body
    <2>1. /\ request \in Seq(Requests) /\ n \in Nat /\ n # 0 /\ page \in PageMaps
          /\ request[n] \in Requests
      BY DEF ReviewInv, PageTypes
    <2>2. e \in Events
      BY <2>1 DEF Requests
    <2>3. (IsCorrection(e) => DraftOf(history, e)) /\ (~IsCorrection(e) => e \in Bodies)
      <3>1. CASE e = Reopening
        BY <3>1, PanelAssumption DEF Reopening, IsCorrection
      <3>2. CASE Reviewed(history, request[n].reviewed, e)
        <4>1. WellFormed(history)
          BY DEF IInv
        <4>2. DraftOf(history, e)
          BY <3>2, <4>1, ReviewedIsDraft
        <4> QED
          BY <4>1, <4>2, DraftIs
      <3> QED
        BY <3>1, <3>2 DEF ReviewInv, RequestsInv
    <2> HIDE DEF e
    <2>4. request' = Answered(request, n, Done(n))
      BY <1>7 DEF Answer, Answered
    <2>5. /\ SameSubmissions(request, request') /\ request'[n].answer = Done(n)
          /\ \A m \in DOMAIN request : m # n => request'[m].answer = request[m].answer
      BY <1>3, <2>1, <2>4, WithAnswer
    <2>6. Accept(e) /\ origin' = Append(origin, n) /\ e = request[n].body
          /\ request'[n].answer \in {"RECORDED", "SUCCESS"}
      BY <1>3, <1>7, <2>5 DEF e
    <2>7. page' \in PageMaps /\ \A p \in Pages : page'[p].preview = page[p].preview
      BY <1>1, <2>1
    <2> QED
      BY <2>1, <2>2, <2>3, <2>5, <2>6, <2>7, ExtendedReview
  <1> QED
    BY <1>4, <1>5, <1>6, <1>7 DEF Admit

LEMMA PanelStep == IInv /\ ReviewInv /\ PanelNext => IInv' /\ ReviewInv'
  <1> SUFFICES ASSUME IInv, ReviewInv, PanelNext PROVE IInv' /\ ReviewInv'
    OBVIOUS
  <1>1. ASSUME NEW p \in Pages,
               Open(p) \/ Turn(p) \/ Preview(p) \/ Confirm(p) \/ Reopen(p)
                 \/ RecordHere(p) \/ RefusedHere(p)
        PROVE  IInv' /\ ReviewInv'
    BY <1>1, OpenKeeps, TurnKeeps, PreviewKeeps, ConfirmKeeps, ReopenKeeps,
       RecordHereKeeps, RefusedHereKeeps
  <1>2. ASSUME NEW n \in DOMAIN request, Examine(n) \/ Admit(n) \/ LoadResult(n) \/ Hear(n)
        PROVE  IInv' /\ ReviewInv'
    BY <1>2, ExamineKeeps, AdmitKeeps, LoadResultKeeps, HearKeeps
  <1> QED
    BY <1>1, <1>2, RecordElsewhereKeeps DEF PanelNext

LEMMA ReviewStutters ==
    ASSUME IInv, ReviewInv, UNCHANGED <<vars, panelVars>> PROVE IInv' /\ ReviewInv'
  <1>1. /\ history' = history /\ game' = game
        /\ page' = page /\ request' = request /\ origin' = origin
    BY DEF vars, panelVars
  <1>2. IInv'
    BY <1>1 DEF IInv
  <1>3. request \in Seq(Requests) /\ page \in PageMaps
    BY DEF ReviewInv, PageTypes
  <1>4. ReviewInv'
    BY <1>1, <1>3 DEF ReviewInv, PageTypes, PreviewsInv, RequestsInv, OriginsInv, AnswersInv, Prior
  <1> QED
    BY <1>2, <1>4

\* Both parts keep the invariant of the history; the review keeps that of its pages.
LEMMA PanelInvariant == HistorySpec => []PanelInv
  <1>1. HistoryInit => PanelInv
    <2> SUFFICES ASSUME HistoryInit PROVE PanelInv
      OBVIOUS
    <2>1. PanelInit
      BY DEF HistoryInit
    <2> QED
      BY <2>1, PanelBegins DEF PanelInv
  <1>2. PanelInv /\ HistoryNext => PanelInv'
    <2> SUFFICES ASSUME PanelInv, HistoryNext PROVE PanelInv'
      OBVIOUS
    <2>1. CASE part = "log" /\ NextScored /\ part' = part
      <3>1. Next
        BY <2>1 DEF NextScored, Score, Correct, Next
      <3>2. IInv'
        BY <3>1, NextInvariant DEF PanelInv
      <3> QED
        BY <2>1, <3>2 DEF PanelInv
    <2>2. CASE part = "review" /\ PanelNext
      <3>1. IInv /\ ReviewInv
        BY <2>2 DEF PanelInv
      <3>2. IInv' /\ ReviewInv'
        BY <2>2, <3>1, PanelStep
      <3> QED
        BY <3>2 DEF PanelInv
    <2> QED
      BY <2>1, <2>2 DEF HistoryNext
  <1>3. PanelInv /\ UNCHANGED <<part, vars, panelVars>> => PanelInv'
    <2> SUFFICES ASSUME PanelInv, UNCHANGED <<part, vars, panelVars>> PROVE PanelInv'
      OBVIOUS
    <2>1. part' = part /\ UNCHANGED <<vars, panelVars>>
      OBVIOUS
    <2>2. IInv'
      BY <2>1 DEF PanelInv, IInv, vars
    <2> QED
      BY <2>1, <2>2, ReviewStutters DEF PanelInv
  <1> QED
    BY <1>1, <1>2, <1>3, PTL DEF HistorySpec

-----------------------------------------------------------------------------
(* What the page shows *)

LEMMA ListFollows == IInv /\ ReviewInv => ReadsAsPlayed
  <1> SUFFICES ASSUME IInv, ReviewInv PROVE ReadsAsPlayed
    OBVIOUS
  <1>1. WellFormed(history) /\ Resolve(history).valid /\ Drafted(history)
    BY GameReached DEF ReviewInv
  <1>2. Originals = OriginalsOf(history) /\ Originals \subseteq DOMAIN history
    BY DEF Originals, OriginalsOf, Listed
  <1>3. List!Upto(history, Len(history))[Len(history)] = PlaysAmong(Intended(history))
    BY <1>1, ListReads
  <1>4. \A i \in Originals : Status(history, i) = "SUPERSEDED" <=> Naming(history, i) # {}
    BY <1>1, <1>2, NamingIs
  <1> QED
    BY <1>2, <1>3, <1>4 DEF ReadsAsPlayed, List!Upto, ListFirst, ListStep

LEMMA EffectsFollow == IInv /\ ReviewInv => EffectsAddUp
  <1> SUFFICES ASSUME IInv, ReviewInv PROVE EffectsAddUp
    OBVIOUS
  <1>1. WellFormed(history) /\ Replays(history) /\ game \in Replay(history)
    BY DEF IInv, ReviewInv
  <1>2. At(history, Len(history)) = game
    BY <1>1, StandsAt
  <1>3. Total!Upto(history, Len(history))[Len(history)] = game.score
    BY <1>1, <1>2, TotalIs
  <1> QED
    BY <1>3 DEF EffectsAddUp, Total!Upto, TotalFirst, TotalStep

LEMMA AuditFollows == IInv /\ ReviewInv => AuditAgrees
  <1> SUFFICES ASSUME IInv, ReviewInv, NEW i \in DOMAIN origin, ConfirmedNow(i)
               PROVE  AuditEffect(history, i) = "UNCHANGED"
                        <=> PreviewEffect(SubSeq(history, 1, i - 1)) = "UNCHANGED"
    BY DEF AuditAgrees
  <1>1. WellFormed(history) /\ Drafted(history) /\ Replays(history)
    BY DEF IInv, ReviewInv
  <1>2. i \in DOMAIN history
    <2>1. origin \in Seq(Nat) /\ Len(origin) = Len(history) /\ history \in Seq(Events)
      BY <1>1 DEF ReviewInv, PageTypes, WellFormed
    <2> QED
      BY <2>1
  <1>3. /\ origin[i] \in DOMAIN request /\ history[i] = request[origin[i]].body
        /\ IsCorrection(history[i]) /\ request[origin[i]].reviewed = i - 1
    BY DEF ConfirmedNow, ReviewInv, OriginsInv
  <1>4. request[origin[i]].body # Reopening
    BY <1>3 DEF Reopening, IsCorrection
  <1>5. Reviewed(history, i - 1, request[origin[i]].body)
    BY <1>3, <1>4 DEF ReviewInv, RequestsInv
  <1>6. StatusOf(SubSeq(history, 1, i - 1)) \in OpenToCorrections
    BY <1>5 DEF Reviewed
  <1> QED
    BY <1>1, <1>2, <1>6, AuditIs

LEMMA AnswersFollow == IInv /\ ReviewInv => AnswersAreTrue
  <1> SUFFICES ASSUME IInv, ReviewInv PROVE AnswersAreTrue
    OBVIOUS
  <1>1. ASSUME NEW n \in DOMAIN request
        PROVE  /\ request[n].answer \in {"SUCCESS", "RECORDED"} =>
                     \E i \in Prior(n) : history[i] = request[n].body
               /\ request[n].answer \in {"REFUSED", "CONFLICT"} => ~InHistory(n)
    <2>1. request[n].answer \in {"REFUSED", "CONFLICT"} => request[n].answer \notin Accepted
      BY DEF Accepted
    <2> QED
      BY <2>1, NotInHistory DEF ReviewInv, AnswersInv
  <1>2. ASSUME NEW c \in Active(history), NEW d \in Active(history), history[c] = history[d]
        PROVE  c = d
    <2>1. WellFormed(history) /\ Resolve(history).valid /\ Drafted(history)
      BY GameReached DEF ReviewInv
    <2>2. c \in Applied(history) /\ d \in Applied(history) /\ c \in CorrectionsOf(history)
      BY <2>1, OneKernel DEF Applied
    <2>3. PICK t \in Listed(history) : PutsInPlace(history, history[c], t)
      BY <2>1, <2>2, DraftIs DEF Drafted
    <2>4. history[c].targets \cap history[d].targets # {}
      BY <1>2, <2>3 DEF PutsInPlace
    <2> QED
      BY <2>1, <2>2, <2>4, AppliedApart
  <1> QED
    BY <1>1, <1>2 DEF AnswersAreTrue

LEMMA ReviewFollows == IInv /\ ReviewInv => ReviewHolds
  BY ListFollows, EffectsFollow, AuditFollows, AnswersFollow DEF ReviewHolds

\* The review page tells the truth, whatever is recorded, corrected, reopened and sent
\* again from other pages meanwhile: its list reads as the game was played and corrected,
\* the effects it shows add up to the score, the audit of a correction that was accepted
\* where it was previewed says what the preview said, and no answer denies the history.
THEOREM ReviewCorrect == PanelSpec => []ReviewHolds
  <1>1. PanelInit => IInv /\ ReviewInv
    BY PanelBegins
  <1>2. IInv /\ ReviewInv /\ UNCHANGED <<vars, panelVars>> => IInv' /\ ReviewInv'
    BY ReviewStutters
  <1>3. IInv /\ ReviewInv /\ [PanelNext]_<<vars, panelVars>> => IInv' /\ ReviewInv'
    BY <1>2, PanelStep
  <1> QED
    BY <1>1, <1>3, ReviewFollows, PTL DEF PanelSpec

\* The same of the two parts that the runs check together.
THEOREM PageCorrect == HistorySpec => []PageHolds
  <1>1. PanelInv => PageHolds
    BY ReviewFollows DEF PanelInv, PageHolds
  <1> QED
    BY <1>1, PanelInvariant, PTL
=============================================================================
