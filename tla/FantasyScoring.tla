---------------------------- MODULE FantasyScoring ----------------------------
(***************************************************************************)
(* Results of one scoring period of a fantasy league: the team results,    *)
(* the matchup that compares two of them, the standings over the matchup   *)
(* (src/domain/fantasy-scoring.ts), and the rows that keep every revision  *)
(* (PrismaFantasyExperienceRepository.appendResult).                       *)
(*                                                                         *)
(* A publisher reads the newest rows, calculates from them and from the    *)
(* statistics of the locked lineup, and appends later; another may have    *)
(* appended meanwhile.  Publishers agree on the id of an initial result.   *)
(* Abstracted: categories (a source is worth its points), the sealed model *)
(* and the identities every step compares, all of them equal here.         *)
(***************************************************************************)
EXTENDS Integers, Sequences, SequencesExt

CONSTANTS
    First, Second,   \* the teams of the matchup
    Filled,          \* of each team, the number of active slots with a player
    Points,          \* what a final source may be worth
    Phases,          \* the phases considered: "REGULAR_SEASON", "PLAYOFF", "CHAMPIONSHIP"
    Publishers,
    PeriodEnd, Deadline,
    LastInstant,     \* bound: instants are 0 .. LastInstant
    MaxRevision,     \* bound: the last revision of each target
    MaxChanges,      \* bound: changes of the statistics
    None

Sides == {First, Second}
Matchup == "matchup"
Standings == "standings"

\* Points are whole numbers, and may be negative.
ScoringAssumption ==
    /\ First # Second /\ {First, Second} \cap {Matchup, Standings} = {}
    /\ Filled \in [Sides -> Nat] /\ Points \subseteq Int
    /\ {PeriodEnd, Deadline, LastInstant, MaxChanges} \subseteq Nat

VARIABLES
    instant,
    source,      \* of each team and slot: [availability, points]
    changed,     \* number of changes of the statistics
    phase,
    rows,        \* of each target, its stored revisions
    calculated   \* what each publisher has calculated: None or [target, result]

scoringVars == <<instant, phase, source, changed, rows, calculated>>

Final == {"FINAL_VERIFIED", "CORRECTED_FINAL"}

ScoringInit ==
    /\ instant = 0 /\ changed = 0 /\ phase \in Phases
    /\ source = [t \in Sides |-> [s \in 1 .. Filled[t] |-> [availability |-> "INCOMPLETE_GAME", points |-> 0]]]
    /\ rows = [target \in Sides \cup {Matchup, Standings} |-> <<>>]
    /\ calculated = [p \in Publishers |-> None]

\* A game ends, its statistics are verified, an event of it is corrected, or a
\* verification is withdrawn.
Progress ==
    {<<"INCOMPLETE_GAME", "UNVERIFIED">>, <<"INCOMPLETE_GAME", "FINAL_VERIFIED">>,
     <<"UNVERIFIED", "FINAL_VERIFIED">>, <<"FINAL_VERIFIED", "CORRECTED_FINAL">>,
     <<"CORRECTED_FINAL", "CORRECTED_FINAL">>, <<"FINAL_VERIFIED", "UNVERIFIED">>}

StatisticsChange(t, s, to, n) ==
    /\ changed < MaxChanges /\ <<source[t][s].availability, to>> \in Progress
    /\ to \notin Final => n = 0
    /\ [availability |-> to, points |-> n] # source[t][s]
    /\ source' = [source EXCEPT ![t][s] = [availability |-> to, points |-> n]]
    /\ changed' = changed + 1
    /\ UNCHANGED <<instant, phase, rows, calculated>>

-----------------------------------------------------------------------------
(* Calculation *)

\* Of the revisions of a target.
Newest(target) == Last(rows[target])

Scored(t)   == {s \in 1 .. Filled[t] : source[t][s].availability \in Final}
Resolved(t) == Scored(t) = 1 .. Filled[t]

\* Slot by slot, those without a final statistic left out.
Total(t) ==
    LET total[n \in 0 .. Filled[t]] ==
            IF n = 0 THEN 0
            ELSE total[n - 1] + IF n \in Scored(t) THEN source[t][n].points ELSE 0
    IN  total[Filled[t]]

Gated(t) == instant < PeriodEnd \/ (~Resolved(t) /\ instant < Deadline)

TeamStatus(t, finalize) ==
    CASE finalize -> "FINAL"
      [] instant < PeriodEnd -> "IN_PROGRESS"
      [] ~Resolved(t) /\ instant < Deadline -> "AWAITING_FINAL_DATA"
      [] OTHER -> "READY"

\* What a revision needs of the one before it; the reason is given when one is due.
Follows(target, from, status) ==
    rows[target] # <<>> =>
        /\ instant > Newest(target).at
        /\ Newest(target).status = "FINAL" => status = "FINAL"
        /\ from # Newest(target).from \/ status # Newest(target).status

Revision(target) == IF rows[target] = <<>> THEN 0 ELSE Newest(target).revision + 1

Correction(target, from) ==
    rows[target] # <<>> /\ Newest(target).status = "FINAL" /\ from # Newest(target).from

Result(target, status, from, total, outcome, evidence) ==
    [revision |-> Revision(target), status |-> status, from |-> from, total |-> total,
     outcome |-> outcome, evidence |-> evidence, at |-> instant,
     correction |-> Correction(target, from)]

Hold(p, target, result) ==
    /\ calculated[p] = None /\ result.revision <= MaxRevision[target]
    /\ calculated' = [calculated EXCEPT ![p] = [target |-> target, result |-> result]]
    /\ UNCHANGED <<instant, phase, source, changed, rows>>

CalculateTeam(p, t, finalize) ==
    /\ finalize => ~Gated(t)
    /\ LET status == TeamStatus(t, finalize)
       IN  /\ Follows(t, source[t], status)
           /\ Hold(p, t, Result(t, status, source[t], Total(t), None, Scored(t)))

Outcome(a, b) ==
    CASE a.total > b.total -> "FIRST_WIN"
      [] a.total < b.total -> "SECOND_WIN"
      [] a.total = b.total /\ phase = "REGULAR_SEASON" -> "TIE"
      [] OTHER -> "FIRST_WIN"       \* First has the higher predeclared seed

\* (Mutant: one final result closes the matchup.)
EitherFinal(a, b) == IF a.status = "FINAL" \/ b.status = "FINAL" THEN "FINAL" ELSE "IN_PROGRESS"

MatchupStatus(a, b) == IF a.status = "FINAL" /\ b.status = "FINAL" THEN "FINAL" ELSE "IN_PROGRESS"

CalculateMatchup(p) ==
    LET a == Newest(First)
        b == Newest(Second)
    IN  /\ rows[First] # <<>> /\ rows[Second] # <<>>
        /\ LET status == MatchupStatus(a, b)
               from == [first |-> a.revision, second |-> b.revision]
           IN  /\ Follows(Matchup, from, status)
               /\ Hold(p, Matchup,
                       Result(Matchup, status, from, 0,
                              IF status = "FINAL" THEN Outcome(a, b) ELSE "UNRESOLVED",
                              a.evidence \cup b.evidence))

\* Of one matchup: it counts when it is final; a season that is over has no other.
CalculateStandings(p, seasonComplete) ==
    LET m == Newest(Matchup)
    IN  /\ rows[Matchup] # <<>> /\ phase = "REGULAR_SEASON"
        /\ LET status == IF seasonComplete /\ m.status = "FINAL" THEN "FINAL" ELSE "IN_PROGRESS"
               from == [matchup |-> m.revision, complete |-> seasonComplete]
           IN  /\ Follows(Standings, from, status)
               /\ Hold(p, Standings, Result(Standings, status, from, 0, m.outcome, m.evidence))

-----------------------------------------------------------------------------
(* Storage *)

\* (Mutant: no unique index.)
AppendableAfterAny(target, result) == Len(rows[target]) >= result.revision

\* FantasyResultSnapshot_fantasyLeagueId_kind_logicalId_revision_key; the row before it
Appendable(target, result) == Len(rows[target]) = result.revision

\* FantasyResultSnapshot_values_check: some statistic must have been scored
Storable(result) == result.evidence # {}

AppendResult(p) ==
    /\ calculated[p] # None
    /\ LET target == calculated[p].target
           result == calculated[p].result
       IN  /\ Appendable(target, result) /\ Storable(result)
           /\ rows' = [rows EXCEPT ![target] = Append(@, result)]
    /\ calculated' = [calculated EXCEPT ![p] = None]
    /\ UNCHANGED <<instant, phase, source, changed>>

\* The transaction is refused, and the publisher starts over.
RefuseResult(p) ==
    /\ calculated[p] # None
    /\ ~(Appendable(calculated[p].target, calculated[p].result) /\ Storable(calculated[p].result))
    /\ calculated' = [calculated EXCEPT ![p] = None]
    /\ UNCHANGED <<instant, phase, source, changed, rows>>

InstantPasses ==
    /\ instant < LastInstant /\ instant' = instant + 1
    /\ UNCHANGED <<phase, source, changed, rows, calculated>>

ScoringNext ==
    \/ \E t \in Sides : \E s \in 1 .. Filled[t], to \in Final \cup {"UNVERIFIED"}, n \in Points :
          StatisticsChange(t, s, to, n)
    \/ \E p \in Publishers :
          \/ CalculateMatchup(p) \/ AppendResult(p) \/ RefuseResult(p)
          \/ \E t \in Sides, b \in BOOLEAN : CalculateTeam(p, t, b)
          \/ \E b \in BOOLEAN : CalculateStandings(p, b)
    \/ InstantPasses

-----------------------------------------------------------------------------
(* Properties *)

\* The revisions of a result are a history: none rests on older results than the one
\* before it, however slow the publisher that appended it, and once one is final the
\* next are, each saying when it corrects what it follows.
ResultsAreHistory ==
    /\ \A target \in DOMAIN rows : \A n \in 1 .. Len(rows[target]) - 1 :
          LET old == rows[target][n]
              new == rows[target][n + 1]
          IN  /\ new.revision = n /\ new.at > old.at
              /\ old.status = "FINAL" => new.status = "FINAL" /\ new.correction = (new.from # old.from)
    /\ \A n \in 1 .. Len(rows[Matchup]) - 1 :
          LET old == rows[Matchup][n].from
              new == rows[Matchup][n + 1].from
          IN  old.first <= new.first /\ old.second <= new.second
    /\ \A n \in 1 .. Len(rows[Standings]) - 1 :
          rows[Standings][n].from.matchup <= rows[Standings][n + 1].from.matchup

\* A final matchup, and final standings, rest on final results and say of them who won.
FinalRestsOnFinal ==
    /\ \A m \in ToSet(rows[Matchup]) : m.status = "FINAL" =>
          LET a == rows[First][m.from.first + 1]
              b == rows[Second][m.from.second + 1]
          IN  /\ a.status = "FINAL" /\ b.status = "FINAL"
              /\ (m.outcome = "SECOND_WIN") = (a.total < b.total)
              /\ (m.outcome = "TIE") = (a.total = b.total /\ phase = "REGULAR_SEASON")
    /\ \A s \in ToSet(rows[Standings]) : s.status = "FINAL" =>
          rows[Matchup][s.from.matchup + 1].status = "FINAL"
===============================================================================
