---------------------------- MODULE CorrectionPanel ----------------------------
(***************************************************************************)
(* The review page of a game: the list of recent plays, the preview of a   *)
(* correction, its confirmation and the reopening of a verified game       *)
(* (src/features/scoring/scoring-corrections.ts,                           *)
(* src/components/scoring/scoring-corrections-panel.tsx and the actions    *)
(* of src/app/games/score/actions.ts that they call).                      *)
(*                                                                         *)
(* A page shows the game at a revision, which is a prefix of the history.  *)
(* A render gives it one set of identities for whatever it submits; a      *)
(* refresh brings a new revision and new identities and keeps the preview, *)
(* because the panel stays mounted.  Identities are told apart by the      *)
(* number of the first request that carried them.                          *)
(*                                                                         *)
(* Abstracted: accounts and grants (Sessions), reason codes, actors and    *)
(* texts; a preview is a read of one history, so it is one step.           *)
(***************************************************************************)
EXTENDS GameStatistics

CONSTANTS
    Pages,       \* open pages
    PageSize,    \* entries listed on a page
    Judgments,   \* bound: outcomes tried as replacements
    MaxRequests  \* bound: requests sent

VARIABLES
    page,     \* what a page holds: [revision, at, keys, preview]
    request,  \* the requests ever sent, and who still waits for each
    charge,   \* rate-limit charges, each known by class and key
    origin    \* per accepted event the request it came with, or 0

panelVars == <<page, request, charge, origin>>

\* What the configuration of a page and the bounds may be.  Bodies are records, and the
\* page submits one of them itself.
ASSUME PanelAssumption ==
    /\ PageSize \in Nat \ {0} /\ MaxRequests \in Nat
    /\ Judgments \subseteq DOMAIN BatterDestination
    /\ [type |-> "GameReopened"] \in Bodies
    /\ \A b \in Bodies : b.type = "PlateAppearanceRecorded" =>
          {"type", "batter", "outcome", "to", "counts", "judgment", "rbi", "putouts"} \subseteq DOMAIN b

NoPreview == [revision |-> 0, body |-> None]

-----------------------------------------------------------------------------
(* The list of recent plays *)

\* The events a history shows; those in effect are not suppressed.
Correctable == Replaceable
Listed(h)   == {i \in DOMAIN h : h[i].type \in Correctable \/ IsCorrection(h[i])}
Current(h)  == DOMAIN h \ Resolve(h).suppressed

\* The corrections whose targets and replacements the list reads.
CorrectionsEver(h)     == CorrectionsOf(h)
CorrectionsInForce(h)  == CorrectionsOf(h) \cap Current(h)
Naming(h, i) == {c \in CorrectionsInForce(h) : i \in h[c].targets}
Latest(cs)   == CHOOSE c \in cs : \A d \in cs : d <= c

\* correctedOutcome: the judgment in place of an event, if any.
CorrectedTo(h, i) == IF Naming(h, i) = {} THEN <<h[i]>> ELSE h[Latest(Naming(h, i))].with
Status(h, i) == IF i \in Current(h) THEN "CURRENT" ELSE "SUPERSEDED"

\* historicalStates: the game before the event was accepted, and after.
At(h, i)    == CHOOSE s \in Replay(SubSeq(h, 1, i)) : TRUE
ScoreEffect(h, i) ==
    LET before == At(h, i - 1).score
        after  == At(h, i).score
    IN  [side \in Sides |-> after[side] - before[side]]

\* A page lists ten entries at a time, the newest first.
Newer(h, i)    == Cardinality({j \in Listed(h) : j > i})
PageCount(h)   == (Cardinality(Listed(h)) + PageSize - 1) \div PageSize
OnPage(h, at)  == {i \in Listed(h) : Newer(h, i) \div PageSize = at}
PagesOf(h)     == IF Listed(h) = {} THEN {0} ELSE 0 .. PageCount(h) - 1
LastPage(h)    == IF Listed(h) = {} THEN 0 ELSE PageCount(h) - 1

\* buildCorrectionAudit: what a correction did to the verification of the game.
AuditEffect(h, c) ==
    LET before == SubSeq(h, 1, c - 1)
    IN  IF \E i \in DOMAIN before : before[i].type = "GameVerified" THEN "INVALIDATED"
        ELSE IF At(h, c - 1).status \in {"COMPLETED", "CORRECTED"} THEN "REQUIRED"
        ELSE "UNCHANGED"

-----------------------------------------------------------------------------
(* Drafts and previews *)

\* plateOutcomesByDestination: judgments that leave the batter where he went.
ReplacementOutcomes(b) ==
    IF b.type = "PlateAppearanceRecorded"
    THEN {o \in Judgments : BatterDestination[o] = b.to["BATTER"]} ELSE {}

\* replacementPlateAppearance: the same movements under another outcome; credits
\* give way to one error, to what is left of them, or to the paths of the outs.
Rejudged(b, outcome) ==
    [b EXCEPT !.outcome = outcome,
              !.putouts = CASE outcome = "REACHED_ON_ERROR"       -> 0
                            [] BatterDestination[outcome] = "OUT" -> @
                            [] OTHER                              -> Cardinality(Outs(b.to))]

\* buildCorrectionPayload, for an event that the list offers.
Drafts(h, i) ==
    {Reversal({i})} \cup {Replacement({i}, <<Rejudged(h[i], o)>>) : o \in ReplacementOutcomes(h[i])}

\* previewCorrection: replay and statistics with and without the correction.
StatusOf(h)       == At(h, Len(h)).status
Calculates(h, e)  ==
    /\ StatusOf(h) \in {"IN_PROGRESS", "COMPLETED", "CORRECTED"}
    /\ HasBoxScore(h)
    /\ Replay(Append(h, e)) # {} /\ HasBoxScore(Append(h, e))
PreviewEffect(h)  == IF StatusOf(h) = "IN_PROGRESS" THEN "UNCHANGED" ELSE "REQUIRED"

-----------------------------------------------------------------------------
(* The page *)

Shown(p)  == SubSeq(history, 1, page[p].revision)
Waits(p, type) == \E n \in DOMAIN request : request[n].by = p /\ request[n].body.type = type

Rendered(revision, at, preview) ==
    [revision |-> revision, at |-> at, keys |-> 0, preview |-> preview]

PanelInit ==
    /\ Init
    /\ page = [p \in Pages |-> Rendered(0, 0, NoPreview)]
    /\ request = <<>> /\ charge = {} /\ origin = <<>>

\* The page is rendered anew while the panel stays mounted: router.refresh and the
\* revalidation by an action.
RefreshDropsPreview(p, h) == [page EXCEPT ![p] = Rendered(Len(h), 0, NoPreview)]
Refreshed(p, h) ==
    [page EXCEPT ![p] = Rendered(Len(h), IF @.at \in PagesOf(h) THEN @.at ELSE LastPage(h), @.preview)]

\* The page is loaded, or left after its connection failed: nothing of it is kept.
Open(p) ==
    /\ page' = [page EXCEPT ![p] = Rendered(Len(history), 0, NoPreview)]
    /\ request' = [n \in DOMAIN request |->
                      IF request[n].by = p THEN [request[n] EXCEPT !.by = None] ELSE request[n]]
    /\ UNCHANGED <<vars, charge, origin>>

\* "Older plays", "Newer plays": the panel stays mounted.
Turn(p) ==
    \E at \in PagesOf(history) \ {page[p].at} :
        /\ page' = [page EXCEPT ![p] = Rendered(Len(history), at, @.preview)]
        /\ UNCHANGED <<vars, request, charge, origin>>

\* Select a current event of the page, and preview a correction of it: refused
\* when the history has moved on, or the corrected game does not replay.
Selectable(p) == OnPage(Shown(p), page[p].at) \cap Current(Shown(p))
Preview(p) ==
    /\ StatusOf(Shown(p)) \in {"IN_PROGRESS", "COMPLETED", "CORRECTED"}
    /\ \E i \in Selectable(p) : \E e \in Drafts(Shown(p), i) :
         page' = [page EXCEPT ![p].preview =
                    IF page[p].revision = Len(history) /\ Calculates(history, e)
                    THEN [revision |-> Len(history), body |-> e] ELSE NoPreview]
    /\ UNCHANGED <<vars, request, charge, origin>>

\* A form is sent: it carries the revision and the identities of the render.
Send(p, body, reviewed) ==
    LET key == IF page[p].keys = 0 THEN Len(request) + 1 ELSE page[p].keys
    IN  /\ Len(request) < MaxRequests /\ ~Waits(p, body.type)
        /\ request' = Append(request,
              [by |-> p, key |-> key, body |-> body, revision |-> page[p].revision,
               reviewed |-> reviewed, answer |-> "SENT"])
        /\ page' = [page EXCEPT ![p].keys = key]
        /\ UNCHANGED <<vars, charge, origin>>

\* "Accept correction", shown as long as there is a preview.
Confirm(p) ==
    page[p].preview # NoPreview /\ Send(p, page[p].preview.body, page[p].preview.revision)

\* "Reopen for correction"
Reopen(p) ==
    StatusOf(Shown(p)) = "VERIFIED" /\ Send(p, [type |-> "GameReopened"], page[p].revision)

-----------------------------------------------------------------------------
(* The server *)

Answer(n, answer) == request' = [request EXCEPT ![n].answer = answer]

\* The check of a correction against the history, its preview once more when the
\* revision is the expected one, and the charge of the request under its key.
Class(n) == IF IsCorrection(request[n].body) THEN "CORRECTION_VERIFICATION" ELSE "SCORING_MUTATION"
Fingerprint(n) ==
    [class |-> Class(n), key |-> request[n].key, body |-> request[n].body,
     revision |-> request[n].revision]
SameOperation(c, d) == c.class = d.class /\ c.key = d.key
Checks(n) ==
    \/ ~IsCorrection(request[n].body) \/ request[n].revision # Len(history)
    \/ Calculates(history, request[n].body)
Examine(n) ==
    /\ request[n].answer = "SENT"
    /\ IF ~Checks(n) THEN Answer(n, "REFUSED") /\ charge' = charge
       ELSE IF \E c \in charge : SameOperation(c, Fingerprint(n)) /\ c # Fingerprint(n)
       THEN Answer(n, "CONFLICT") /\ charge' = charge
       ELSE Answer(n, "EXAMINED") /\ charge' = charge \cup {Fingerprint(n)}
    /\ UNCHANGED <<vars, page, origin>>

\* Acceptance (EventAcceptance has it in detail): the same submission again, another
\* one under its key, a revision that is not the newest, or a correction that does
\* not replay or has no box score.
Prior(n) == {i \in DOMAIN origin : origin[i] # 0 /\ request[origin[i]].key = request[n].key}
Acceptable(n) ==
    LET h == Append(history, request[n].body)
    IN  Replay(h) # {} /\ (IsCorrection(request[n].body) => HasBoxScore(h))
Done(n) == IF IsCorrection(request[n].body) THEN "RECORDED" ELSE "SUCCESS"
Admit(n) ==
    /\ request[n].answer = "EXAMINED"
    /\ \/ /\ Prior(n) # {}
          /\ Answer(n, IF \A i \in Prior(n) : history[i] = request[n].body THEN Done(n) ELSE "REFUSED")
          /\ UNCHANGED <<vars, origin>>
       \/ /\ Prior(n) = {} /\ request[n].revision # Len(history)
          /\ Answer(n, "STALE") /\ UNCHANGED <<vars, origin>>
       \/ /\ Prior(n) = {} /\ request[n].revision = Len(history) /\ ~Acceptable(n)
          /\ Answer(n, "REFUSED") /\ UNCHANGED <<vars, origin>>
       \/ /\ Prior(n) = {} /\ request[n].revision = Len(history) /\ Acceptable(n)
          /\ Accept(request[n].body) /\ origin' = Append(origin, n)
          /\ Answer(n, Done(n))
    /\ UNCHANGED <<page, charge>>

\* loadCorrectionResult, after the commit: an error when somebody was faster.
RecordedAt(n) == CHOOSE i \in Prior(n) : TRUE
LoadResult(n) ==
    /\ request[n].answer = "RECORDED"
    /\ Answer(n, IF RecordedAt(n) = Len(history) THEN "SUCCESS" ELSE "STALE")
    /\ UNCHANGED <<vars, page, charge, origin>>

\* The answer reaches the page: a success refreshes it, and so does an error that
\* says a correction was stale.
Hear(n) ==
    LET p == request[n].by
    IN  /\ p # None /\ request[n].answer \notin {"SENT", "EXAMINED", "RECORDED"}
        /\ request' = [request EXCEPT ![n].by = None]
        /\ page' = IF \/ request[n].answer = "SUCCESS"
                      \/ request[n].answer = "STALE" /\ IsCorrection(request[n].body)
                   THEN Refreshed(p, history) ELSE page
        /\ UNCHANGED <<vars, charge, origin>>

\* An event of another surface is accepted, from this page (which is refreshed, as
\* after a play that was refused as stale) or from elsewhere.
RecordHere(p) ==
    /\ page[p].revision = Len(history) /\ EventRecorded
    /\ origin' = Append(origin, 0) /\ page' = Refreshed(p, history')
    /\ UNCHANGED <<request, charge>>
RefusedHere(p) ==
    /\ page[p].revision # Len(history) /\ StatusOf(Shown(p)) = "IN_PROGRESS"
    /\ page' = Refreshed(p, history)
    /\ UNCHANGED <<vars, request, charge, origin>>
RecordElsewhere ==
    /\ EventRecorded /\ origin' = Append(origin, 0)
    /\ UNCHANGED <<page, request, charge>>

PanelNext ==
    \/ \E p \in Pages : \/ Open(p) \/ Turn(p) \/ Preview(p) \/ Confirm(p) \/ Reopen(p)
                        \/ RecordHere(p) \/ RefusedHere(p)
    \/ \E n \in DOMAIN request : Examine(n) \/ Admit(n) \/ LoadResult(n) \/ Hear(n)
    \/ RecordElsewhere

PanelSpec == PanelInit /\ [][PanelNext]_<<vars, panelVars>>

-----------------------------------------------------------------------------
(* Properties *)

\* The list tells what the game is made of: each play as it was recorded, or as
\* the correction in effect judges it, in the order of the history and without
\* the reversed ones, is what the accepted corrections ask for.
Originals == {i \in Listed(history) : ~IsCorrection(history[i])}
PlaysAmong(bodies) ==
    LET upTo[i \in 0 .. Len(bodies)] ==
          IF i = 0 THEN <<>>
          ELSE IF bodies[i].type \in Correctable THEN Append(upTo[i - 1], bodies[i]) ELSE upTo[i - 1]
    IN  upTo[Len(bodies)]
ReadsAsPlayed ==
    LET upTo[i \in 0 .. Len(history)] ==
          IF i = 0 THEN <<>>
          ELSE IF i \in Originals THEN upTo[i - 1] \o CorrectedTo(history, i) ELSE upTo[i - 1]
    IN  /\ upTo[Len(history)] = PlaysAmong(Intended(history))
        /\ \A i \in Originals : Status(history, i) = "SUPERSEDED" <=> Naming(history, i) # {}

\* The effects shown on the score add up to the score.
EffectsAddUp ==
    LET effect == [i \in Listed(history) |-> ScoreEffect(history, i)]
        upTo[i \in 0 .. Len(history)] ==
          IF i = 0 THEN [side \in Sides |-> 0]
          ELSE IF i \notin Listed(history) THEN upTo[i - 1]
          ELSE [side \in Sides |-> upTo[i - 1][side] + effect[i][side]]
    IN  upTo[Len(history)] = game.score

\* A correction accepted at the revision it was previewed at does to the
\* verification of the game what the preview announced, as the audit tells it.
ConfirmedNow(i) ==
    origin[i] # 0 /\ IsCorrection(history[i]) /\ request[origin[i]].reviewed = i - 1
AuditAgrees ==
    \A i \in DOMAIN origin : ConfirmedNow(i) =>
        (AuditEffect(history, i) = "UNCHANGED" <=> PreviewEffect(SubSeq(history, 1, i - 1)) = "UNCHANGED")

\* Whatever answers are lost and pages are refreshed with their preview, a request
\* called accepted is in the history, one called refused is not, and the same
\* correction is never in effect twice.
InHistory(n) == \E i \in DOMAIN origin : origin[i] = n
AnswersAreTrue ==
    /\ \A n \in DOMAIN request :
          /\ request[n].answer \in {"SUCCESS", "RECORDED"} =>
                \E i \in Prior(n) : history[i] = request[n].body
          /\ request[n].answer \in {"REFUSED", "CONFLICT"} => ~InHistory(n)
    /\ \A c, d \in Active(history) : history[c] = history[d] => c = d

\* The review of a game is true: its list, its effects, its audit, its answers.
ReviewHolds == ReadsAsPlayed /\ EffectsAddUp /\ AuditAgrees /\ AnswersAreTrue

\* docs/SCORING_CORRECTION_UX.md:93 "Any source-revision change requires a fresh
\* history load, preview, and confirmation.": a correction is accepted only at the
\* revision that its preview was calculated for.
ConfirmedAsPreviewed ==
    \A i \in DOMAIN origin :
        origin[i] # 0 /\ IsCorrection(history[i]) => request[origin[i]].reviewed = i - 1
=============================================================================
