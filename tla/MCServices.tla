------------------------------ MODULE MCServices ------------------------------
(***************************************************************************)
(* Instances for TLC of the services that stand beside the engine: browser *)
(* sessions, sign-in, rate limits, set-up with configuration, external     *)
(* ingestion and reports.  They share no state in the code, so a behaviour *)
(* is one of one service and leaves the others in an initial state.        *)
(***************************************************************************)
EXTENDS Naturals, Sequences, TLC

CONSTANTS
    None, Service,
    Requests, Rotation, Grace, IdleLimit, Absolute, Flight, MaxClock,
    Identities, Users, UserOf(_), MaxAttempts, MaxCallbacks,
    Actors, Keys, Costs, Policies, Overrides, WindowLength, ChargeLife, MaxInstant, Scenarios,
    Processes, Values, Default, CacheTtl, CallTime, LastInstant, Plans, Administrators, MaxCrashes,
    Runs, MaxVersion, MaxWait, MaxFaults,
    Games, Bounds

VARIABLES
    service,
    session, cookie, request, clock, lostReply,
    attempt, callback, owner, active, disabled, opened, linkedBy,
    policyVersion, counter, charge, override, instant, left, admitted, chargedAt,
    revisions, cache, plan, call, time, setup, knownReady, crashes,
    feed, latest, source, run, work, record, malformed, faults, overlapped,
    records, ready, history, checkpoint, overlay, reader

S == INSTANCE Sessions WITH Idle <- IdleLimit
I == INSTANCE SignIn
R == INSTANCE RateLimits
C == INSTANCE InstallationSetup
E == INSTANCE ExternalIngestion
G == INSTANCE GameReports

sessionVars == <<session, cookie, request, clock, lostReply>>
signInVars  == <<attempt, callback, owner, active, disabled, opened, linkedBy>>
rateVars == <<policyVersion, counter, charge, override, instant, left, admitted, chargedAt>>
setupVars == <<revisions, cache, plan, call, time, setup, knownReady, crashes>>
ingestionVars == <<feed, latest, source, run, work, record, malformed, faults, overlapped>>
reportVars == <<records, ready, history, checkpoint, overlay, reader>>
vars == <<service, sessionVars, signInVars, rateVars, setupVars, ingestionVars, reportVars>>

\* Choices of a service that is not looked at are pinned.
Init ==
    /\ service \in Service
    /\ S!SessionInit /\ I!SignInInit /\ R!RateInit /\ C!SetupInit /\ E!Init
    /\ G!ReportInit
    /\ service # "rates" => policyVersion = 1 /\ left = CHOOSE s \in Scenarios : TRUE
    /\ service # "setup" => plan = <<"configure", "configure">>
    /\ service # "ingestion" => feed = [v \in 1 .. MaxVersion |-> "CORRECTION"]
    /\ service # "reports" => reader = G!Asked("BOX")

Next ==
    \/ /\ service = "sessions" /\ S!SessionNext
       /\ UNCHANGED <<service, signInVars, rateVars, setupVars, ingestionVars, reportVars>>
    \/ /\ service = "signIn" /\ I!SignInNext
       /\ UNCHANGED <<service, sessionVars, rateVars, setupVars, ingestionVars, reportVars>>
    \/ /\ service = "rates" /\ R!RateNext
       /\ UNCHANGED <<service, sessionVars, signInVars, setupVars, ingestionVars, reportVars>>
    \/ /\ service = "setup" /\ C!SetupNext
       /\ UNCHANGED <<service, sessionVars, signInVars, rateVars, ingestionVars, reportVars>>
    \/ /\ service = "ingestion" /\ E!Next
       /\ UNCHANGED <<service, sessionVars, signInVars, rateVars, setupVars, reportVars>>
    \/ /\ service = "reports" /\ G!ReportNext
       /\ UNCHANGED <<service, sessionVars, signInVars, rateVars, setupVars, ingestionVars>>

Spec == Init /\ [][Next]_vars

-----------------------------------------------------------------------------
(* What the proofs assume of the constants *)

\* A request is answered within half the time for which a rotated token is accepted, and
\* within half the time between two rotations.
SessionAssumption ==
    /\ Rotation \in Nat /\ Grace \in Nat /\ IdleLimit \in Nat /\ Absolute \in Nat
    /\ Flight \in Nat /\ MaxClock \in Nat
    /\ 2 * Flight < Grace /\ 2 * Flight < Rotation
    /\ None \notin Nat /\ None \notin {"EXPIRED", "USER_SIGN_OUT", "expire", "rotate", "touch"}

SignInAssumption ==
    /\ None \notin Users
    /\ \A i \in Identities : UserOf(i) \in Users

BothLimits == [actorLimit : Nat, accountLimit : Nat]
RateAssumption ==
    /\ None \notin Actors /\ None \notin Nat
    /\ Costs \subseteq Nat
    /\ WindowLength \in Nat \ {0} /\ ChargeLife \in Nat /\ MaxInstant \in Nat
    /\ None \notin [cost : Costs, expiresAt : Nat]
    /\ \A v \in DOMAIN Policies : Policies[v] \in BothLimits
    /\ Overrides \subseteq [limits : BothLimits, life : Nat]

SetupAssumption ==
    /\ CacheTtl \in Nat /\ CallTime \in Nat
    /\ None \notin Administrators /\ Administrators # {}

VersionRows == [status : E!Statuses, correctionOf : E!Versions \cup {None}]
IngestionAssumption ==
    /\ None \notin Nat /\ MaxVersion \in Nat /\ MaxWait \in Nat
    /\ None \notin VersionRows

\* The records there are at first are complete: what a record names is there, and a
\* ready game has its records.
SectionNames == {"teams", "seasons", "teamSeasons", "players", "rosters", "rulesets", "games"}
ReportKinds  == {"BOX", "SEASON", "EXPORT", "RECONCILE"}
Whole(recs, rdy) ==
    /\ recs \subseteq SectionNames \X Games /\ rdy \subseteq Games
    /\ \A s \in SectionNames, g \in Games :
          <<s, g>> \in recs => \A t \in G!Named[s] : <<t, g>> \in recs
    /\ \A g \in rdy : <<"games", g>> \in recs /\ <<"rulesets", g>> \in recs
ReportAssumption ==
    \A k \in ReportKinds :
        /\ Whole(Bounds[k].records, Bounds[k].ready)
        /\ \A g \in Games : Bounds[k].events[g] \in Nat

ASSUME ServicesAssumption ==
    /\ SessionAssumption /\ SignInAssumption /\ RateAssumption
    /\ SetupAssumption /\ IngestionAssumption /\ ReportAssumption

-----------------------------------------------------------------------------
(* The instance *)

Sym == Permutations(Processes) \cup Permutations(Values)

UserNamed(i) == i
\* Game 2 is partly recorded when an export begins.
AllSections == {"teams", "seasons", "teamSeasons", "players", "rosters", "rulesets", "games"}
Report(made, parts, first, second) ==
    [ready |-> made,
     records |-> (AllSections \X made) \cup (parts \X {2}),
     events |-> (1 :> first) @@ (2 :> second), erasures |-> 1]
ReportBounds ==
    [BOX |-> Report({1}, {}, 4, 0), RECONCILE |-> Report({1}, {}, 3, 0),
     SEASON |-> Report({1, 2}, {}, 3, 1),
     EXPORT |-> Report({1}, {"teams", "players", "rulesets"}, 2, 0)]
Limits(actor, account) == [actorLimit |-> actor, accountLimit |-> account]
TwoPolicies == <<Limits(1, 2), Limits(2, 2)>>
TwoGrants   == {[limits |-> Limits(2, 3), life |-> 1], [limits |-> Limits(1, 1), life |-> 2]}
QuotaScenarios == {[decisions |-> 3, grants |-> 1], [decisions |-> 1, grants |-> 2]}
AllPlans ==
    {<<"seed", "save", "rollback">>, <<"seed", "save", "save">>, <<"seed", "save", "preload">>,
     <<"seed", "seed", "refresh">>,
     <<"configure", "configure">>, <<"configure", "complete", "runtime">>}

-----------------------------------------------------------------------------
(* The properties of the services *)

\* Browser sessions and sign-in: the browser keeps a live session through rotations; a
\* callback opens one session however often it arrives, for the owner of the identity,
\* and links are made for live sessions only.
AuthenticationHolds ==
    /\ service = "sessions" => S!SessionTypeOK /\ S!CookieFollowsSession
    /\ service = "signIn" => /\ I!SignInTypeOK /\ I!OneSessionPerAttempt
                             /\ I!SessionNamesOwner /\ I!LinkedByLiveSession

\* Configuration: no save is lost, no process works with a copy of an old revision, and
\* a system that is set up has its administrator and its values.
ConfigurationHolds ==
    service = "setup" =>
        C!SetupTypeOK /\ C!NoLostUpdate /\ C!CopyIsRecent /\ C!ReadyIsConfigured

\* Ingestion: nothing behind the checkpoint is skipped, the lineage is a chain.
\* Reports: what is returned shows its games at one moment of the reading, agrees with
\* the other reports, and an export can be imported elsewhere.
DataHolds ==
    /\ service = "ingestion" => E!TypeOK /\ E!NothingSkipped /\ E!Chain
    /\ service = "reports" => G!ReportsHold

\* What a step may never do: issue a token for a session that has ended, admit more than
\* the limits in force, charge an operation twice, undo the set-up.
ServiceStepsHold == S!NoTokenAfterEnd /\ R!AdmittedWithinLimit /\ R!ChargedOnce /\ C!SetupIsKept
=============================================================================
