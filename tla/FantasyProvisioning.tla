------------------------- MODULE FantasyProvisioning ------------------------
(***************************************************************************)
(* The creation of a fantasy league: a form is sent                        *)
(* (src/app/fantasy/actions.ts), four capabilities are authorized at the   *)
(* same time, the sources are read in one transaction                      *)
(* (src/server/app/fantasy-experience-service.ts), the league, its first   *)
(* team and its player entries are made of them                            *)
(* (src/domain/fantasy-experience.ts), and a second transaction stores     *)
(* them (src/server/data/fantasy-experience-repository.ts).                *)
(***************************************************************************)
EXTENDS Authorization, Integers, Sequences

CONSTANTS
    Seasons,        \* by id: [tenant, players], the players on an active roster
    Listening,      \* enabled preferences of members for their whole account: [id, member, channel]
    Deadlines,      \* lineup deadlines that are entered, relative to the present
    MaxLeagues      \* bound

VARIABLES
    form,           \* the submission
    leagues         \* stored workspaces, a sequence

F == INSTANCE FantasyDomain

Needed == {"fantasy.league.manage", "fantasy.league.activate", "fantasy.team.manage",
           "fantasy.roster.manage"}

ProvisioningAssumption ==
    /\ Needed \subseteq Requests /\ {MaxEnded, MaxLeagues} \subseteq Nat
    /\ \A p \in Listening : p.id \in Nat /\ p.member \in DOMAIN Members
    /\ \A p, q \in Listening : p.id = q.id => p = q
    /\ \A a \in DOMAIN Assignments :
           Assignments[a].member \in DOMAIN Members /\ Assignments[a].source \in {"ROLE", "GRANT"}
    /\ Rows \cap DOMAIN Assignments = {}

-----------------------------------------------------------------------------
(* What is made.  Every instant is that of the submission.                 *)

Present == 0

\* createPlatformFantasyModel
Platform ==
    [owner |-> [kind |-> "PLATFORM", id |-> Nothing],
     weights |-> [runs |-> 1000, hits |-> 1000, homeRuns |-> 3000, runsBattedIn |-> 1000,
                  strikeouts |-> 1000, earnedRuns |-> -1000],
     positions |-> {"UTIL"}, slots |-> [UTIL |-> [count |-> 4, positions |-> {"UTIL"}]],
     bench |-> 4, maximum |-> 8]

Then(to, models) == UNION {F!TransitionModel(m, to) : m \in models}
PlatformModels == Then("ACTIVE", Then("REVIEWED", F!NewModel(Platform)))

\* domainAuthority
DomainAuthority(context, scope) ==
    [account |-> context.tenant, actor |-> context.user, source |-> "ACCOUNT_PERMISSION",
     capability |-> context.capability, scope |-> scope, references |-> context.references]

Authority(capability) ==
    DomainAuthority(checks[capability],
                    IF capability = "fantasy.league.manage" THEN F!WholeAccount
                    ELSE F!WholeLeague("league"))

ActiveLeagues(account, model) ==
    UNION {F!TransitionFantasyLeague(l, "ACTIVE", Present, Authority("fantasy.league.activate"), model) :
           l \in F!CreateFantasyLeague(
                    [id |-> "league", account |-> account, administration |-> Nothing, at |-> Present],
                    model, Authority("fantasy.league.manage"))}

ActiveTeams(league, owner) ==
    UNION {F!TransitionFantasyTeam(t, league, "ACTIVE", Present, Authority("fantasy.team.manage")) :
           t \in F!CreateFantasyTeam(
                    [id |-> "team", account |-> league.account, league |-> league.id,
                     owner |-> owner, at |-> Present],
                    league, Authority("fantasy.team.manage"))}

Entries(league, player) ==
    F!CreateFantasyPlayerEntry(
        [id |-> player, account |-> league.account, league |-> league.id, player |-> player,
         rules |-> league.rules, positions |-> {"UTIL"}, state |-> "AVAILABLE", team |-> Nothing,
         at |-> Present],
        league, Authority("fantasy.roster.manage"))

\* The first roster has four active and four bench slots, all of them open.
RosterFits(league) ==
    /\ F!Authorized(Authority("fantasy.roster.manage"), league.account, "fantasy.roster.manage",
                    league.id, "team")
    /\ 4 <= league.rules.slots["UTIL"].count /\ 4 <= league.rules.bench

\* provisionFantasyWorkspace: nothing, if one of its steps throws.
Workspaces(model, league, owner, players) ==
    {[league |-> league, model |-> model, team |-> t,
      entries |-> UNION {Entries(league, p) : p \in players}] :
        t \in {t \in ActiveTeams(league, owner) :
                RosterFits(league) /\ \A p \in players : Entries(league, p) # {}}}

Provisioned(account, owner, players) ==
    UNION {UNION {Workspaces(m, l, owner, players) : l \in ActiveLeagues(account, m)} :
           m \in PlatformModels}

\* parseFantasyWorkspaceSnapshot, when a stored workspace is read
Parses(w) ==
    /\ F!ValidRules(w.model.content) /\ w.league.rules = w.model.content
    /\ w.team.account = w.league.account /\ w.team.league = w.league.id

-----------------------------------------------------------------------------
(* A submission.                                                           *)

Submit(user, tenant, season, deadline) ==
    /\ form = Idle /\ Len(leagues) < MaxLeagues
    /\ form' = [stage |-> "authorizing", tenant |-> tenant, season |-> season, deadline |-> deadline]
    /\ checks' = [r \in Requests |->
           IF r \in Needed THEN Asked(user, [kind |-> "ACCOUNT", tenant |-> tenant], r) ELSE checks[r]]
    /\ UNCHANGED <<closed, withdrawn, leagues>>

Authorizing ==
    /\ form.stage = "authorizing" /\ \E r \in Needed : Authorize(r)
    /\ UNCHANGED <<form, leagues>>

\* A submission ends, and what it was allowed is dropped.
EndSubmission == form' = Idle /\ checks' = [r \in Requests |-> IF r \in Needed THEN Idle ELSE checks[r]]

Refuse ==
    /\ form.stage = "authorizing" /\ \E r \in Needed : checks[r].stage = "refused"
    /\ EndSubmission
    /\ UNCHANGED <<closed, withdrawn, leagues>>

Creator == checks["fantasy.league.manage"].member

\* provisioningSources: the season of the account and the membership, still active.
SourcesAreThere ==
    /\ \A r \in Needed : Trusted(checks[r], form.tenant, r) /\ checks[r].member = Creator
    /\ form.deadline > Present
    /\ Seasons[form.season].tenant = form.tenant
    /\ Creator \in DOMAIN Members \ closed

ReadSources ==
    /\ form.stage = "authorizing" /\ \A r \in Needed : checks[r].stage = "allowed"
    /\ \/ /\ SourcesAreThere
          /\ form' = [stage |-> "creating", tenant |-> form.tenant, season |-> form.season,
                      players |-> Seasons[form.season].players, seen |-> Ended]
          /\ UNCHANGED checks
       \/ ~ SourcesAreThere /\ EndSubmission
    /\ UNCHANGED <<closed, withdrawn, leagues>>

\* One preference for each channel is taken over from those for the whole account.
Inherited(member) ==
    {p \in Listening :
        /\ p.member = member
        /\ \A q \in Listening : q.member = member /\ q.channel = p.channel => p.id <= q.id}

Stored(w) ==
    [season |-> form.season, league |-> w.league, model |-> w.model, team |-> w.team, entries |-> w.entries,
     owner |-> Creator, told |-> Inherited(Creator), seen |-> form.seen,
     activation |-> checks["fantasy.league.activate"].references,
     before |-> checks["fantasy.league.activate"].before]

CreateWorkspace ==
    /\ form.stage = "creating"
    /\ LET made == Provisioned(form.tenant, Creator, form.players)
       IN  \/ made = {} /\ UNCHANGED leagues
           \/ \E w \in made : leagues' = Append(leagues, Stored(w))
    /\ EndSubmission
    /\ UNCHANGED <<closed, withdrawn>>

-----------------------------------------------------------------------------
ProvisioningInit ==
    AuthorizationInit /\ form = Idle /\ leagues = << >>

ProvisioningNext ==
    \/ \E u \in Users, t \in Tenants, s \in DOMAIN Seasons, d \in Deadlines : Submit(u, t, s, d)
    \/ Authorizing \/ Refuse \/ ReadSources \/ CreateWorkspace
    \/ RowsChange /\ UNCHANGED <<form, leagues>>

-----------------------------------------------------------------------------
\* A stored league is about a season of its account, has an owner who was a member when the
\* sources were read and could use the account when the form was sent, was activated by two assignments or more that permitted
\* just that, none of them withdrawn before, can be read back, and tells its owner at most
\* once over a channel.
LeaguesAreFounded ==
    \A i \in DOMAIN leagues :
        LET w == leagues[i]
        IN  /\ w.owner \in DOMAIN Members \ w.seen
            /\ {Members[w.owner].user, Members[w.owner].tenant, w.owner} \cap w.before = {}
            /\ {Members[w.owner].tenant, Seasons[w.season].tenant} = {w.league.account}
            /\ w.team.owner = w.owner
            /\ w.league.stage = "ACTIVE" /\ w.team.stage = "ACTIVE" /\ Parses(w)
            /\ Cardinality(w.activation) >= 2
            /\ \A a \in w.activation :
                   /\ Assignments[a].member = w.owner /\ a \notin w.before
                   /\ "fantasy.league.activate" \in
                          (IF Assignments[a].source = "ROLE" THEN RoleCapabilities[Assignments[a].holds]
                           ELSE {Assignments[a].holds})
            /\ \A p, q \in w.told : p.member = w.owner /\ (p.channel = q.channel => p = q)
=============================================================================
