---------------------------- MODULE FantasyDomain ---------------------------
(***************************************************************************)
(* Fantasy leagues, teams and player entries as values                     *)
(* (src/domain/fantasy-domain.ts) and the rules they are bound to          *)
(* (fantasy-rules.ts): functions of values and an authority.  A function   *)
(* that throws is an operator whose value is the empty set, one that       *)
(* returns a value is the set of that value.  The roster snapshots of      *)
(* fantasy-domain.ts are in FantasyLeague.                                 *)
(*                                                                         *)
(* Names, seasons and visibilities are only carried along, and left out.   *)
(* The digest of a model is a function of all it says but its lifecycle:   *)
(* what it says, its content, stands for its ids, version and digest.      *)
(***************************************************************************)
EXTENDS Integers, FiniteSets, Functions

CONSTANT Nothing

-----------------------------------------------------------------------------
(* The rules.                                                              *)

\* What a model may say: every slot can be filled, and all of them fit on the roster.
ValidRules(c) ==
    /\ (c.owner.kind = "PLATFORM") = (c.owner.id = Nothing)
    /\ DOMAIN c.weights # {} /\ \A k \in DOMAIN c.weights : c.weights[k] # 0
    /\ DOMAIN c.slots # {}
    /\ \A s \in DOMAIN c.slots :
           c.slots[s].count >= 1 /\ c.slots[s].positions # {} /\ c.slots[s].positions \subseteq c.positions
    /\ SumFunction([s \in DOMAIN c.slots |-> c.slots[s].count]) + c.bench <= c.maximum

NewModel(c) == {m \in {[content |-> c, stage |-> "DRAFT"]} : ValidRules(c)}

ModelSteps ==
    {<<"DRAFT", "REVIEWED">>, <<"REVIEWED", "ACTIVE">>, <<"ACTIVE", "DEPRECATED">>,
     <<"DEPRECATED", "RETIRED">>}

TransitionModel(m, to) ==
    {n \in {[m EXCEPT !.stage = to]} : ValidRules(m.content) /\ <<m.stage, to>> \in ModelSteps}

-----------------------------------------------------------------------------
(* The authority for a change: whose account, which capability, over what, *)
(* and the rows that it rests on.                                          *)

FantasyCapabilities ==
    {"fantasy.league.manage", "fantasy.league.activate", "fantasy.team.manage",
     "fantasy.roster.manage", "fantasy.scoring.calculate"}

WholeAccount == [kind |-> "ACCOUNT"]
WholeLeague(league) == [kind |-> "FANTASY_LEAGUE", league |-> league]

ScopeAllows(scope, league, team) ==
    \/ scope.kind = "ACCOUNT"
    \/ /\ league # Nothing /\ scope.league = league
       /\ scope.kind = "FANTASY_TEAM" => team # Nothing /\ scope.team = team

\* assertFantasyAuthority
Authorized(authority, account, capability, league, team) ==
    /\ authority.references # {}
    /\ authority.account = account
    /\ authority.capability = capability
    /\ ScopeAllows(authority.scope, league, team)
    /\ authority.source = "LEAGUE_DELEGATION" => Cardinality(authority.references) >= 3
    /\ capability = "fantasy.league.activate" => Cardinality(authority.references) >= 2

-----------------------------------------------------------------------------
(* Leagues.  since[s] is the instant of the change to the stage s, Nothing *)
(* if there was none; the creation is the change to DRAFT.                 *)

Since(stages, at) == [s \in stages |-> IF s = "DRAFT" THEN at ELSE Nothing]

Moved(value, to, at) ==
    [value EXCEPT !.stage = to, !.revision = @ + 1, !.since[to] = at]

OwnerAllowed(account, administration, owner) ==
    \/ owner.kind = "PLATFORM"
    \/ owner.kind = "ACCOUNT" /\ owner.id = account
    \/ /\ administration # Nothing
       /\ \/ owner.kind = "ORGANIZATION" /\ administration.organization = owner.id
          \/ owner.kind = "LEAGUE" /\ administration.league = owner.id

LeagueStages == {"DRAFT", "ACTIVE", "COMPLETED", "ARCHIVED"}

CreateFantasyLeague(input, model, authority) ==
    {l \in {[id |-> input.id, account |-> input.account, rules |-> model.content, stage |-> "DRAFT",
             revision |-> 0, since |-> Since(LeagueStages, input.at)]} :
        /\ Authorized(authority, input.account, "fantasy.league.manage", Nothing, Nothing)
        /\ ValidRules(model.content)
        /\ model.stage \in {"REVIEWED", "ACTIVE"}
        /\ OwnerAllowed(input.account, input.administration, model.content.owner)}

LeagueSteps ==
    {<<"DRAFT", "ACTIVE">>, <<"DRAFT", "ARCHIVED">>, <<"ACTIVE", "COMPLETED">>,
     <<"COMPLETED", "ARCHIVED">>}

\* rulesBinding, bindingMatchesModel
BoundTo(league, model) == ValidRules(model.content) /\ model.content = league.rules

TransitionFantasyLeague(league, to, at, authority, model) ==
    {l \in {Moved(league, to, at)} :
        /\ Authorized(authority, league.account,
                      IF league.stage = "DRAFT" /\ to = "ACTIVE" THEN "fantasy.league.activate"
                      ELSE "fantasy.league.manage",
                      league.id, Nothing)
        /\ <<league.stage, to>> \in LeagueSteps
        /\ at >= league.since["DRAFT"]
        /\ BoundTo(league, model)
        /\ to = "ACTIVE" => model.stage = "ACTIVE"}

-----------------------------------------------------------------------------
(* Teams and player entries.                                               *)

InLeague(input, league) == input.account = league.account /\ input.league = league.id
Open(league) == league.stage \notin {"COMPLETED", "ARCHIVED"}

TeamStages == {"DRAFT", "ACTIVE", "WITHDRAWN", "ARCHIVED"}

CreateFantasyTeam(input, league, authority) ==
    {t \in {[id |-> input.id, account |-> input.account, league |-> input.league,
             owner |-> input.owner, stage |-> "DRAFT", revision |-> 0,
             since |-> Since(TeamStages, input.at)]} :
        /\ Authorized(authority, input.account, "fantasy.team.manage", input.league, Nothing)
        /\ InLeague(input, league) /\ Open(league) /\ input.at >= league.since["DRAFT"]}

TeamSteps ==
    {<<"DRAFT", "ACTIVE">>, <<"DRAFT", "ARCHIVED">>, <<"ACTIVE", "WITHDRAWN">>,
     <<"WITHDRAWN", "ARCHIVED">>}

\* (Mutant: a team is activated in a league that is not.)
TransitionAnyTeam(team, league, to, at, authority) ==
    {t \in {Moved(team, to, at)} :
        /\ Authorized(authority, team.account, "fantasy.team.manage", team.league, team.id)
        /\ InLeague(team, league)
        /\ <<team.stage, to>> \in TeamSteps
        /\ at >= team.since["DRAFT"]}

TransitionFantasyTeam(team, league, to, at, authority) ==
    {t \in {Moved(team, to, at)} :
        /\ Authorized(authority, team.account, "fantasy.team.manage", team.league, team.id)
        /\ InLeague(team, league)
        /\ <<team.stage, to>> \in TeamSteps
        /\ at >= team.since["DRAFT"]
        /\ to = "ACTIVE" => league.stage = "ACTIVE"}

OwnershipFits(input) == (input.state \in {"ROSTERED", "INACTIVE"}) = (input.team # Nothing)

\* The eligibility of an entry is sealed with the rules it was evaluated under.
CreateFantasyPlayerEntry(input, league, authority) ==
    {e \in {[id |-> input.id, account |-> input.account, league |-> input.league,
             player |-> input.player, rules |-> input.rules, positions |-> input.positions,
             state |-> input.state, team |-> input.team]} :
        /\ OwnershipFits(input)
        /\ Authorized(authority, input.account, "fantasy.roster.manage", input.league, input.team)
        /\ InLeague(input, league)
        /\ input.rules = league.rules
        /\ Open(league) /\ input.at >= league.since["DRAFT"]}
=============================================================================
