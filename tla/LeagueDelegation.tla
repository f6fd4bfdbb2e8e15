-------------------------- MODULE LeagueDelegation --------------------------
(***************************************************************************)
(* The delegation of an account's fantasy league to a member of an         *)
(* organization: the decision whether a member may use a capability        *)
(* (src/domain/league-delegation.ts) and the use of an allowed decision as *)
(* the authority for changes of a league and a team (fantasy-domain.ts).   *)
(*                                                                         *)
(* The rows that a decision rests on are administered elsewhere: their     *)
(* terms are constants, their status changes while the clock ticks.  Which *)
(* rows are presented as evidence is the caller's choice, and so is when   *)
(* an authority is used: nothing looks at the rows again.                  *)
(***************************************************************************)
EXTENDS FantasyDomain

CONSTANTS
    Organizations, Actors,
    Memberships,    \* organization memberships: [organization, user]
    Delegations,    \* [organization, account, approver, from, until]
    Grants,         \* [organization, membership, delegation, account, capability, scope, approver, from, until]
    Approvals,      \* [grant, capability, scope, kind, by, from, until]
    Targets, Asked, \* what the caller asks about, and which capabilities it asks for
    Owners,         \* accounts that the caller names
    Permitted,      \* authorities from the permissions of an account
    Rules,          \* the content of the league's rules
    LastMoment,     \* bound: instants are 0 .. LastMoment
    MaxAdministrations, MaxDelegated    \* bounds: changes of rows, authorities obtained

VARIABLES
    moment, standing,
    delegated,          \* the authorities obtained from allowed decisions
    models,             \* the objects of the rules that have been returned
    fantasyLeague, fantasyTeam,
    signed              \* ghost: which authority a change rested on

Moments == 0 .. LastMoment
Revocable == DOMAIN Delegations \cup DOMAIN Grants \cup DOMAIN Approvals
Rows == Organizations \cup DOMAIN Memberships \cup Revocable

Terms(rows) == \A r \in DOMAIN rows : rows[r].from \in Nat /\ rows[r].until \in Nat \cup {Nothing}

Leagues ==
    [id : {"league"}, account : Owners, rules : {Rules}, stage : LeagueStages, revision : Nat,
     since : [LeagueStages -> Nat \cup {Nothing}]]

DelegationAssumption ==
    /\ {LastMoment, MaxAdministrations, MaxDelegated} \subseteq Nat
    /\ Nothing \notin Rows \cup Owners \cup Actors \cup Nat \cup Leagues
    /\ Terms(Delegations) /\ Terms(Grants) /\ Terms(Approvals)
    /\ \A a \in Permitted : a.source = "ACCOUNT_PERMISSION" /\ a.capability \in FantasyCapabilities

-----------------------------------------------------------------------------
(* The policy: which kinds of scope a capability may be granted for,       *)
(* whether an account delegates it, and whether each use is approved.      *)

Allows == [
    ORGANIZATION |-> {"organization.view", "organization.members.manage",
        "organization.ownership.transfer", "organization.rulesets.manage",
        "organization.settings.manage", "fantasy.rules.manage", "fantasy.rules.activate"},
    LEAGUE |-> {"organization.rulesets.manage", "league.settings.manage",
        "fantasy.rules.manage", "fantasy.rules.activate"},
    ACCOUNT |-> FantasyCapabilities \cup {"ruleset.activate", "data.import.review",
        "data.import.commit", "report.export"},
    TEAM |-> {"team.view", "competition.settings.manage", "shared_resources.manage",
        "report.minimum_field.view", "ruleset.activate", "report.export"},
    SEASON |-> {"competition.settings.manage", "shared_resources.manage",
        "report.minimum_field.view", "ruleset.activate", "report.export"},
    GAME |-> {"report.minimum_field.view", "report.export", "game.correct", "game.verify"}]

DelegatedCapabilities == UNION {Allows[k] : k \in DOMAIN Allows}

AccountDelegated(c) == c \notin Allows["ORGANIZATION"] \cup Allows["LEAGUE"]

ApprovalRequired ==
    {"organization.ownership.transfer", "organization.rulesets.manage", "fantasy.rules.activate",
     "fantasy.league.activate", "ruleset.activate", "data.import.review", "data.import.commit",
     "report.export", "game.correct", "game.verify"}

-----------------------------------------------------------------------------
(* A scope and a target have the ids that are not null.                    *)

Named == [ORGANIZATION |-> {}, LEAGUE |-> {"league"}, ACCOUNT |-> {"delegation", "account"},
          TEAM |-> {"delegation", "account", "team"}, SEASON |-> {"delegation", "account", "season"},
          GAME |-> {"delegation", "account", "game"}]

ScopeIsWellFormed(scope) == DOMAIN scope.ids = Named[scope.kind]

TargetIsWellFormed(t) ==
    CASE t.kind \in {"ORGANIZATION", "LEAGUE", "ACCOUNT"} ->
             DOMAIN t.ids = Named[t.kind] /\ t.teams = {}
      [] t.kind = "TEAM" -> DOMAIN t.ids = Named["ACCOUNT"] /\ t.teams # {}
      [] t.kind = "SEASON" -> DOMAIN t.ids = Named["SEASON"]
      [] t.kind = "GAME" -> DOMAIN t.ids \in {Named["GAME"], Named["GAME"] \cup {"season"}}

ScopeMatches(scope, t) ==
    /\ scope.organization = t.organization
    /\ scope.kind \in {"ORGANIZATION", "LEAGUE"} => t.kind = scope.kind
    /\ scope.kind = "TEAM" => scope.ids["team"] \in t.teams
    /\ \A f \in DOMAIN scope.ids \ {"team"} : f \in DOMAIN t.ids /\ scope.ids[f] = t.ids[f]

IdOf(t, f) == IF f \in DOMAIN t.ids THEN t.ids[f] ELSE Nothing

-----------------------------------------------------------------------------
(* The decision, one group of rows after the other: OK, or why not.        *)

Revoked(row) ==
    \/ standing[row].status = "REVOKED"
    \/ standing[row].revokedAt # Nothing /\ standing[row].revokedAt <= moment

Expired(term) == term.until # Nothing /\ term.until <= moment

MemberVerdict(e, t) ==
    IF e.actor = Nothing THEN "AUTHENTICATION_REQUIRED"
    ELSE IF standing[e.organization].status # "ACTIVE" \/ e.organization # t.organization
         THEN "ORGANIZATION_INACTIVE"
    ELSE IF \/ standing[e.membership].status # "ACTIVE"
            \/ Memberships[e.membership] # [organization |-> e.organization, user |-> e.actor]
         THEN "ORGANIZATION_MEMBERSHIP_INACTIVE"
    ELSE "OK"

GrantVerdict(e, c, t) ==
    LET g == Grants[e.grant]
    IN  IF c \notin DelegatedCapabilities THEN "CAPABILITY_UNKNOWN"
        ELSE IF e.grant = Nothing THEN "GRANT_REQUIRED"
        ELSE IF <<g.organization, g.membership, g.capability>> # <<e.organization, e.membership, c>>
             THEN "GRANT_MISMATCH"
        ELSE IF Revoked(e.grant) THEN "GRANT_REVOKED"
        ELSE IF standing[e.grant].status # "ACTIVE" \/ g.from > moment THEN "GRANT_INACTIVE"
        ELSE IF Expired(g) THEN "GRANT_EXPIRED"
        ELSE IF ~ (TargetIsWellFormed(t) /\ ScopeIsWellFormed(g.scope) /\ c \in Allows[g.scope.kind])
             THEN "SCOPE_NOT_ALLOWED"
        ELSE "OK"

DelegationVerdict(e, c, t) ==
    LET g == Grants[e.grant]  d == Delegations[e.delegation]
    IN  IF ~ AccountDelegated(c)
        THEN IF g.delegation = Nothing /\ g.account = Nothing /\ IdOf(t, "account") = Nothing
             THEN "OK" ELSE "SCOPE_MISMATCH"
        ELSE IF e.delegation = Nothing THEN "DELEGATION_REQUIRED"
        ELSE IF \/ d.organization # e.organization
                \/ {g.delegation, IdOf(t, "delegation")} # {e.delegation}
                \/ {g.account, IdOf(t, "account")} # {d.account}
                \/ g.approver # d.approver
             THEN "DELEGATION_MISMATCH"
        ELSE IF Revoked(e.delegation) THEN "DELEGATION_REVOKED"
        ELSE IF standing[e.delegation].status # "ACTIVE" \/ d.from > moment THEN "DELEGATION_INACTIVE"
        ELSE IF Expired(d) THEN "DELEGATION_EXPIRED"
        ELSE "OK"

ApprovalVerdict(e, c) ==
    LET g == Grants[e.grant]  p == Approvals[e.approval]
    IN  IF c \notin ApprovalRequired THEN "OK"
        ELSE IF e.approval = Nothing THEN "APPROVAL_REQUIRED"
        ELSE IF \/ Revoked(e.approval)
                \/ <<p.grant, p.capability, p.scope>> # <<e.grant, c, g.scope>>
                \/ p.kind # (IF AccountDelegated(c) THEN "ACCOUNT_MEMBERSHIP" ELSE "ORGANIZATION_MEMBERSHIP")
                \/ AccountDelegated(c) /\ p.by # g.approver
                \/ c = "organization.ownership.transfer" /\ p.by = e.membership
             THEN "APPROVAL_INVALID"
        ELSE IF p.from > moment \/ Expired(p) THEN "APPROVAL_EXPIRED"
        ELSE "OK"

\* evaluateLeagueDelegation
Verdict(e, c, t) ==
    LET member == MemberVerdict(e, t)
    IN  IF member # "OK" THEN member
        ELSE IF GrantVerdict(e, c, t) # "OK" THEN GrantVerdict(e, c, t)
        ELSE IF DelegationVerdict(e, c, t) # "OK" THEN DelegationVerdict(e, c, t)
        ELSE IF ~ ScopeMatches(Grants[e.grant].scope, t) THEN "SCOPE_MISMATCH"
        ELSE ApprovalVerdict(e, c)

References(e, c) ==
    {e.membership, e.grant}
    \cup (IF AccountDelegated(c) THEN {e.delegation} ELSE {})
    \cup (IF c \in ApprovalRequired THEN {e.approval} ELSE {})

\* The decision with its audit.
Decision(e, c, t) ==
    [allowed |-> Verdict(e, c, t) = "OK", capability |-> c, target |-> t, actor |-> e.actor,
     at |-> moment, references |-> References(e, c)]

\* fantasyAuthorityFromDelegation
AuthorityFrom(decision, input) ==
    IF /\ decision.allowed /\ decision.capability = input.capability
       /\ decision.target.kind = "ACCOUNT" /\ decision.target.ids["account"] = input.account
       /\ decision.actor = input.actor /\ decision.at = input.at
    THEN {[account |-> input.account, source |-> "LEAGUE_DELEGATION", actor |-> input.actor,
           capability |-> input.capability, scope |-> input.scope, at |-> input.at,
           references |-> decision.references]}
    ELSE {}

-----------------------------------------------------------------------------
(* Administration: a row is suspended and resumed, or revoked at once or   *)
(* from some instant on, which is final.                                   *)

administrationVars == <<moment, standing>>
fantasyVars == <<delegated, models, fantasyLeague, fantasyTeam, signed>>

Changed == Cardinality({r \in Rows : standing[r] # [status |-> "ACTIVE", revokedAt |-> Nothing]})

Administer(r) ==
    /\ Changed < MaxAdministrations \/ standing[r].status = "SUSPENDED"
    /\ \/ /\ standing[r].status = "ACTIVE" /\ r \notin DOMAIN Approvals
          /\ standing' = [standing EXCEPT ![r].status = "SUSPENDED"]
       \/ /\ standing[r].status = "SUSPENDED"
          /\ standing' = [standing EXCEPT ![r].status = "ACTIVE"]
       \/ /\ r \in Revocable /\ standing[r].revokedAt = Nothing
          /\ \/ standing' = [standing EXCEPT ![r] = [status |-> "REVOKED", revokedAt |-> moment]]
             \/ \E at \in moment .. LastMoment : standing' = [standing EXCEPT ![r].revokedAt = at]
    /\ UNCHANGED <<moment, fantasyVars>>

PassMoment ==
    /\ moment < LastMoment
    /\ moment' = moment + 1
    /\ UNCHANGED <<standing, fantasyVars>>

-----------------------------------------------------------------------------
(* The callers.  They may present any rows, ask about any target, name any *)
(* account, and use what they hold whenever they like.                     *)

Evidence ==
    [actor : Actors \cup {Nothing}, organization : Organizations, membership : DOMAIN Memberships,
     delegation : DOMAIN Delegations \cup {Nothing}, grant : DOMAIN Grants \cup {Nothing},
     approval : DOMAIN Approvals \cup {Nothing}]

Delegate(e, c, t) ==
    /\ \E decision \in {Decision(e, c, t)},
          account \in Owners, actor \in Actors, scope \in {WholeAccount, WholeLeague("league")} :
              \E a \in AuthorityFrom(decision, [account |-> account, actor |-> actor, capability |-> c,
                                                scope |-> scope, at |-> moment]) :
                  delegated' = delegated \cup {a}
    /\ UNCHANGED <<administrationVars, models, fantasyLeague, fantasyTeam, signed>>

-----------------------------------------------------------------------------
(* Changes of a league and a team.  A caller holds what it has obtained:   *)
(* authorities, and the objects of the rules that a transition returned,   *)
(* of whatever stage.                                                      *)

Held == delegated \cup Permitted

AdvanceRules ==
    /\ \E m \in models, s \in {"REVIEWED", "ACTIVE", "DEPRECATED", "RETIRED"} :
           \E n \in TransitionModel(m, s) : n \notin models /\ models' = models \cup {n}
    /\ UNCHANGED <<administrationVars, delegated, fantasyLeague, fantasyTeam, signed>>

Sign(change, authority) == signed' = signed \cup {[change |-> change, by |-> authority]}

CreateLeague ==
    /\ fantasyLeague = Nothing
    /\ \E account \in Owners, m \in models, a \in Held :
           \E l \in CreateFantasyLeague([id |-> "league", account |-> account, administration |-> Nothing,
                                        at |-> moment], m, a) :
               fantasyLeague' = l /\ Sign("league", a)
    /\ UNCHANGED <<administrationVars, delegated, models, fantasyTeam>>

MoveLeague ==
    /\ fantasyLeague # Nothing
    /\ \E to \in LeagueStages, at \in 0 .. moment, m \in models, a \in Held :
           \E l \in TransitionFantasyLeague(fantasyLeague, to, at, a, m) :
               fantasyLeague' = l /\ Sign(to, a)
    /\ UNCHANGED <<administrationVars, delegated, models, fantasyTeam>>

CreateTeam ==
    /\ fantasyLeague # Nothing /\ fantasyTeam = Nothing
    /\ \E account \in Owners, a \in Held :
           \E t \in CreateFantasyTeam([id |-> "team", account |-> account, league |-> "league",
                                      owner |-> "manager", at |-> moment], fantasyLeague, a) :
               fantasyTeam' = t /\ Sign("team", a)
    /\ UNCHANGED <<administrationVars, delegated, models, fantasyLeague>>

MoveTeam ==
    /\ fantasyTeam # Nothing
    /\ \E to \in TeamStages, at \in 0 .. moment, a \in Held :
           \E t \in TransitionFantasyTeam(fantasyTeam, fantasyLeague, to, at, a) :
               fantasyTeam' = t /\ Sign("team", a)
    /\ UNCHANGED <<administrationVars, delegated, models, fantasyLeague>>

-----------------------------------------------------------------------------
DelegationInit ==
    /\ moment = 0
    /\ standing = [r \in Rows |-> [status |-> "ACTIVE", revokedAt |-> Nothing]]
    /\ delegated = {} /\ models = NewModel(Rules)
    /\ fantasyLeague = Nothing /\ fantasyTeam = Nothing /\ signed = {}

Ask == Cardinality(delegated) < MaxDelegated /\ \E e \in Evidence, c \in Asked, t \in Targets : Delegate(e, c, t)

\* Authorities are obtained while rows are administered; or they are used.  Nothing that is
\* administered changes an authority that has been obtained.
EvidenceNext == Ask \/ PassMoment \/ \E r \in Rows : Administer(r)

ChangesNext ==
    \/ Ask \/ PassMoment
    \/ AdvanceRules \/ CreateLeague \/ MoveLeague \/ CreateTeam \/ MoveTeam

-----------------------------------------------------------------------------
(* The properties *)

NotRevokedAt(row, at) == standing[row].revokedAt # Nothing => at <= standing[row].revokedAt

InForce(term, at) == term.from <= at /\ (term.until # Nothing => at < term.until)

\* An authority from a delegation is what a member of that very account approved: a
\* delegation and a grant of one approver, both in force when it was obtained and neither
\* revoked before, and for an activation an approval by the same approver.
ApprovedByTheAccount ==
    \A a \in delegated :
        \E d \in DOMAIN Delegations \cap a.references, g \in DOMAIN Grants \cap a.references :
            /\ Delegations[d].account = a.account /\ Grants[g].delegation = d
            /\ Grants[g].capability = a.capability
            /\ Memberships[Grants[g].membership].user = a.actor
            /\ Grants[g].approver = Delegations[d].approver
            /\ InForce(Delegations[d], a.at) /\ InForce(Grants[g], a.at)
            /\ NotRevokedAt(d, a.at) /\ NotRevokedAt(g, a.at)
            /\ a.capability = "fantasy.league.activate" =>
                   \E p \in DOMAIN Approvals \cap a.references :
                       /\ Approvals[p].grant = g /\ Approvals[p].by = Delegations[d].approver
                       /\ InForce(Approvals[p], a.at) /\ NotRevokedAt(p, a.at)

\* A league that ever was active was activated by an authority for just that, resting on two
\* rows or more, with rules that had been made active; a team that ever was active is in such
\* a league; and no change of either rested on an authority of another account.
ActivatedInTurn ==
    /\ fantasyLeague # Nothing /\ fantasyLeague.since["ACTIVE"] # Nothing =>
           /\ \E s \in signed : /\ s.change = "ACTIVE" /\ s.by.capability = "fantasy.league.activate"
                               /\ Cardinality(s.by.references) >= 2
           /\ [content |-> fantasyLeague.rules, stage |-> "ACTIVE"] \in models
    /\ fantasyTeam # Nothing =>
           /\ fantasyLeague.account = fantasyTeam.account
           /\ fantasyTeam.since["ACTIVE"] # Nothing => fantasyLeague.since["ACTIVE"] # Nothing
    /\ \A s \in signed : s.by.account = fantasyLeague.account

DelegationHolds == ApprovedByTheAccount /\ ActivatedInTurn
=============================================================================
