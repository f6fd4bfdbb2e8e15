---------------------------- MODULE Authorization ---------------------------
(***************************************************************************)
(* Whether a person may use a capability in an account: the roles and      *)
(* grants of its membership (src/server/auth/capability-policy.ts), the    *)
(* rows they are read from (store.ts) and the request that reads them      *)
(* (authorization-service.ts).  What is allowed leaves a context           *)
(* (types.ts), and commands check the context, not the rows.               *)
(*                                                                         *)
(* A request reads the person, then the authority and the target, in       *)
(* either order, each in a query of its own.  Meanwhile rows end: accounts *)
(* and people are closed, memberships too, assignments are withdrawn.  A   *)
(* membership comes back when its owner signs in locally.                  *)
(***************************************************************************)
EXTENDS Naturals, FiniteSets

CONSTANTS
    Nothing,
    Tenants, Users,
    Members,        \* memberships, by id: [user, tenant]
    Assignments,    \* roles and grants, by id: [member, source, holds, scope, of]
    Resources,      \* by id: the resolved [kind, tenant, teams, season, game]
    Requests,
    MaxEnded        \* bound: rows that have ended

VARIABLES
    closed, withdrawn,  \* rows that are not ACTIVE, assignments with a revocation
    checks              \* the requests, and what each has read or obtained

Rows == Tenants \cup Users \cup DOMAIN Members
Ended == closed \cup withdrawn

-----------------------------------------------------------------------------
(* The policy.                                                             *)

Viewer == {"account.view", "team.view", "season.view", "roster.view", "game.view", "report.view",
    "fantasy.league.view", "fantasy.roster.manage", "fantasy.scoring.view"}
Scorekeeper == Viewer \cup {"game.create", "game.setup", "game.start", "game.score",
    "game.suspend", "game.resume", "game.complete"}
CoachManager == Scorekeeper \cup {"team.manage", "season.manage", "roster.manage",
    "report.export", "discord.settings.view", "discord.settings.preview"}
Administrator == CoachManager \cup {"account.manage", "membership.view", "membership.invite",
    "membership.update", "membership.remove", "membership.role_assign", "membership.grant_manage",
    "player.private_view", "game.correct", "game.reopen", "game.abandon", "game.cancel",
    "game.archive", "game.verify", "game.reverify", "audit.view", "configuration.view",
    "configuration.manage", "discord.settings.configure", "discord.settings.operate",
    "privacy.request", "ruleset.view", "ruleset.manage", "fantasy.league.manage",
    "fantasy.league.activate", "fantasy.team.manage", "fantasy.scoring.calculate"}
Owner == Administrator \cup {"account.archive", "account.delete_request", "ownership.transfer",
    "ownership.promote", "ownership.demote", "privacy.manage"}

RoleCapabilities == [OWNER |-> Owner, ADMINISTRATOR |-> Administrator,
    COACH_MANAGER |-> CoachManager, SCOREKEEPER |-> Scorekeeper, VIEWER |-> Viewer]

\* The capabilities that can be granted for a scope of a kind.
OfGames == {"game.setup", "game.view", "game.start", "game.score", "game.suspend", "game.resume",
    "game.complete", "game.correct", "game.reopen", "game.abandon", "game.cancel", "game.archive",
    "game.verify", "game.reverify", "player.private_view", "report.view", "report.export"}
OfTeamsAndSeasons == OfGames \cup {"game.create", "season.manage", "roster.view", "roster.manage"}

GrantScopes == [ACCOUNT |-> Owner, GAME |-> OfGames,
    SEASON |-> OfTeamsAndSeasons \cup {"season.view"},
    TEAM |-> OfTeamsAndSeasons \cup {"team.view", "team.manage", "discord.settings.view",
        "discord.settings.configure", "discord.settings.preview"}]

Covers(a, target) ==
    CASE a.scope = "ACCOUNT" -> TRUE
      [] a.scope = "TEAM" -> a.of \in target.teams
      [] a.scope = "SEASON" -> a.of = target.season
      [] a.scope = "GAME" -> a.of = target.game

\* assignmentPermits
Permits(a, capability, target) ==
    /\ Covers(a, target)
    /\ a.source = "ROLE" => capability \in RoleCapabilities[a.holds]
    /\ a.source = "GRANT" => a.holds = capability /\ capability \in GrantScopes[a.scope]

-----------------------------------------------------------------------------
(* Requests.                                                               *)

Idle == [stage |-> "idle"]
Refused == [stage |-> "refused"]

Asked(user, target, capability) ==
    [stage |-> "asked", user |-> user, target |-> target, capability |-> capability,
     read |-> {}, authority |-> Nothing, resolved |-> Nothing, before |-> Ended]

Ask(r, user, target, capability) ==
    /\ checks[r].stage \notin {"asked", "reading"}
    /\ checks' = [checks EXCEPT ![r] = Asked(user, target, capability)]
    /\ UNCHANGED <<closed, withdrawn>>

\* The person of the identity, who must be active.
ResolveUser(r) ==
    /\ checks[r].stage = "asked"
    /\ checks' = [checks EXCEPT ![r] =
           IF checks[r].user \in closed THEN Refused ELSE [checks[r] EXCEPT !.stage = "reading"]]
    /\ UNCHANGED <<closed, withdrawn>>

\* (Mutant: assignments that were withdrawn count.)
WhateverWasAssigned(check) ==
    {[member |-> m, assignments |-> {a \in DOMAIN Assignments : Assignments[a].member = m}] :
        m \in {m \in DOMAIN Members \ closed :
                /\ Members[m] = [user |-> check.user, tenant |-> check.target.tenant]
                /\ {check.user, check.target.tenant} \cap closed = {}}}

\* loadActiveAuthority: an active membership of an active person in an active account, the
\* first that is found, with what it is assigned.
ActiveAuthorities(check) ==
    {[member |-> m, assignments |-> {a \in DOMAIN Assignments \ withdrawn : Assignments[a].member = m}] :
        m \in {m \in DOMAIN Members \ closed :
                /\ Members[m] = [user |-> check.user, tenant |-> check.target.tenant]
                /\ {check.user, check.target.tenant} \cap closed = {}}}

\* resolveTarget: only an account has to be active.
ResolveTarget(target) ==
    IF target.kind = "ACCOUNT"
    THEN IF target.tenant \in closed THEN Nothing
         ELSE [kind |-> "ACCOUNT", tenant |-> target.tenant, teams |-> {}, season |-> Nothing,
               game |-> Nothing]
    ELSE IF target.id \in DOMAIN Resources /\ Resources[target.id].tenant = target.tenant
         THEN Resources[target.id] ELSE Nothing

Contributing(check) ==
    {a \in check.authority.assignments : Permits(Assignments[a], check.capability, check.resolved)}

\* Once both are read the request is allowed or refused.  The context names the assignments
\* that contributed.
Decided(check) ==
    IF check.read # {"authority", "target"} THEN check
    ELSE IF Nothing \in {check.authority, check.resolved} THEN Refused
    ELSE IF Contributing(check) = {} THEN Refused
    ELSE [stage |-> "allowed", user |-> check.user, member |-> check.authority.member,
          tenant |-> check.target.tenant, capability |-> check.capability,
          target |-> check.resolved, references |-> Contributing(check), before |-> check.before]

ReadAuthority(r) ==
    /\ checks[r].stage = "reading" /\ "authority" \notin checks[r].read
    /\ LET c == checks[r]  found == ActiveAuthorities(c)
       IN  \E x \in (IF found = {} THEN {Nothing} ELSE found) :
               checks' = [checks EXCEPT ![r] =
                   Decided([c EXCEPT !.read = c.read \cup {"authority"}, !.authority = x])]
    /\ UNCHANGED <<closed, withdrawn>>

ReadTarget(r) ==
    /\ checks[r].stage = "reading" /\ "target" \notin checks[r].read
    /\ LET c == checks[r]
       IN  checks' = [checks EXCEPT ![r] =
               Decided([c EXCEPT !.read = c.read \cup {"target"},
                                 !.resolved = ResolveTarget(c.target)])]
    /\ UNCHANGED <<closed, withdrawn>>

\* requireTrustedActor, for a person
Trusted(context, tenant, capability) ==
    /\ context.stage = "allowed"
    /\ context.tenant = tenant /\ context.target.tenant = tenant
    /\ context.capability = capability

Authorize(r) == ResolveUser(r) \/ ReadAuthority(r) \/ ReadTarget(r)

\* Rows end, at any time.
EndRow ==
    /\ Cardinality(Ended) < MaxEnded
    /\ \/ \E x \in Rows : closed' = closed \cup {x} /\ UNCHANGED withdrawn
       \/ \E a \in DOMAIN Assignments : withdrawn' = withdrawn \cup {a} /\ UNCHANGED closed
    /\ UNCHANGED checks

\* establishLocalIdentity, for a member that is an owner: a membership of an active person
\* becomes active again, unless another one of the account is.  For a request (see
\* AllowedWasEarned) it then was active after the request was made.
Rejoin(m) ==
    /\ m \in closed /\ Members[m].user \notin closed
    /\ \A n \in DOMAIN Members \ closed : Members[n] # Members[m]
    /\ \E a \in DOMAIN Assignments :
           Assignments[a] = [member |-> m, source |-> "ROLE", holds |-> "OWNER", scope |-> "ACCOUNT",
                             of |-> Nothing]
    /\ closed' = closed \ {m}
    /\ checks' = [r \in Requests |->
           IF "before" \in DOMAIN checks[r] THEN [checks[r] EXCEPT !.before = @ \ {m}] ELSE checks[r]]
    /\ UNCHANGED withdrawn

RowsChange == EndRow \/ \E m \in DOMAIN Members : Rejoin(m)

AuthorizationInit == closed = {} /\ withdrawn = {} /\ checks = [r \in Requests |-> Idle]

Askable ==
    {[kind |-> "ACCOUNT", tenant |-> t] : t \in Tenants}
    \cup {[kind |-> Resources[i].kind, tenant |-> t, id |-> i] : i \in DOMAIN Resources, t \in Tenants}

AuthorizationNext(requests, capabilities) ==
    \/ \E r \in requests, u \in Users, t \in Askable, c \in capabilities : Ask(r, u, t, c)
    \/ \E r \in requests : Authorize(r)
    \/ RowsChange

-----------------------------------------------------------------------------
\* What is allowed was earned: the person had a membership of that account, every assignment
\* that is named belongs to it and permits that very use, and since the request was made there
\* was a time when the assignment, the membership, the person and the account had not ended.
AllowedWasEarned ==
    \A r \in Requests : checks[r].stage = "allowed" =>
        LET c == checks[r]
        IN  /\ Members[c.member] = [user |-> c.user, tenant |-> c.tenant]
            /\ c.target.tenant = c.tenant /\ c.references # {}
            /\ {c.user, c.member, c.tenant} \cap c.before = {}
            /\ \A a \in c.references :
                   /\ Assignments[a].member = c.member /\ a \notin c.before
                   /\ Permits(Assignments[a], c.capability, c.target)
=============================================================================
