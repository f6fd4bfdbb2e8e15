----------------------------- MODULE MCAccounts ------------------------------
(***************************************************************************)
(* Instances for TLC of what an account and its leagues keep beside the    *)
(* games: deletion requests and holds, export grants, the administration   *)
(* of Discord, fantasy transactions and fantasy results, the forms in      *)
(* which a game is set up, and who may do what, in an account and for a    *)
(* league that is delegated.  They share no state in the code, so a        *)
(* behaviour is of one of them and leaves the others in an initial state.  *)
(***************************************************************************)
EXTENDS Naturals, Sequences, TLC

CONSTANTS
    Nothing, Part,
    Members, Rosters, Targets, HoldEnds, Casts, Grace, Ttl, MaxTokens, LastTick,    \* privacy
    Teams, Players, Active, Bench, Fits, StartSlots, FirstPriority, MaxTime,        \* a league
    AssignmentDeadline, WaiverInstants, TradeInstants, TradeDeadline, Locked, Scripts, MaxControls,
    Higher, Lower, Filled, Points, Phases, PeriodEnd, Deadline, LastInstant,        \* its results
    LastRevisions, MaxChanges,
    Channels, Forms, MaxSettings, MaxAccessChanges,                                 \* Discord
    Drafts, Complete, Accepted, MaxEdits, MaxReloads, MaxOrder, MaxRows,            \* set-up forms
    People, MaxRequests,
    Organizations, Actors, Memberships, Delegations, DelegationGrants, Approvals,   \* delegation
    Delegable, Demands, Permitted, Rules, LastMoment, MaxAdministrations, MaxDelegated,
    Tenants, Users, AccountMembers, Assignments, Resources, Capabilities, Sought,   \* permissions
    MaxEnded, Seasons, Listening, Deadlines, MaxLeagues

VARIABLES
    part,
    account, erased, roster, asked, hold, execution, grant, token, export, used, tick,
    now, league, lifecycle, revision, script, requests, update, controls,
    instant, source, changed, stage, results, calculated,
    db, guild, task, doubt, tripped, made, changes,
    kind, rows, setup, form, submission, issued, tries,
    moment, standing, delegated, models, fantasyLeague, fantasyTeam, signed,
    ended, withdrawn, checks, proposal, leagues

P == INSTANCE PrivacyLifecycle WITH Players <- Members, None <- Nothing

F == INSTANCE FantasyLeague WITH status <- lifecycle, None <- Nothing

\* Results of a matchup, appended by two publishers.
L == INSTANCE FantasyScoring WITH
        First <- Higher, Second <- Lower, Publishers <- People, MaxRevision <- LastRevisions,
        rows <- results, phase <- stage, None <- Nothing

\* People administer a Discord server, ...
D == INSTANCE DiscordAdministration WITH
        Admins <- People, MaxRevision <- MaxSettings, MaxChanges <- MaxAccessChanges,
        requests <- made

\* ... and set a game up, each in a tab.
S == INSTANCE SetupForm WITH
        Tabs <- People, request <- submission, used <- tries, None <- Nothing

\* Members of an organization are given a league of an account, ...
G == INSTANCE LeagueDelegation WITH
        Grants <- DelegationGrants, Targets <- Delegable, Asked <- Demands, Owners <- Tenants

\* ... and members of an account ask what they may do, or found a league.
V == INSTANCE FantasyProvisioning WITH
        Members <- AccountMembers, Requests <- Capabilities, closed <- ended, form <- proposal

ASSUME AccountsAssumption ==
    /\ P!PrivacyAssumption /\ F!FantasyAssumption /\ L!ScoringAssumption
    /\ D!AdministrationAssumption /\ S!SetupAssumption
    /\ G!DelegationAssumption /\ V!ProvisioningAssumption

privacyVars == <<account, erased, roster, asked, hold, execution, grant, token, export, used, tick>>
leagueVars == <<now, league, lifecycle, revision, script, requests, update, controls>>
scoringVars == <<instant, source, changed, stage, results, calculated>>
discordVars == <<db, guild, task, doubt, tripped, made, changes>>
setupVars == <<kind, rows, setup, form, submission, issued, tries>>
delegationVars == <<moment, standing, delegated, models, fantasyLeague, fantasyTeam, signed>>
permissionVars == <<ended, withdrawn, checks, proposal, leagues>>
authorityVars == <<delegationVars, permissionVars>>
accountsVars == <<part, privacyVars, leagueVars, scoringVars, discordVars, setupVars, authorityVars>>

-----------------------------------------------------------------------------
(* The instances.  One worker executes the requests of an account with two *)
(* players, one of whom may have come back, while holds are placed; two    *)
(* tabs export an account that is erased meanwhile.                        *)

Period(from, to) == [from |-> from, to |-> to]
OnceOrTwice ==
    {[p \in {"p", "q"} |-> {Period(0, Nothing)}],
     "p" :> {Period(0, 1), Period(1, Nothing)} @@ "q" :> {}}
TwoCasts ==
    {[requests |-> {"i", "j"}, holds |-> {"h"}, exports |-> {}, tabs |-> {}],
     [requests |-> {"i"}, holds |-> {}, exports |-> {"k"}, tabs |-> {"c", "d"}]}

(* Two teams with an active and a bench slot, and four players, two of     *)
(* them free.  Claims for one player by two teams, by one team for two,    *)
(* and one that does not fit; assignments, drops, trades and lineups       *)
(* around them.                                                            *)

ThreeFit == {"p1", "p2", "p3"} \X {"a"}
OneEach == ("t1" :> ("a" :> "p1" @@ "b" :> Nothing)) @@ ("t2" :> ("a" :> Nothing @@ "b" :> "p2"))
SecondIsLast == <<"t1", "t2">>

Add == [action |-> "ADD_PLAYER", team |-> "t1", player |-> "p3", slot |-> "b"]
Drop(t, p) == [action |-> "DROP_PLAYER", team |-> t, player |-> p]
Trade == [action |-> "TRADE", team |-> "t1", player |-> "p1", slot |-> "a",
          partner |-> "t2", other |-> "p2", partnerSlot |-> "b"]
Lineup(f, commissioner) ==
    [action |-> "LINEUP_CHANGE", team |-> "t1", slots |-> f, commissioner |-> commissioner]
Wave(id, t, p, drop, slot) ==
    [action |-> "SUBMIT_WAIVER_CLAIM", id |-> id, team |-> t, player |-> p, drop |-> drop,
     slot |-> slot, at |-> 2]
Cancel(id) == [action |-> "CANCEL_WAIVER_CLAIM", id |-> id]
Process == [action |-> "PROCESS_WAIVERS", at |-> 2]

AllScripts ==
    {{Wave(1, "t1", "p3", Nothing, "b"), Wave(2, "t2", "p3", "p2", "b"),
      Wave(4, "t1", "p4", "p1", "b"), Process},
     {Wave(1, "t1", "p3", Nothing, "b"), Wave(2, "t2", "p3", "p2", "b"), Cancel(1), Process},
     {Wave(2, "t2", "p3", "p2", "b"), Wave(3, "t2", "p4", "p2", "a"), Drop("t2", "p2"), Process},
     {Add, Drop("t1", "p1"), Trade, Lineup("a" :> Nothing @@ "b" :> "p1", FALSE)},
     {Wave(1, "t1", "p3", Nothing, "b"), Add, Lineup("a" :> Nothing @@ "b" :> "p1", TRUE),
      Lineup("a" :> Nothing @@ "b" :> Nothing, FALSE)}}

(* A matchup of two teams with one filled slot each.  Two administrators   *)
(* make three requests; a form routes nothing or one of two channels.  Two *)
(* tabs set a game up with drafts of which two are complete and accepted.  *)

OneSlotEach == "t1" :> 1 @@ "t2" :> 1
TeamRevisions == "t1" :> 2 @@ "t2" :> 0 @@ "matchup" :> 1 @@ "standings" :> 1
NoneOrOne == {{}, {"a"}}

(* A league of the account A is delegated to the member u for good, one of *)
(* B until the clock ticks; the activation needs an approval.  One person  *)
(* is a member of both accounts: owner of A, with a grant for activations  *)
(* and for the games of a team, and administrator of B.                    *)

ScopeOf(a, d) == [kind |-> "ACCOUNT", organization |-> "o", ids |-> [account |-> a, delegation |-> d]]
TargetOf(a, d) == ScopeOf(a, d) @@ [teams |-> {}]
Delegated(a, approver, until) ==
    [organization |-> "o", account |-> a, approver |-> approver, from |-> 0, until |-> until]
Granted(d, a, c, approver, until) ==
    Delegated(a, approver, until)
    @@ [membership |-> "m", delegation |-> d, capability |-> c, scope |-> ScopeOf(a, d)]
Permission(c) ==
    [account |-> "A", source |-> "ACCOUNT_PERMISSION", actor |-> "v", capability |-> c,
     scope |-> [kind |-> "ACCOUNT"], at |-> 0, references |-> {"r"}]

OneOrganizationMember == "m" :> [organization |-> "o", user |-> "u"]
TwoDelegations == "d" :> Delegated("A", "k", Nothing) @@ "f" :> Delegated("B", "l", 1)
ThreeGrants ==
    "g" :> Granted("d", "A", "fantasy.league.manage", "k", Nothing)
    @@ "h" :> Granted("d", "A", "fantasy.league.activate", "k", 1)
    @@ "i" :> Granted("f", "B", "fantasy.league.manage", "l", Nothing)
OneApproval ==
    "p" :> [grant |-> "h", capability |-> "fantasy.league.activate", scope |-> ScopeOf("A", "d"),
            kind |-> "ACCOUNT_MEMBERSHIP", by |-> "k", from |-> 0, until |-> Nothing]
BothTargets == {TargetOf("A", "d"), TargetOf("B", "f")}
OwnPermissions ==
    {Permission(c) : c \in {"fantasy.league.manage", "fantasy.league.activate", "fantasy.team.manage"}}
OneSlotRules ==
    [owner |-> [kind |-> "ACCOUNT", id |-> "A"], weights |-> [runs |-> 1000], positions |-> {"UTIL"},
     slots |-> [UTIL |-> [count |-> 1, positions |-> {"UTIL"}]], bench |-> 1, maximum |-> 2]

Assigned(m, by, holds, scope, of) ==
    [member |-> m, source |-> by, holds |-> holds, scope |-> scope, of |-> of]
MemberOfBoth == "a" :> [user |-> "u", tenant |-> "A"] @@ "b" :> [user |-> "u", tenant |-> "B"]
FourAssignments ==
    "1" :> Assigned("a", "ROLE", "OWNER", "ACCOUNT", Nothing)
    @@ "2" :> Assigned("a", "GRANT", "fantasy.league.activate", "ACCOUNT", Nothing)
    @@ "3" :> Assigned("a", "GRANT", "game.score", "TEAM", "t2")
    @@ "4" :> Assigned("b", "ROLE", "ADMINISTRATOR", "ACCOUNT", Nothing)
TeamAndGame ==
    "t" :> [kind |-> "TEAM", tenant |-> "A", teams |-> {"t"}, season |-> Nothing, game |-> Nothing]
    @@ "g" :> [kind |-> "GAME", tenant |-> "A", teams |-> {"t", "t2"}, season |-> "s", game |-> "g"]
SeasonOfEach ==
    "s" :> [tenant |-> "A", players |-> {"p"}] @@ "z" :> [tenant |-> "B", players |-> {}]
TwiceByMail ==
    {[id |-> n, member |-> "a", channel |-> "EMAIL"] : n \in {1, 2}}

Sym == Permutations(People)

-----------------------------------------------------------------------------
\* Choices of a part that is not looked at are pinned.
AccountsInit ==
    /\ part \in Part
    /\ P!PrivacyInit
    /\ part # "privacy" => roster = CHOOSE r \in Rosters : TRUE
    /\ part # "privacy" => export = << >>
    /\ F!FantasyInit /\ (part # "league" => script = CHOOSE x \in Scripts : TRUE)
    /\ L!ScoringInit /\ (part # "scoring" => stage = "PLAYOFF")
    /\ D!AdministrationInit /\ (part # "administration" => ~db["settings"].enabled)
    /\ S!RowsInit /\ (part # "lineup" => kind = "EXTERNAL")
    /\ G!DelegationInit /\ V!ProvisioningInit
    /\ IF part = "setup" THEN S!ExchangeInit
       ELSE setup = Nothing /\ form = Nothing /\ submission = {} /\ issued = 0 /\ tries = Nothing

AccountsNext ==
    /\ UNCHANGED part
    /\ \/ /\ part = "privacy" /\ P!PrivacyNext
          /\ UNCHANGED <<leagueVars, scoringVars, discordVars, setupVars, authorityVars>>
       \/ /\ part = "league" /\ F!FantasyNext
          /\ UNCHANGED <<privacyVars, scoringVars, discordVars, setupVars, authorityVars>>
       \/ /\ part = "scoring" /\ L!ScoringNext
          /\ UNCHANGED <<privacyVars, leagueVars, discordVars, setupVars, authorityVars>>
       \/ /\ part = "administration" /\ D!AdministrationNext
          /\ UNCHANGED <<privacyVars, leagueVars, scoringVars, setupVars, authorityVars>>
       \/ /\ \/ part = "lineup" /\ S!EditRows
             \/ part = "setup" /\ S!Exchange
          /\ UNCHANGED <<privacyVars, leagueVars, scoringVars, discordVars, authorityVars>>
       \/ /\ \/ part = "evidence" /\ G!EvidenceNext /\ UNCHANGED permissionVars
             \/ part = "delegation" /\ G!ChangesNext /\ UNCHANGED permissionVars
             \/ /\ part = "permission" /\ V!AuthorizationNext({"fantasy.league.manage"}, Sought)
                /\ UNCHANGED <<proposal, leagues, delegationVars>>
             \/ part = "provisioning" /\ V!ProvisioningNext /\ UNCHANGED delegationVars
          /\ UNCHANGED <<privacyVars, leagueVars, scoringVars, discordVars, setupVars>>

AccountsSpec == AccountsInit /\ [][AccountsNext]_accountsVars

-----------------------------------------------------------------------------
(* The properties *)

\* Exports: a token is used once.  Discord: unless two transactions raced, what is enabled
\* can be delivered, what is granted can be used, and the triggers refuse nothing.
GrantsHold ==
    /\ part = "privacy" => P!TokenGoodForOne
    /\ part = "administration" => D!AdministrationHolds

\* Fantasy: one owner each, each operation once; revisions of results are a history, and
\* final rests on final.
LeagueHolds ==
    /\ part = "league" => F!OwnershipAgrees /\ F!AppliedOnce
    /\ part = "scoring" => L!ResultsAreHistory /\ L!FinalRestsOnFinal

\* Set-up: a lineup the form finds ready can be stored and played, and a game begins as
\* whoever began it saw it.
SetupHolds ==
    /\ part = "lineup" => S!LineupHolds
    /\ part = "setup" => S!SetupHolds

\* Authority: what is delegated was approved by the account, what a delegate activates was
\* activated in turn; what is allowed in an account was earned, and what is founded on it too.
AuthorityHolds ==
    /\ part \in {"evidence", "delegation"} => G!DelegationHolds
    /\ part \in {"permission", "provisioning"} => V!AllowedWasEarned /\ V!LeaguesAreFounded

\* What a step may never do: reopen a request that has ended, let a worse waiver claim
\* win, change a league, Discord settings or a grant at the old revision, or break a
\* batting order by moving a player in it.
AccountStepsHold ==
    /\ P!EndedStays /\ F!BestClaimWins /\ F!RevisionAdvances /\ D!ChangesAreRevised
    /\ S!MovesKeepOrder
=============================================================================
