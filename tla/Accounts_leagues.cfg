SPECIFICATION AccountsSpec
CONSTANTS
    Nothing = Nothing
    Part = {"privacy", "league", "scoring", "administration", "lineup", "setup",
            "evidence", "delegation", "permission", "provisioning"}
    Members = {"p", "q"}
    Rosters <- OnceOrTwice
    Targets = {"ACCOUNT", "USER", "p"}
    HoldEnds = {2}
    Casts <- TwoCasts
    Grace = 1
    Ttl = 1
    MaxTokens = 2
    LastTick = 3
    Teams = {"t1", "t2"}
    Players = {"p1", "p2", "p3", "p4"}
    Active = {"a"}
    Bench = {"b"}
    Fits <- ThreeFit
    StartSlots <- OneEach
    FirstPriority <- SecondIsLast
    MaxTime = 2
    AssignmentDeadline = 1
    WaiverInstants = {2}
    TradeInstants = {1, 2}
    TradeDeadline = 2
    Locked = {1}
    Scripts <- AllScripts
    MaxControls = 1
    Higher = "t1"
    Lower = "t2"
    Filled <- OneSlotEach
    Points = {1, 2}
    Phases = {"REGULAR_SEASON", "PLAYOFF"}
    PeriodEnd = 1
    Deadline = 2
    LastInstant = 2
    LastRevisions <- TeamRevisions
    MaxChanges = 2
    Channels = {"a", "b"}
    Forms <- NoneOrOne
    MaxSettings = 3
    MaxAccessChanges = 1
    Drafts = {"bare", "refused", "full", "other"}
    Complete = {"refused", "full", "other"}
    Accepted = {"full", "other"}
    MaxEdits = 2
    MaxReloads = 1
    MaxOrder = 3
    MaxRows = 2
    People = {x, y}
    MaxRequests = 3
    Organizations = {"o"}
    Actors = {"u", "w"}
    Memberships <- OneOrganizationMember
    Delegations <- TwoDelegations
    DelegationGrants <- ThreeGrants
    Approvals <- OneApproval
    Delegable <- BothTargets
    Demands = {"fantasy.league.manage", "fantasy.league.activate"}
    Permitted <- OwnPermissions
    Rules <- OneSlotRules
    LastMoment = 1
    MaxAdministrations = 2
    MaxDelegated = 1
    Tenants = {"A", "B"}
    Users = {"u"}
    AccountMembers <- MemberOfBoth
    Assignments <- FourAssignments
    Resources <- TeamAndGame
    Capabilities = {"fantasy.league.manage", "fantasy.league.activate",
                    "fantasy.team.manage", "fantasy.roster.manage"}
    Sought = {"account.manage", "game.score", "team.view"}
    MaxEnded = 1
    Seasons <- SeasonOfEach
    Listening <- TwiceByMail
    Deadlines = {0, 1}
    MaxLeagues = 1
CHECK_DEADLOCK FALSE
SYMMETRY Sym
INVARIANTS
    GrantsHold
    LeagueHolds
    SetupHolds
    AuthorityHolds
PROPERTIES
    AccountStepsHold
