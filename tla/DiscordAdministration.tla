------------------------ MODULE DiscordAdministration ------------------------
(***************************************************************************)
(* Administration of a Discord installation: connecting and disconnecting  *)
(* a server, synchronising and routing its channels, changing, pausing and *)
(* resuming the update settings, and granting roles                        *)
(* (src/server/app/discord-*-service.ts and their repositories).           *)
(*                                                                         *)
(* Every change is one READ COMMITTED transaction between requests to      *)
(* Discord.  A transaction locks the rows it writes, and the deferred      *)
(* triggers of the migrations check it just before it commits: what        *)
(* another transaction commits between that check and the commit is not    *)
(* seen.  `Write` is all of a transaction up to that check.                *)
(***************************************************************************)
EXTENDS Naturals, FiniteSets

CONSTANTS
    Admins, Channels,
    Forms,              \* bound: the routes of the forms that are sent
    MaxRevision,        \* bound on the revisions of settings and grant
    MaxRequests,        \* bound on the requests made
    MaxChanges          \* bound on what happens in the Discord server

VARIABLES
    db,     \* the committed rows
    guild,  \* the server: is the bot a member, and what it may do in each channel
    task,   \* what each administrator's request is doing
    doubt,  \* what a race between a check and a commit may have left wrong
    tripped,\* has a trigger refused a transaction although nothing was in doubt
    requests, changes   \* made so far

vars == <<db, guild, task, doubt, tripped, requests, changes>>

Singles == {"installation", "settings", "grant", "role"}
Rows == Singles \cup Channels
Access == {"absent", "hidden", "usable"}
Settings == [revision : 0 .. MaxRevision, enabled : BOOLEAN, scopes : BOOLEAN,
             routes : SUBSET Channels]
NoRequest == [step |-> "none"]

Routable(d, c) == d[c].known /\ d[c].enabled /\ d[c].usable

\* What a channel is called is no other row, and forms route channels.
AdministrationAssumption ==
    /\ Channels # {} /\ Channels \cap Singles = {} /\ Forms \subseteq SUBSET Channels
    /\ {MaxRevision, MaxRequests, MaxChanges} \subseteq Nat

\* The rows d, with some of them written.
With(rows, d) == [r \in Rows |-> IF r \in DOMAIN rows THEN rows[r] ELSE d[r]]

\* enforce_discord_enabled_settings and enforce_active_discord_role_grant.
EnabledIsDeliverable(d) ==
    d["settings"].enabled =>
        /\ d["installation"] = "ACTIVE" /\ d["settings"].scopes
        /\ \E c \in d["settings"].routes : Routable(d, c)
ActiveGrantIsUsable(d) ==
    d["grant"].status = "ACTIVE" => d["installation"] = "ACTIVE" /\ d["role"]

SettingsGuard == {"installation", "settings"} \cup Channels
GrantGuard == {"installation", "role", "grant"}
Passes(rows, d) ==
    /\ rows \cap SettingsGuard # {} => EnabledIsDeliverable(d)
    /\ rows \cap GrantGuard # {} => ActiveGrantIsUsable(d)

\* A new installation, and one whose updates are running.
AdministrationInit ==
    /\ \E running \in BOOLEAN :
           db = [r \in Rows |->
               CASE r = "installation" -> "ACTIVE"
                 [] r = "settings" -> [revision |-> 1, enabled |-> running, scopes |-> TRUE,
                                       routes |-> IF running THEN Channels ELSE {}]
                 [] r = "grant" -> [revision |-> 0, status |-> "NONE"]
                 [] r = "role" -> TRUE
                 [] OTHER -> [known |-> running, enabled |-> running, usable |-> running]]
    /\ guild = [bot |-> TRUE, access |-> [c \in Channels |-> "usable"]]
    /\ task = [a \in Admins |-> NoRequest]
    /\ doubt = {} /\ tripped = FALSE /\ requests = 0 /\ changes = 0

Goes(a, next) == task' = [task EXCEPT ![a] = next]
Ends(a) == Goes(a, NoRequest)
Free(a) == task[a] = NoRequest
InCommit(a) == task[a].step = "commit"

-----------------------------------------------------------------------------
(* Transactions.                                                           *)

\* A transaction that writes `rows`: it waits for their locks, and goes on to `then`
\* when it has committed.  `clean` tells that it replaces or sweeps all routes.
Write(a, rows, clean, then) ==
    LET d == With(rows, db)
    IN  /\ \A b \in Admins : InCommit(b) => DOMAIN task[b].rows \cap DOMAIN rows = {}
        /\ IF Passes(DOMAIN rows, d)
           THEN /\ Goes(a, [step |-> "commit", rows |-> rows, clean |-> clean, then |-> then,
                            raced |-> FALSE])
                /\ UNCHANGED tripped
           ELSE Ends(a) /\ tripped' = (tripped \/ doubt = {})
        /\ UNCHANGED <<db, guild, doubt, changes>>

Commit(a) ==
    LET t == task[a]
        fired == (IF DOMAIN t.rows \cap SettingsGuard # {} THEN {"settings"} ELSE {})
                 \cup (IF DOMAIN t.rows \cap GrantGuard # {} THEN {"grants"} ELSE {})
    IN  /\ InCommit(a)
        /\ db' = With(t.rows, db)
        /\ doubt' = IF t.raced THEN doubt \cup fired \cup {"routes"}
                    ELSE (doubt \ fired) \ (IF t.clean THEN {"routes"} ELSE {})
        /\ task' = [b \in Admins |->
                        IF b = a THEN t.then
                        ELSE IF InCommit(b) THEN [task[b] EXCEPT !.raced = TRUE] ELSE task[b]]
        /\ UNCHANGED <<guild, tripped, changes>>

\* A request dies, and with it a transaction that has not committed.
Die(a) ==
    /\ ~Free(a)
    /\ Ends(a)
    /\ UNCHANGED <<db, guild, doubt, tripped, changes>>

NothingStored == UNCHANGED <<db, guild, doubt, tripped, changes>>

Revised(s) == [s EXCEPT !.revision = @ + 1]
MayRevise == db["settings"].revision < MaxRevision

\* (Mutant: settings stay enabled without a route.)
UnroutedStaysOn(s, routes) == [Revised(s) EXCEPT !.routes = routes]

\* Settings after some of their routes are gone.
WithRoutes(s, routes) ==
    [Revised(s) EXCEPT !.routes = routes, !.enabled = @ /\ routes # {}]

-----------------------------------------------------------------------------
(* The installation.                                                       *)

\* complete: the provider has verified that the bot is in the server.
VerifyAuthorization(a) ==
    /\ Free(a)
    /\ guild' = [guild EXCEPT !.bot = TRUE]
    /\ Goes(a, [step |-> "connect"])
    /\ changes < MaxChanges /\ changes' = changes + 1
    /\ UNCHANGED <<db, doubt, tripped>>

Connect(a) ==
    /\ task[a].step = "connect"
    /\ IF db["installation"] = "REVOKED" THEN Ends(a) /\ NothingStored
       ELSE Write(a, [r \in {"installation"} |-> "ACTIVE"], FALSE, NoRequest)

BeginDisconnect(a) ==
    /\ Free(a) /\ db["installation"] # "REVOKED"
    /\ Goes(a, [step |-> IF db["installation"] = "ACTIVE" THEN "leave" ELSE "disconnect"])
    /\ NothingStored

LeaveGuild(a) ==
    /\ task[a].step = "leave"
    /\ guild' = [guild EXCEPT !.bot = FALSE]
    /\ Goes(a, [step |-> "disconnect"])
    /\ UNCHANGED <<db, doubt, tripped, changes>>

Disconnect(a) ==
    LET settings == db["settings"]
        grant == db["grant"]
        touched == {"installation"} \cup (IF settings.enabled THEN {"settings"} ELSE {})
                   \cup (IF grant.status = "ACTIVE" THEN {"grant"} ELSE {})
                   \cup (IF db["role"] THEN {"role"} ELSE {})
        Disconnected(r) ==
            CASE r = "installation" -> "DISCONNECTED"
              [] r = "settings" -> [Revised(settings) EXCEPT !.enabled = FALSE]
              [] r = "grant" -> [revision |-> grant.revision + 1, status |-> "REVOKED"]
              [] r = "role" -> FALSE
    IN  /\ task[a].step = "disconnect"
        /\ settings.enabled => MayRevise
        /\ grant.status = "ACTIVE" => grant.revision < MaxRevision
        /\ IF db["installation"] = "REVOKED" THEN Ends(a) /\ NothingStored
           ELSE Write(a, [r \in touched |-> Disconnected(r)], FALSE, NoRequest)

-----------------------------------------------------------------------------
(* Channels and routes.                                                    *)

\* refresh, and updateRouting with the routes and the revision of the form it was sent from.
BeginSync(a, then) ==
    /\ Free(a) /\ db["installation"] = "ACTIVE"
    /\ Goes(a, [step |-> "list", then |-> then])
    /\ NothingStored
Refresh(a) == BeginSync(a, NoRequest)
UpdateRouting(a) ==
    \E routes \in Forms, r \in 0 .. db["settings"].revision :
        BeginSync(a, [step |-> "route", routes |-> routes, expected |-> r])

ListTextChannels(a) ==
    /\ task[a].step = "list"
    /\ IF guild.bot
       THEN Goes(a, [step |-> "sync", then |-> task[a].then, listed |-> guild.access])
       ELSE Ends(a)
    /\ NothingStored

SyncChannels(a) ==
    LET listed == task[a].listed
        Synced(c) == [known |-> TRUE, enabled |-> db[c].known => db[c].enabled,
                      usable |-> listed[c] = "usable"]
        seen == {c \in Channels : db[c].known \/ listed[c] # "absent"}
        channels == [c \in seen |-> Synced(c)]
        settings == db["settings"]
        kept == {c \in settings.routes : Routable(With(channels, db), c)}
        touched == seen \cup (IF kept = settings.routes THEN {} ELSE {"settings"})
    IN  /\ task[a].step = "sync"
        /\ kept # settings.routes => MayRevise
        /\ IF db["installation"] = "ACTIVE"
           THEN Write(a, [r \in touched |-> IF r = "settings" THEN WithRoutes(settings, kept)
                                           ELSE Synced(r)],
                      TRUE, task[a].then)
           ELSE Ends(a) /\ NothingStored

\* updateRouting after its synchronisation: every route must be routable now; the rest of
\* the settings is read now, the revision is that of the form.
RouteChannels(a) ==
    LET t == task[a]
    IN  /\ t.step = "route"
        /\ IF \A c \in t.routes : Routable(db, c)
           THEN Goes(a, [step |-> "write", expected |-> t.expected, routes |-> t.routes,
                         scopes |-> db["settings"].scopes,
                         enabled |-> db["settings"].enabled /\ t.routes # {}])
           ELSE Ends(a)
        /\ NothingStored

\* setChannelEnabled.
ToggleChannel(a, c, on) ==
    LET channel == db[c]
        settings == db["settings"]
        touched == {c} \cup (IF ~on /\ c \in settings.routes THEN {"settings"} ELSE {})
    IN  /\ Free(a) /\ channel.known /\ channel.enabled # on /\ (on => channel.usable)
        /\ ~on /\ c \in settings.routes => MayRevise
        /\ Write(a, [r \in touched |-> IF r = c THEN [channel EXCEPT !.enabled = on]
                                       ELSE WithRoutes(settings, settings.routes \ {c})],
                 FALSE, NoRequest)

-----------------------------------------------------------------------------
(* The settings.                                                           *)

\* A settings form, or a reset, sent with the revision it was loaded with.
SaveSettings(a) ==
    \E enabled, scopes \in BOOLEAN, routes \in Forms, r \in 0 .. db["settings"].revision :
        /\ Free(a) /\ (enabled => scopes /\ routes # {})
        /\ Goes(a, [step |-> "write", expected |-> r, routes |-> routes, scopes |-> scopes,
                    enabled |-> enabled])
        /\ NothingStored

\* Pause and resume, and a change of the cadence alone, keep what is stored.
ChangeState(a, on) ==
    LET settings == db["settings"]
    IN  /\ Free(a) /\ db["installation"] = "ACTIVE" /\ settings.enabled # on
        /\ on => settings.scopes /\ settings.routes # {}
        /\ Goes(a, [step |-> "write", expected |-> settings.revision, routes |-> settings.routes,
                    scopes |-> settings.scopes, enabled |-> on])
        /\ NothingStored
UpdateCadence(a) ==
    LET settings == db["settings"]
    IN  \E r \in 0 .. settings.revision :
            /\ Free(a) /\ db["installation"] = "ACTIVE"
            /\ Goes(a, [step |-> "write", expected |-> r, routes |-> settings.routes,
                        scopes |-> settings.scopes, enabled |-> settings.enabled])
            /\ NothingStored

\* (Mutant: the form's revision is not compared.)
AnyRevision(t, s) == TRUE

SameRevision(t, s) == t.expected = s.revision

WriteConfiguration(a) ==
    LET t == task[a]
        settings == db["settings"]
    IN  /\ t.step = "write" /\ MayRevise
        /\ IF /\ t.enabled => db["installation"] = "ACTIVE"
              /\ \A c \in t.routes : Routable(db, c)
              /\ SameRevision(t, settings)
           THEN Write(a, [r \in {"settings"} |-> [revision |-> t.expected + 1, enabled |-> t.enabled,
                                                  scopes |-> t.scopes, routes |-> t.routes]],
                      TRUE, NoRequest)
           ELSE Ends(a) /\ NothingStored

-----------------------------------------------------------------------------
(* Role grants.                                                            *)

WriteGrant(a, status) ==
    LET grant == db["grant"]
    IN  \E r \in 0 .. grant.revision :
            /\ Free(a) /\ db["installation"] = "ACTIVE" /\ db["role"]
            /\ r = grant.revision /\ r < MaxRevision
            /\ status = "REVOKED" => grant.status # "NONE"
            /\ Write(a, [x \in {"grant"} |-> [revision |-> r + 1, status |-> status]],
                     FALSE, NoRequest)

-----------------------------------------------------------------------------
(* Discord: access to a channel changes; a managed role is verified.       *)

AccessChanges(c) ==
    \E x \in Access \ {guild.access[c]} :
        /\ changes < MaxChanges /\ changes' = changes + 1
        /\ guild' = [guild EXCEPT !.access[c] = x]
        /\ UNCHANGED <<db, task, doubt, tripped>>

\* What the bounds leave of a step: each request made is counted.
Counted ==
    /\ requests' = requests + Cardinality({a \in Admins : Free(a) /\ task'[a] # NoRequest})
    /\ requests' <= MaxRequests

AdministrationStep ==
    \/ \E a \in Admins :
           \/ VerifyAuthorization(a) \/ Connect(a)
           \/ BeginDisconnect(a) \/ LeaveGuild(a) \/ Disconnect(a)
           \/ Refresh(a) \/ UpdateRouting(a) \/ ListTextChannels(a) \/ SyncChannels(a)
           \/ RouteChannels(a) \/ SaveSettings(a) \/ WriteConfiguration(a) \/ UpdateCadence(a)
           \/ Commit(a) \/ Die(a)
           \/ \E on \in BOOLEAN : ChangeState(a, on)
           \/ \E c \in Channels, on \in BOOLEAN : ToggleChannel(a, c, on)
           \/ \E status \in {"ACTIVE", "REVOKED"} : WriteGrant(a, status)
    \/ \E c \in Channels : AccessChanges(c)

AdministrationNext == AdministrationStep /\ Counted

AdministrationSpec == AdministrationInit /\ [][AdministrationNext]_vars

-----------------------------------------------------------------------------
(* The properties                                                          *)

\* Unless two transactions raced, settings are enabled only for an active installation
\* with a scope and a routable channel, grants are active only while the installation and
\* the role are, and no route leads to a channel the bot may not use.  The triggers
\* refuse nothing the requests do: the requests themselves keep the rows consistent.
AdministrationHolds ==
    /\ "settings" \notin doubt => EnabledIsDeliverable(db)
    /\ "grants" \notin doubt => ActiveGrantIsUsable(db)
    /\ "routes" \notin doubt => \A c \in db["settings"].routes : Routable(db, c)
    /\ ~tripped

\* Evaluations of updates are keyed by the revision of the settings, and forms compare
\* it: settings never change at a revision, nor does a grant.
ChangesAreRevised ==
    [][/\ db'["settings"] # db["settings"] =>
              db'["settings"].revision = db["settings"].revision + 1
       /\ db'["grant"] # db["grant"] => db'["grant"].revision = db["grant"].revision + 1]_vars
=============================================================================
