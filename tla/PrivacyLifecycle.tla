--------------------------- MODULE PrivacyLifecycle ---------------------------
(***************************************************************************)
(* Deletion requests, holds and one-time export grants of an account       *)
(* (src/server/data/privacy-lifecycle-repository.ts and its service).      *)
(*                                                                         *)
(* An administrator asks for the account, the user or a player to be       *)
(* erased, may cancel within the grace period, and a service worker        *)
(* executes the request when it is due and no hold covers it.  Execution,  *)
(* creation and cancellation are serializable transactions; holds are      *)
(* placed READ COMMITTED, and an export is authorized by one transaction   *)
(* and consumed by another.  Abstracted: what the erasure of an account or *)
(* user changes elsewhere, other than roster periods and grants; audits.   *)
(***************************************************************************)
EXTENDS Naturals, Sequences, FiniteSets

CONSTANTS
    Players,        \* players of the account
    Rosters,        \* functions from players to the sets of their roster periods
    Targets,        \* what may be asked to be erased: "ACCOUNT", "USER", players
    HoldEnds,       \* when a hold may expire
    Casts,          \* bound: the ids of deletion requests, holds and exports, and the
                    \* browser tabs that export, of a behaviour
    Grace, Ttl,     \* ticks until an account is due, until a grant expires
    MaxTokens,      \* bound: export tokens
    LastTick,       \* bound: instants are 0 .. LastTick
    None

VARIABLES
    account,    \* "ACTIVE" or "ARCHIVED"
    erased,     \* players and users erased
    roster,     \* roster periods of each player: [from, to], to = None while open
    asked,      \* deletion requests by id: None or [target, status, due]
    hold,       \* holds by id: None or [covers, until, status]
    execution,  \* what the worker's transaction read: None or [id, request, at]
    grant,      \* export grants by client request id: None or [status, token, until]
    token,      \* number of tokens issued
    export,     \* the request a tab has authorized: None or [act, key, token]
    used,       \* the exports generated: the token each was for, and the account's status
    tick

privacyVars == <<account, erased, roster, asked, hold, execution, grant, token, export, used, tick>>

PrivacyAssumption == {Grace, Ttl, MaxTokens, LastTick} \subseteq Nat

Standing == {"REQUESTED", "BLOCKED"}
Everything == "EVERY REQUEST"

\* Roster periods began on the days before tick 1.
PrivacyInit ==
    /\ account = "ACTIVE" /\ erased = {} /\ roster \in Rosters
    /\ \E c \in Casts :
          /\ asked = [i \in c.requests |-> None] /\ hold = [h \in c.holds |-> None]
          /\ grant = [k \in c.exports |-> None] /\ export = [t \in c.tabs |-> None]
    /\ execution = None /\ token = 0 /\ used = <<>> /\ tick = 1

-----------------------------------------------------------------------------
(* Requests *)

Due(target) == IF target \in {"ACCOUNT", "USER"} THEN tick + Grace ELSE tick

\* The same id again is answered with its request, whatever became of it.
CreateRequest(i, target) ==
    /\ asked[i] = None /\ account = "ACTIVE"
    /\ \A j \in DOMAIN asked : asked[j] # None =>
          ~(asked[j].target = target /\ asked[j].status \in Standing)
    /\ asked' = [asked EXCEPT ![i] = [target |-> target, status |-> "REQUESTED", due |-> Due(target)]]
    /\ UNCHANGED <<account, erased, roster, hold, execution, grant, token, export, used, tick>>

CancelRequest(i) ==
    /\ asked[i] # None /\ asked[i].status \in Standing
    /\ asked' = [asked EXCEPT ![i].status = "CANCELLED"]
    /\ UNCHANGED <<account, erased, roster, hold, execution, grant, token, export, used, tick>>

-----------------------------------------------------------------------------
(* Holds *)

PlaceHold(h, covers, until) ==
    /\ hold[h] = None
    /\ until # None => until > tick
    /\ covers # Everything => asked[covers] # None /\ asked[covers].status \in Standing
    /\ hold' = [hold EXCEPT ![h] = [covers |-> covers, until |-> until, status |-> "ACTIVE"]]
    /\ UNCHANGED <<account, erased, roster, asked, execution, grant, token, export, used, tick>>

ReleaseHold(h) ==
    /\ hold[h] # None /\ hold[h].status = "ACTIVE"
    /\ hold' = [hold EXCEPT ![h].status = "RELEASED"]
    /\ UNCHANGED <<account, erased, roster, asked, execution, grant, token, export, used, tick>>

Held(i) ==
    \E h \in DOMAIN hold : /\ hold[h] # None /\ hold[h].status = "ACTIVE"
                     /\ hold[h].covers \in {Everything, i}
                     /\ hold[h].until # None => hold[h].until > tick

-----------------------------------------------------------------------------
(* Execution *)

MayExecute(i) == asked[i] # None /\ asked[i].status \in Standing /\ asked[i].due <= tick

BlockRequest(i) ==
    /\ execution = None /\ MayExecute(i) /\ Held(i)
    /\ asked' = [asked EXCEPT ![i].status = "BLOCKED"]
    /\ UNCHANGED <<account, erased, roster, hold, execution, grant, token, export, used, tick>>

\* The transaction reads its snapshot and finds no hold.
BeginExecution(i) ==
    /\ execution = None /\ MayExecute(i) /\ ~Held(i)
    /\ execution' = [id |-> i, request |-> asked[i], at |-> tick]
    /\ UNCHANGED <<account, erased, roster, asked, hold, grant, token, export, used, tick>>

Affected(target) ==
    CASE target = "ACCOUNT" -> Players [] target = "USER" -> {} [] OTHER -> {target}

\* Every period of the player, over or not, is made to end at the instant.
Closed(p, at) == {[period EXCEPT !.to = at] : period \in roster[p]}

\* RosterEntry_period_revision_check and RosterEntry_no_overlapping_periods
BreaksRoster(p, at) ==
    \/ \E period \in roster[p] : period.from >= at
    \/ Cardinality(roster[p]) > 1

\* (Mutant: the request is not read again.)
StandsAnyway == TRUE

\* Serializable: the request must still be what the transaction read.
StandsAsRead == asked[execution.id] = execution.request

\* (Mutant: an account that is deleted keeps its grants.)
GrantsKept == grant

RevokedGrants == [k \in DOMAIN grant |->
    IF grant[k] # None /\ grant[k].status = "AVAILABLE"
    THEN [grant[k] EXCEPT !.status = "REVOKED", !.token = None] ELSE grant[k]]

CommitExecution ==
    /\ execution # None /\ StandsAsRead
    /\ LET target == execution.request.target
           players == Affected(target)
       IN  /\ \A p \in players : ~BreaksRoster(p, execution.at)
           /\ erased' = erased \cup (IF target = "USER" THEN {target} ELSE players)
           /\ roster' = [p \in Players |-> IF p \in players THEN Closed(p, execution.at)
                                           ELSE roster[p]]
           /\ account' = IF target = "ACCOUNT" THEN "ARCHIVED" ELSE account
           /\ grant' = IF target = "ACCOUNT" THEN RevokedGrants ELSE grant
    /\ asked' = [asked EXCEPT ![execution.id].status = "COMPLETED"]
    /\ execution' = None
    /\ UNCHANGED <<hold, token, export, used, tick>>

\* A conflict with another transaction or a constraint rolls everything back.
ExecutionFails ==
    /\ execution # None
    /\ ~StandsAsRead \/ \E p \in Affected(execution.request.target) : BreaksRoster(p, execution.at)
    /\ execution' = None
    /\ UNCHANGED <<account, erased, roster, asked, hold, grant, token, export, used, tick>>

-----------------------------------------------------------------------------
(* Export grants *)

\* What a tab asks for is authorized while its membership is active.
AuthorizeExport(c, act, k, t) ==
    /\ export[c] = None /\ account = "ACTIVE"
    /\ IF act = "prepare" THEN t = None /\ token < MaxTokens ELSE t \in 1 .. token
    /\ export' = [export EXCEPT ![c] = [act |-> act, key |-> k, token |-> t]]
    /\ UNCHANGED <<account, erased, roster, asked, hold, execution, grant, token, used, tick>>

\* The same key again rotates the token, whatever became of the grant.
PrepareExport(c) ==
    /\ export[c] # None /\ export[c].act = "prepare" /\ token < MaxTokens
    /\ token' = token + 1
    /\ grant' = [grant EXCEPT ![export[c].key] =
                    [status |-> "AVAILABLE", token |-> token', until |-> tick + Ttl]]
    /\ export' = [export EXCEPT ![c] = None]
    /\ UNCHANGED <<account, erased, roster, asked, hold, execution, used, tick>>

\* (Mutant: any token that was ever issued will do.)
EverIssued(k, t) == grant[k] # None /\ t <= token

Available(k, t) == grant[k] # None /\ grant[k].status = "AVAILABLE" /\ grant[k].token = t

Finished(k, status) == [grant EXCEPT ![k].status = status, ![k].token = None]

DownloadExport(c) ==
    /\ export[c] # None /\ export[c].act = "download"
    /\ LET k == export[c].key
           t == export[c].token
       IN  IF Available(k, t) /\ grant[k].until > tick
           THEN /\ grant' = Finished(k, "DOWNLOADED")
                /\ used' = Append(used, [token |-> t, account |-> account])
           ELSE /\ grant' = IF grant[k] # None /\ grant[k].status = "AVAILABLE" /\ grant[k].until <= tick
                            THEN Finished(k, "EXPIRED") ELSE grant
                /\ UNCHANGED used
    /\ export' = [export EXCEPT ![c] = None]
    /\ UNCHANGED <<account, erased, roster, asked, hold, execution, token, tick>>

CancelExport(c) ==
    /\ export[c] # None /\ export[c].act = "cancel"
    /\ grant' = IF Available(export[c].key, export[c].token)
                THEN Finished(export[c].key, "CANCELLED") ELSE grant
    /\ export' = [export EXCEPT ![c] = None]
    /\ UNCHANGED <<account, erased, roster, asked, hold, execution, token, used, tick>>

TickPasses ==
    /\ tick < LastTick /\ tick' = tick + 1
    /\ UNCHANGED <<account, erased, roster, asked, hold, execution, grant, token, export, used>>

PrivacyNext ==
    \/ \E i \in DOMAIN asked :
          \/ CancelRequest(i) \/ BlockRequest(i) \/ BeginExecution(i)
          \/ \E target \in Targets : CreateRequest(i, target)
    \/ \E h \in DOMAIN hold :
          \/ ReleaseHold(h)
          \/ \E covers \in DOMAIN asked \cup {Everything}, until \in {None} \cup HoldEnds : PlaceHold(h, covers, until)
    \/ CommitExecution \/ ExecutionFails
    \/ \E c \in DOMAIN export :
          \/ PrepareExport(c) \/ DownloadExport(c) \/ CancelExport(c)
          \/ \E k \in DOMAIN grant, t \in {None} \cup 1 .. token, act \in {"prepare", "download", "cancel"} :
                AuthorizeExport(c, act, k, t)
    \/ TickPasses

-----------------------------------------------------------------------------
(* Properties *)

\* A request that has ended does not move, whatever was cancelled or executed at the
\* same time: nothing is erased for a request that was cancelled, and what was erased
\* has a completed request to answer for it.
EndedStays ==
    [][\A i \in DOMAIN asked : asked[i] # None /\ asked[i].status \notin Standing =>
          asked'[i] = asked[i]]_privacyVars

\* A token is good for one export, of an account that has not been deleted: however
\* prepared, cancelled, repeated or overtaken by the deletion.
TokenGoodForOne ==
    \A m \in DOMAIN used : /\ used[m].account = "ACTIVE"
                           /\ \A n \in DOMAIN used : used[n].token = used[m].token => n = m
===============================================================================
