-------------------------------- MODULE SignIn --------------------------------
(***************************************************************************)
(* Sign-in and linking by external providers                               *)
(* (src/server/app/oauth-authentication-service.ts and the identities of   *)
(* src/server/data/authentication-repository.ts).                          *)
(*                                                                         *)
(* A callback consumes its attempt, proves an identity with the provider,  *)
(* then signs the owner of the identity in or links it to the user who     *)
(* asked, and creates a session: four transactions and an exchange.  The   *)
(* same callback may arrive twice.  State, browser binding and the secrets *)
(* of the attempt always match here; identities are those whose first      *)
(* sign-in makes the user of the same name (UserOf).                       *)
(***************************************************************************)
EXTENDS Naturals, Sequences

CONSTANTS
    Identities,
    Users, UserOf(_),            \* the user a first sign-in by an identity creates
    MaxAttempts, MaxCallbacks,   \* bounds: sign-ins or links started, callbacks received
    None

VARIABLES
    attempt,    \* [purpose, user, by, consumed] of the attempts, as they were started
    callback,   \* [at, attempt, identity, user] of the callbacks, as they arrived
    owner,      \* the user of each identity, None before it is known
    active,     \* users who exist and are not disabled
    disabled,
    opened,     \* the sessions made: [from, user, identity, live]
    linkedBy    \* history variable: links made, and whether their session was live

signInVars == <<attempt, callback, owner, active, disabled, opened, linkedBy>>

Attempts  == DOMAIN attempt
Callbacks == DOMAIN callback

SignInTypeOK ==
    /\ \A a \in Attempts : attempt[a].purpose \in {"SIGN_IN", "LINK"}
    /\ \A c \in Callbacks : callback[c].at \in
          {"consuming", "exchanging", "resolving", "creating", "ended"}
    /\ owner \in [Identities -> {None} \cup active \cup disabled]
    /\ active \cap disabled = {} /\ active \cup disabled \subseteq Users

SignInInit ==
    /\ attempt = <<>> /\ callback = <<>>
    /\ owner = [i \in Identities |-> None] /\ active = {} /\ disabled = {}
    /\ opened = {} /\ linkedBy = {}

LiveSessions(u) == {s \in opened : s.live /\ s.user = u}

-----------------------------------------------------------------------------
(* Starting *)

StartSignIn ==
    /\ Len(attempt) < MaxAttempts
    /\ attempt' = Append(attempt,
          [purpose |-> "SIGN_IN", user |-> None, by |-> 0, consumed |-> FALSE])
    /\ UNCHANGED <<callback, owner, active, disabled, opened, linkedBy>>

StartLink(s) ==
    /\ Len(attempt) < MaxAttempts /\ s.live
    /\ attempt' = Append(attempt,
          [purpose |-> "LINK", user |-> s.user, by |-> s.from, consumed |-> FALSE])
    /\ UNCHANGED <<callback, owner, active, disabled, opened, linkedBy>>

-----------------------------------------------------------------------------
(* A callback; an attempt whose ten minutes are over is like one consumed *)

Becomes(c, at) == callback' = [callback EXCEPT ![c].at = at]
Creates(c, u)  == callback' = [callback EXCEPT ![c].at = "creating", ![c].user = u]

ReadAttempt(a) ==
    /\ Len(callback) < MaxCallbacks
    /\ callback' = Append(callback,
          [at |-> IF attempt[a].consumed THEN "ended" ELSE "consuming", attempt |-> a,
           identity |-> None, user |-> None])
    /\ UNCHANGED <<attempt, owner, active, disabled, opened, linkedBy>>

EverConsumed(a) == FALSE
Consumed(a)     == attempt[a].consumed

ConsumeAttempt(c) ==
    LET a == callback[c].attempt
    IN  /\ callback[c].at = "consuming"
        /\ attempt' = [attempt EXCEPT ![a].consumed = TRUE]
        /\ Becomes(c, IF Consumed(a) THEN "ended" ELSE "exchanging")
        /\ UNCHANGED <<owner, active, disabled, opened, linkedBy>>

ExpireAttempt(a) ==
    /\ ~attempt[a].consumed
    /\ attempt' = [attempt EXCEPT ![a].consumed = TRUE]
    /\ UNCHANGED <<callback, owner, active, disabled, opened, linkedBy>>

Exchange(c, i) ==
    /\ callback[c].at = "exchanging"
    /\ callback' = [callback EXCEPT ![c].at = "resolving", ![c].identity = i]
    /\ UNCHANGED <<attempt, owner, active, disabled, opened, linkedBy>>

ExchangeFails(c) ==
    /\ callback[c].at = "exchanging" /\ Becomes(c, "ended")
    /\ UNCHANGED <<attempt, owner, active, disabled, opened, linkedBy>>

\* Under a lock on the identity: its owner, or the user made (or found) for it.
ResolveOrCreateIdentity(c) ==
    LET i == callback[c].identity
        u == IF owner[i] # None THEN owner[i] ELSE UserOf(i)
    IN  /\ callback[c].at = "resolving" /\ attempt[callback[c].attempt].purpose = "SIGN_IN"
        /\ IF u \in disabled
           THEN Becomes(c, "ended") /\ UNCHANGED <<owner, active>>
           ELSE /\ owner' = [owner EXCEPT ![i] = u] /\ active' = active \cup {u}
                /\ Creates(c, u)
        /\ UNCHANGED <<attempt, disabled, opened, linkedBy>>

SessionLives(a)  == \E s \in LiveSessions(attempt[a].user) : s.from = attempt[a].by
UserLives(a)     == attempt[a].user \in active
MayTakeOver(a, i) == SessionLives(a) /\ UserLives(a)
MayLinkLater(a, i) == UserLives(a) /\ owner[i] \in {None, attempt[a].user}
MayLink(a, i) == SessionLives(a) /\ UserLives(a) /\ owner[i] \in {None, attempt[a].user}

\* The initiating session and its user are locked while the identity is linked.
LinkIdentity(c) ==
    LET a == callback[c].attempt
        i == callback[c].identity
    IN  /\ callback[c].at = "resolving" /\ attempt[a].purpose = "LINK"
        /\ IF MayLink(a, i)
           THEN /\ owner' = [owner EXCEPT ![i] = attempt[a].user]
                /\ linkedBy' = linkedBy \cup {[identity |-> i, live |-> SessionLives(a)]}
                /\ Creates(c, attempt[a].user)
           ELSE Becomes(c, "ended") /\ UNCHANGED <<owner, linkedBy>>
        /\ UNCHANGED <<attempt, active, disabled, opened>>

\* The user is the one the transaction before answered, disabled since or not.
CreateSession(c) ==
    /\ callback[c].at = "creating"
    /\ opened' = opened \cup
          {[from |-> c, attempt |-> callback[c].attempt, user |-> callback[c].user,
            identity |-> callback[c].identity, live |-> TRUE]}
    /\ Becomes(c, "ended")
    /\ UNCHANGED <<attempt, owner, active, disabled, linkedBy>>

-----------------------------------------------------------------------------
(* Sessions end, users are disabled *)

EndSession(s) ==
    /\ s.live /\ opened' = (opened \ {s}) \cup {[s EXCEPT !.live = FALSE]}
    /\ UNCHANGED <<attempt, callback, owner, active, disabled, linkedBy>>

DisableUser(u) ==
    /\ u \in active /\ active' = active \ {u} /\ disabled' = disabled \cup {u}
    /\ UNCHANGED <<attempt, callback, owner, opened, linkedBy>>

SignInNext ==
    \/ StartSignIn
    \/ \E a \in Attempts : ExpireAttempt(a) \/ ReadAttempt(a)
    \/ \E c \in Callbacks :
          \/ ConsumeAttempt(c) \/ ExchangeFails(c) \/ \E i \in Identities : Exchange(c, i)
          \/ ResolveOrCreateIdentity(c) \/ LinkIdentity(c) \/ CreateSession(c)
    \/ \E s \in opened : StartLink(s) \/ EndSession(s)
    \/ \E u \in active : DisableUser(u)

SignInSpec == SignInInit /\ [][SignInNext]_signInVars

-----------------------------------------------------------------------------
(* Properties *)

\* One proof by the provider opens one session, however often and at whatever
\* moment its callback is repeated.
OneSessionPerAttempt ==
    \A s, t \in opened : s.attempt = t.attempt => s = t

\* A session belongs to the owner of the identity it was opened with, whatever
\* was linked between the resolution of the identity and the session.
SessionNamesOwner == \A s \in opened : owner[s.identity] = s.user

\* An identity is linked only for a session that is live at that moment: not for
\* one that signed out while the provider was asked.
LinkedByLiveSession == \A l \in linkedBy : l.live
=============================================================================
