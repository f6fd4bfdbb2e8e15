------------------------------- MODULE Sessions -------------------------------
(***************************************************************************)
(* One browser and its application session                                 *)
(* (src/server/data/authentication-repository.ts,                          *)
(* src/server/auth/application-session.ts, src/proxy.ts).                  *)
(*                                                                         *)
(* A token is known by the version of the session it was issued for: the   *)
(* secrets of two versions differ.  Every request passes the proxy, which  *)
(* authenticates its cookie and may rotate the token; then a page          *)
(* authenticates the cookie once more, or the sign-out action revokes the  *)
(* session.  Transactions are READ COMMITTED, a read and a write each.     *)
(* Time is in units of a third of the rotation grace.                      *)
(***************************************************************************)
EXTENDS Naturals

CONSTANTS
    Requests,                        \* bound: requests under way at once
    Rotation, Grace, Idle, Absolute, \* the lifetimes, in units of time
    Flight,                          \* assumption: a request is answered within Flight,
                                     \* less than half the grace
    MaxClock,                        \* bound: the instants looked at
    None

VARIABLES
    session,    \* the row of the session
    cookie,     \* the token the browser keeps, None once it is cleared
    request,    \* what has become of each request; its reply holds the cookie to set,
                \* None to clear it, nothing to keep it
    clock,
    lostReply   \* history variable: a reply did not reach the browser

sessionVars == <<session, cookie, request, clock, lostReply>>

Least(i, j) == IF i < j THEN i ELSE j
Quiet == [at |-> "idle", kind |-> "page", token |-> 0, sent |-> 0, now |-> 0, plan |-> None,
          seen |-> 0, tries |-> 0, reply |-> {}]

SessionTypeOK ==
    /\ session \in [version : 1 .. MaxClock + 1, previousUntil : 0 .. MaxClock + Grace,
                    rotatedAt : 0 .. MaxClock, idleUntil : 0 .. Absolute,
                    ended : {None, "EXPIRED", "USER_SIGN_OUT"}]
    /\ cookie \in {None} \cup 1 .. session.version
    /\ \A r \in Requests :
          /\ request[r].at \in {"idle", "proxy", "proxyWrites", "page", "pageWrites",
                                "revoke", "revoking", "answered"}
          /\ request[r].reply \subseteq {None} \cup 1 .. session.version

\* createSession, and the cookie it sets
SessionInit ==
    /\ session = [version |-> 1, previousUntil |-> 0, rotatedAt |-> 0,
                  idleUntil |-> Least(Idle, Absolute), ended |-> None]
    /\ cookie = 1 /\ request = [r \in Requests |-> Quiet]
    /\ clock = 0 /\ lostReply = FALSE

-----------------------------------------------------------------------------
(* The browser *)

SendRequest(r, kind) ==
    /\ cookie # None /\ request[r].at = "idle"
    /\ request' = [request EXCEPT ![r] = [Quiet EXCEPT !.at = "proxy", !.kind = kind,
                                                       !.token = cookie, !.sent = clock]]
    /\ UNCHANGED <<session, cookie, clock, lostReply>>

ReceiveReply(r) ==
    /\ request[r].at = "answered"
    /\ cookie' \in IF request[r].reply = {} THEN {cookie} ELSE request[r].reply
    /\ request' = [request EXCEPT ![r] = Quiet]
    /\ UNCHANGED <<session, clock, lostReply>>

LoseReply(r) ==
    /\ request[r].at = "answered"
    /\ request' = [request EXCEPT ![r] = Quiet] /\ lostReply' = TRUE
    /\ UNCHANGED <<session, cookie, clock>>

ClockTicks ==
    /\ clock < MaxClock
    /\ \A r \in Requests : request[r].at # "idle" => clock < request[r].sent + Flight
    /\ clock' = clock + 1
    /\ UNCHANGED <<session, cookie, request, lostReply>>

-----------------------------------------------------------------------------
(* authenticateSessionToken, by the proxy and by the page *)

Accepts(token, now) ==
    \/ token = session.version
    \/ token = session.version - 1 /\ session.previousUntil > now

\* The proxy goes on with the request whatever it found; a refused token
\* clears the cookie in its reply.
Stage(r) == IF request[r].at \in {"proxy", "proxyWrites"} THEN "proxy" ELSE "page"
AfterProxy(r) == IF request[r].kind = "signOut" THEN "revoke" ELSE "page"
Answer(r, reply) ==
    request' = [request EXCEPT ![r].at = IF Stage(r) = "proxy" THEN AfterProxy(r) ELSE "answered",
                               ![r].reply = IF Stage(r) = "proxy" THEN reply ELSE @,
                               ![r].tries = 0, ![r].plan = None]

\* The instant of a call is taken once; a retry keeps it.
Now(r) == IF request[r].tries = 0 THEN clock ELSE request[r].now
MayRotate(r) ==
    /\ Stage(r) = "proxy" /\ request[r].token = session.version
    /\ Now(r) >= session.rotatedAt + Rotation

ReadSession(r) ==
    /\ request[r].at \in {"proxy", "page"}
    /\ IF ~Accepts(request[r].token, Now(r)) \/ session.ended # None
       THEN Answer(r, {None})
       ELSE request' = [request EXCEPT
                ![r].at = IF Stage(r) = "proxy" THEN "proxyWrites" ELSE "pageWrites", ![r].now = Now(r),
                ![r].seen = session.version,
                ![r].plan = CASE Least(session.idleUntil, Absolute) <= Now(r) -> "expire"
                              [] Least(session.idleUntil, Absolute) > Now(r) /\ MayRotate(r) -> "rotate"
                              [] OTHER -> "touch"]
    /\ UNCHANGED <<session, cookie, clock, lostReply>>

Touched(r) == Least(request[r].now + Idle, Absolute)

WriteExpiry(r) ==
    /\ request[r].plan = "expire"
    /\ session' = [session EXCEPT !.ended = IF @ = None THEN "EXPIRED" ELSE @]
    /\ Answer(r, {None})
    /\ UNCHANGED <<cookie, clock, lostReply>>

\* The update of an accepted request asks for no condition.
WriteTouch(r) ==
    /\ request[r].plan = "touch"
    /\ session' = [session EXCEPT !.idleUntil = Touched(r)]
    /\ Answer(r, {})
    /\ UNCHANGED <<cookie, clock, lostReply>>

UnchangedVersion(r) == session.version = request[r].seen
Unchanged(r)        == session.version = request[r].seen /\ session.ended = None

WriteRotation(r) ==
    /\ request[r].plan = "rotate"
    /\ IF Unchanged(r)
       THEN /\ session' = [session EXCEPT !.version = @ + 1, !.rotatedAt = request[r].now,
                                          !.previousUntil = request[r].now + Grace,
                                          !.idleUntil = Touched(r)]
            /\ Answer(r, {session.version + 1})
       ELSE /\ UNCHANGED session
            /\ IF request[r].tries = 0
               THEN request' = [request EXCEPT ![r].at = "proxy", ![r].tries = 1,
                                               ![r].plan = None]
               ELSE Answer(r, {None})
    /\ UNCHANGED <<cookie, clock, lostReply>>

-----------------------------------------------------------------------------
(* revokeSessionToken; the reply of a sign-out always clears the cookie *)

SignedOut(r) == request' = [request EXCEPT ![r].at = "answered", ![r].reply = {None}]

NeverPrevious(token, now) == token = session.version
RevokeAccepts(token, now) == Accepts(token, now)

ReadForSignOut(r) ==
    /\ request[r].at = "revoke"
    /\ IF session.ended = None /\ RevokeAccepts(request[r].token, clock)
       THEN request' = [request EXCEPT ![r].at = "revoking"]
       ELSE SignedOut(r)
    /\ UNCHANGED <<session, cookie, clock, lostReply>>

Revoke(r) ==
    /\ request[r].at = "revoking"
    /\ session' = [session EXCEPT !.ended = "USER_SIGN_OUT"]
    /\ SignedOut(r)
    /\ UNCHANGED <<cookie, clock, lostReply>>

SessionNext ==
    \/ ClockTicks
    \/ \E r \in Requests :
          \/ \E kind \in {"page", "signOut"} : SendRequest(r, kind)
          \/ ReceiveReply(r) \/ LoseReply(r)
          \/ ReadSession(r) \/ WriteExpiry(r) \/ WriteTouch(r) \/ WriteRotation(r)
          \/ ReadForSignOut(r) \/ Revoke(r)

SessionSpec == SessionInit /\ [][SessionNext]_sessionVars

-----------------------------------------------------------------------------
(* Properties *)

\* While the session has neither ended nor run out, the browser keeps the
\* current token or is about to receive it, however its requests overlap with a
\* rotation: no reply clears the cookie of a live session, and a sign-out that
\* clears it has ended the session.
CookieFollowsSession ==
    ~lostReply /\ session.ended = None /\ clock < Least(session.idleUntil, Absolute) =>
        \/ cookie = session.version
        \/ /\ cookie = session.version - 1
           /\ \E r \in Requests : session.version \in request[r].reply

\* A session that has ended issues no further token, not even to a request that
\* read it before.
NoTokenAfterEnd ==
    [][session.ended # None => session'.version = session.version]_sessionVars
=============================================================================
