---------------------------- MODULE ServicesProofs ----------------------------
(***************************************************************************)
(* Proofs about the services that stand beside the engine, for every value *)
(* of the constants that ServicesAssumption allows.  Each service has its  *)
(* inductive invariant, named after it; the services share no variables,   *)
(* so the conjunction of the six is inductive for MCServices!Spec.         *)
(***************************************************************************)
EXTENDS MCServices, Integers, FiniteSetTheorems, SequenceTheorems, TLAPS

-----------------------------------------------------------------------------
(* Sessions *)

Alive == ~lostReply /\ session.ended = None
Version == session.version

Row == [version : Nat, previousUntil : Nat, rotatedAt : Nat, idleUntil : Nat,
        ended : {None, "EXPIRED", "USER_SIGN_OUT"}]
Sent == [at : {"idle", "proxy", "proxyWrites", "page", "pageWrites", "revoke", "revoking", "answered"},
         kind : {"page", "signOut"}, token : Nat, sent : Nat, now : Nat,
         plan : {None, "expire", "rotate", "touch"}, seen : Nat, tries : {0, 1},
         reply : SUBSET ({None} \cup Nat)]

RowSound ==
    /\ session \in Row /\ clock \in 0 .. MaxClock /\ lostReply \in BOOLEAN
    /\ 1 <= session.version /\ session.version <= session.rotatedAt + 1
    /\ session.rotatedAt <= clock /\ session.idleUntil <= Absolute
    /\ session.previousUntil <= clock + Grace
    /\ session.version > 1 => session.previousUntil = session.rotatedAt + Grace

\* A request on its way: its token, its plan and its reply fit the session.
InFlight(r) == request[r].at \notin {"idle", "answered"}
RequestSound(r) ==
    /\ request[r] \in Sent
    /\ request[r].reply \subseteq {None} \cup 1 .. session.version
    /\ request[r].at \in {"idle", "proxy", "proxyWrites"} => request[r].reply = {}
    /\ request[r].at # "idle" =>
          /\ request[r].sent <= clock /\ clock <= request[r].sent + Flight
          /\ request[r].token \in 1 .. session.version
    /\ request[r].plan # None =>
          /\ request[r].at \in {"proxyWrites", "pageWrites"}
          /\ request[r].sent <= request[r].now /\ request[r].now <= clock
    /\ request[r].tries = 1 =>
          /\ request[r].at \in {"proxy", "proxyWrites"}
          /\ request[r].sent <= request[r].now /\ request[r].now <= clock
          /\ request[r].token < session.version \/ session.ended # None
    /\ request[r].plan = "rotate" =>
          /\ request[r].at = "proxyWrites" /\ request[r].token = request[r].seen
          /\ request[r].seen = session.version => request[r].now >= session.rotatedAt + Rotation
          /\ request[r].tries = 1 => session.ended # None
    /\ Alive /\ request[r].reply # {} =>
          request[r].reply = {session.version} /\ request[r].sent <= session.rotatedAt
    /\ Alive /\ InFlight(r) =>
          \/ request[r].token = session.version
          \/ request[r].token = session.version - 1 /\ request[r].sent <= session.rotatedAt + Flight

CookieSound ==
    /\ cookie \in {None} \cup 1 .. session.version
    /\ Alive => \/ cookie = session.version
                \/ /\ cookie = session.version - 1
                   /\ \E r \in Requests : session.version \in request[r].reply

SessionInv ==
    /\ RowSound /\ DOMAIN request = Requests
    /\ \A r \in Requests : RequestSound(r)
    /\ CookieSound

LEMMA SessionInitial ==
    ASSUME SessionAssumption, S!SessionInit
    PROVE  SessionInv
  <1>1. S!Quiet \in Sent /\ S!Quiet.at = "idle" /\ S!Quiet.reply = {} /\ S!Quiet.plan = None /\ S!Quiet.tries = 0
    BY DEF S!Quiet, Sent
  <1>2. S!Least(IdleLimit, Absolute) \in Nat /\ S!Least(IdleLimit, Absolute) <= Absolute
    BY DEF S!Least, SessionAssumption
  <1>3. /\ session = [version |-> 1, previousUntil |-> 0, rotatedAt |-> 0,
                      idleUntil |-> S!Least(IdleLimit, Absolute), ended |-> None]
        /\ cookie = 1 /\ request = [r \in Requests |-> S!Quiet] /\ clock = 0 /\ lostReply = FALSE
    BY DEF S!SessionInit
  <1>4. RowSound
    <2>1. session \in Row
      BY <1>2, <1>3 DEF Row
    <2>2. /\ session.version = 1 /\ session.rotatedAt = 0 /\ session.previousUntil = 0
          /\ session.idleUntil <= Absolute
      BY <1>2, <1>3
    <2>3. lostReply \in BOOLEAN
      BY <1>3
    <2>4. clock \in 0 .. MaxClock /\ 0 <= clock + Grace
      BY <1>3 DEF SessionAssumption
    <2> QED
      BY <1>3, <2>1, <2>2, <2>3, <2>4 DEF RowSound
  <1>5. \A r \in Requests : RequestSound(r)
    BY <1>1, <1>3 DEF RequestSound, InFlight, SessionAssumption
  <1>6. CookieSound
    BY <1>3 DEF CookieSound
  <1> QED
    BY <1>3, <1>4, <1>5, <1>6 DEF SessionInv

LEMMA SessionHoldsEach ==
    ASSUME SessionAssumption, SessionInv
    PROVE  S!SessionTypeOK /\ S!CookieFollowsSession
  <1>1. S!SessionTypeOK
    BY DEF S!SessionTypeOK, SessionInv, RowSound, RequestSound, CookieSound, Row, Sent, SessionAssumption
  <1>2. S!CookieFollowsSession
    BY DEF S!CookieFollowsSession, SessionInv, CookieSound, Alive
  <1> QED
    BY <1>1, <1>2

\* The token is not rotated; the session may end, a reply be lost.
Calm ==
    /\ session' \in Row /\ session'.version = session.version
    /\ session'.rotatedAt = session.rotatedAt /\ session'.previousUntil = session.previousUntil
    /\ session'.idleUntil <= Absolute /\ clock' = clock
    /\ session.ended # None => session'.ended # None
    /\ lostReply' \in BOOLEAN /\ (lostReply => lostReply')

LEMMA CalmKeeps ==
    ASSUME SessionAssumption, SessionInv, Calm
    PROVE  /\ RowSound'
           /\ \A r \in Requests : request'[r] = request[r] => RequestSound(r)'
  <1>1. Alive' => Alive
    BY DEF Calm, Alive, RowSound, SessionInv
  <1>2. RowSound'
    BY DEF Calm, RowSound, SessionInv
  <1>3. ASSUME NEW r \in Requests, request'[r] = request[r] PROVE RequestSound(r)'
    <2>1. RequestSound(r)
      BY DEF SessionInv
    <2> QED
      BY <1>1, <1>3, <2>1 DEF RequestSound, InFlight, Calm
  <1> QED
    BY <1>2, <1>3

\* One request moves, and the browser's cookie does not.
LEMMA RequestMoves ==
    ASSUME SessionAssumption, SessionInv, Calm, cookie' = cookie, NEW r \in Requests, NEW q \in Sent,
           request' = [request EXCEPT ![r] = q], RequestSound(r)',
           Alive' => session.version \notin request[r].reply \/ session.version \in q.reply
    PROVE  SessionInv'
  <1>1. DOMAIN request' = Requests /\ request'[r] = q /\ \A s \in Requests : s # r => request'[s] = request[s]
    BY DEF SessionInv
  <1>2. RowSound' /\ \A s \in Requests : RequestSound(s)'
    BY <1>1, CalmKeeps
  <1>3. CookieSound'
    <2>1. Alive' => Alive
      BY DEF Calm, Alive, RowSound, SessionInv
    <2>2. \A s \in Requests : Alive' /\ session.version \in request[s].reply => session.version \in request'[s].reply
      BY <1>1
    <2> QED
      BY <2>1, <2>2 DEF CookieSound, SessionInv, Calm
  <1> QED
    BY <1>1, <1>2, <1>3 DEF SessionInv

LEMMA Browsing ==
    ASSUME SessionAssumption, SessionInv, NEW r \in Requests,
           \/ \E kind \in {"page", "signOut"} : S!SendRequest(r, kind)
           \/ S!ReceiveReply(r) \/ S!LoseReply(r)
    PROVE  SessionInv'
  <1>1. S!Quiet \in Sent /\ S!Quiet.at = "idle" /\ S!Quiet.reply = {} /\ S!Quiet.plan = None /\ S!Quiet.tries = 0
    BY DEF S!Quiet, Sent
  <1>2. /\ session \in Row /\ session.version \in Nat /\ session.rotatedAt \in Nat /\ clock \in Nat
        /\ Flight \in Nat /\ RequestSound(r) /\ request[r] \in Sent
    BY DEF SessionInv, RowSound, Row, RequestSound, SessionAssumption
  <1>3. ASSUME NEW kind \in {"page", "signOut"}, S!SendRequest(r, kind) PROVE SessionInv'
    <2>1. /\ cookie # None /\ request[r].at = "idle"
          /\ UNCHANGED <<session, cookie, clock, lostReply>>
          /\ request' = [request EXCEPT ![r] = [S!Quiet EXCEPT !.at = "proxy", !.kind = kind,
                                                               !.token = cookie, !.sent = clock]]
      BY <1>3 DEF S!SendRequest
    <2>2. cookie \in 1 .. session.version
      BY <2>1 DEF SessionInv, CookieSound
    <2>3. PICK q \in Sent : q = [S!Quiet EXCEPT !.at = "proxy", !.kind = kind, !.token = cookie, !.sent = clock]
      <3>1. cookie \in Nat /\ clock \in Nat
        BY <1>2, <2>2
      <3>2. [S!Quiet EXCEPT !.at = "proxy", !.kind = kind, !.token = cookie, !.sent = clock] \in Sent
        BY <1>1, <3>1 DEF Sent
      <3> QED
        BY <3>2
    <2>4. /\ q.at = "proxy" /\ q.token = cookie /\ q.sent = clock /\ q.plan = None /\ q.tries = 0 /\ q.reply = {}
      BY <2>3 DEF S!Quiet
    <2>5. request' = [request EXCEPT ![r] = q] /\ request'[r] = q
      BY <2>1, <2>3 DEF SessionInv
    <2>6. Calm /\ (Alive' <=> Alive)
      BY <2>1 DEF Calm, Alive, SessionInv, RowSound
    <2>7. Alive => cookie = session.version \/ (cookie = session.version - 1 /\ clock <= session.rotatedAt + Flight)
      <3>1. ASSUME Alive, NEW s \in Requests, session.version \in request[s].reply
            PROVE  clock <= session.rotatedAt + Flight
        <4>1. /\ request[s].sent <= session.rotatedAt /\ clock <= request[s].sent + Flight
              /\ request[s].sent \in Nat
          BY <3>1 DEF SessionInv, RequestSound, Sent
        <4> QED
          BY <1>2, <4>1
      <3> QED
        BY <3>1 DEF SessionInv, CookieSound
    <2>8. RequestSound(r)'
      <3>1. None # "rotate" /\ None \notin Nat
        BY DEF SessionAssumption
      <3>2. clock <= clock + Flight /\ cookie \in 1 .. session.version
        BY <1>2, <2>2
      <3>3. request'[r].reply \subseteq {None} \cup 1 .. session'.version
        BY <2>4, <2>5
      <3>4. /\ request'[r].at = "proxy" /\ request'[r].token = cookie /\ request'[r].sent = clock
            /\ request'[r].plan = None /\ request'[r].tries = 0 /\ request'[r].reply = {} /\ request'[r] \in Sent
        BY <2>4, <2>5
      <3>5. session' = session /\ clock' = clock
        BY <2>1
      <3>6. \/ ~Alive' \/ cookie = session.version
            \/ (cookie = session.version - 1 /\ clock <= session.rotatedAt + Flight)
        BY <2>6, <2>7
      <3> HIDE DEF Sent, Alive
      <3> QED
        BY <1>2, <3>1, <3>2, <3>3, <3>4, <3>5, <3>6 DEF RequestSound, InFlight
    <2>9. request[r].reply = {}
      BY <1>2, <2>1 DEF RequestSound
    <2> QED
      BY <2>1, <2>5, <2>6, <2>8, <2>9, RequestMoves
  <1>4. CASE S!ReceiveReply(r)
    <2>1. /\ request' = [request EXCEPT ![r] = S!Quiet]
          /\ cookie' \in IF request[r].reply = {} THEN {cookie} ELSE request[r].reply
          /\ UNCHANGED <<session, clock, lostReply>> /\ request[r].at = "answered"
      BY <1>4 DEF S!ReceiveReply
    <2>2. Calm /\ (Alive' <=> Alive)
      BY <2>1 DEF Calm, Alive, SessionInv, RowSound
    <2>3. DOMAIN request' = Requests /\ request'[r] = S!Quiet /\ \A s \in Requests : s # r => request'[s] = request[s]
      BY <2>1 DEF SessionInv
    <2>4. RequestSound(r)'
      BY <1>1, <2>3 DEF RequestSound, InFlight, S!Quiet, SessionAssumption
    <2>5. CookieSound'
      <3>1. request[r].reply = {} => cookie' = cookie /\ \A s \in Requests : request[s].reply # {} => s # r
        BY <2>1
      <3>2. request[r].reply # {} =>
               cookie' \in {None} \cup 1 .. session.version /\ (Alive => cookie' = session.version)
        BY <1>2, <2>1 DEF RequestSound
      <3> QED
        BY <2>1, <2>2, <2>3, <3>1, <3>2 DEF CookieSound, SessionInv
    <2> QED
      BY <2>2, <2>3, <2>4, <2>5, CalmKeeps DEF SessionInv
  <1>5. CASE S!LoseReply(r)
    <2>1. /\ request' = [request EXCEPT ![r] = S!Quiet] /\ lostReply' = TRUE
          /\ UNCHANGED <<session, cookie, clock>>
      BY <1>5 DEF S!LoseReply
    <2>2. Calm /\ ~Alive'
      BY <2>1 DEF Calm, Alive, SessionInv, RowSound
    <2>3. request'[r] = S!Quiet
      BY <2>1 DEF SessionInv
    <2>4. RequestSound(r)'
      BY <1>1, <2>3 DEF RequestSound, InFlight, S!Quiet, SessionAssumption
    <2> QED
      BY <1>1, <2>1, <2>2, <2>4, RequestMoves
  <1> QED
    BY <1>3, <1>4, <1>5

\* A request under way is accepted while the session is alive: it was sent before its
\* token was replaced or shortly after.
LEMMA AliveAccepts ==
    ASSUME SessionAssumption, SessionInv, Alive, NEW r \in Requests, InFlight(r),
           NEW now \in Nat, now <= clock
    PROVE  S!Accepts(request[r].token, now)
  <1>1. /\ request[r].token \in Nat /\ 1 <= request[r].token /\ request[r].sent \in Nat
        /\ clock <= request[r].sent + Flight
        /\ \/ request[r].token = session.version
           \/ request[r].token = session.version - 1 /\ request[r].sent <= session.rotatedAt + Flight
    BY DEF SessionInv, RequestSound, Sent, InFlight
  <1>2. /\ session.version \in Nat /\ session.rotatedAt \in Nat /\ clock \in Nat /\ Flight \in Nat /\ Grace \in Nat
        /\ 2 * Flight < Grace
        /\ session.version > 1 => session.previousUntil = session.rotatedAt + Grace
    BY DEF SessionInv, RowSound, Row, SessionAssumption
  <1> QED
    BY <1>1, <1>2 DEF S!Accepts

\* What the answer of a transaction leaves of a request.
LEMMA AnswerIs ==
    ASSUME SessionAssumption, SessionInv, NEW r \in Requests,
           request[r].at \in {"proxy", "proxyWrites", "page", "pageWrites"},
           NEW reply \in SUBSET ({None} \cup Nat), S!Answer(r, reply)
    PROVE  \E q \in Sent :
              /\ request' = [request EXCEPT ![r] = q]
              /\ q.token = request[r].token /\ q.sent = request[r].sent
              /\ q.plan = None /\ q.tries = 0
              /\ \/ /\ request[r].at \in {"proxy", "proxyWrites"} /\ q.at \in {"page", "revoke"}
                    /\ q.reply = reply
                 \/ /\ request[r].at \in {"page", "pageWrites"} /\ q.at = "answered"
                    /\ q.reply = request[r].reply
  <1>1. request[r] \in Sent /\ DOMAIN request = Requests
    BY DEF SessionInv, RequestSound
  <1>2. CASE request[r].at \in {"proxy", "proxyWrites"}
    <2>1. PICK at \in {"page", "revoke"} : at = S!AfterProxy(r)
      BY DEF S!AfterProxy
    <2>2. S!Stage(r) = "proxy"
      BY <1>2 DEF S!Stage
    <2>3. PICK q \in Sent : q = [request[r] EXCEPT !.at = at, !.reply = reply, !.tries = 0, !.plan = None]
      BY <1>1 DEF Sent
    <2>4. request' = [request EXCEPT ![r] = q]
      BY <1>1, <2>1, <2>2, <2>3 DEF S!Answer
    <2>5. /\ q.token = request[r].token /\ q.sent = request[r].sent
          /\ q.plan = None /\ q.tries = 0 /\ q.at = at /\ q.reply = reply
      BY <1>1, <2>3 DEF Sent
    <2> QED
      BY <1>2, <2>1, <2>4, <2>5
  <1>3. CASE request[r].at \in {"page", "pageWrites"}
    <2>2. S!Stage(r) = "page"
      BY <1>3 DEF S!Stage
    <2>3. PICK q \in Sent : q = [request[r] EXCEPT !.at = "answered", !.tries = 0, !.plan = None]
      BY <1>1 DEF Sent
    <2>4. request' = [request EXCEPT ![r] = q]
      BY <1>1, <2>2, <2>3 DEF S!Answer
    <2>5. /\ q.token = request[r].token /\ q.sent = request[r].sent
          /\ q.plan = None /\ q.tries = 0 /\ q.at = "answered" /\ q.reply = request[r].reply
      BY <1>1, <2>3 DEF Sent
    <2> QED
      BY <1>3, <2>4, <2>5
  <1> QED
    BY <1>2, <1>3

\* An answer that clears the cookie is given only when the session is not alive.
LEMMA Answering ==
    ASSUME SessionAssumption, SessionInv, Calm, cookie' = cookie, NEW r \in Requests,
           request[r].at \in {"proxy", "proxyWrites", "page", "pageWrites"},
           NEW reply \in {{}, {None}}, S!Answer(r, reply), reply = {} \/ ~Alive'
    PROVE  SessionInv'
  <1>1. PICK q \in Sent :
              /\ request' = [request EXCEPT ![r] = q]
              /\ q.token = request[r].token /\ q.sent = request[r].sent
              /\ q.plan = None /\ q.tries = 0
              /\ \/ /\ request[r].at \in {"proxy", "proxyWrites"} /\ q.at \in {"page", "revoke"}
                    /\ q.reply = reply
                 \/ /\ request[r].at \in {"page", "pageWrites"} /\ q.at = "answered"
                    /\ q.reply = request[r].reply
    BY AnswerIs
  <1>2. request'[r] = q /\ RequestSound(r)
    BY <1>1 DEF SessionInv
  <1>3. Alive' => Alive
    BY DEF Calm, Alive, RowSound, SessionInv
  <1>4. q.reply \subseteq {None} \cup 1 .. session'.version
    BY <1>1, <1>2 DEF RequestSound, Calm
  <1>5. RequestSound(r)'
    <2>1. /\ session'.version = session.version /\ session'.rotatedAt = session.rotatedAt /\ clock' = clock
          /\ None # "rotate"
      BY DEF Calm, SessionAssumption
    <2>2. Alive' /\ q.reply # {} => q.reply = {session'.version} /\ q.sent <= session'.rotatedAt
      BY <1>1, <1>2, <1>3, <2>1 DEF RequestSound
    <2>3. Alive' => \/ q.token = session'.version
                    \/ q.token = session'.version - 1 /\ q.sent <= session'.rotatedAt + Flight
      BY <1>1, <1>2, <1>3, <2>1 DEF RequestSound, InFlight
    <2>4. q.sent <= clock' /\ clock' <= q.sent + Flight /\ q.token \in 1 .. session'.version
      BY <1>1, <1>2, <2>1 DEF RequestSound
    <2> HIDE DEF Alive, Sent
    <2> QED
      BY <1>1, <1>2, <1>4, <2>1, <2>2, <2>3, <2>4 DEF RequestSound, InFlight
  <1>6. Alive' => session.version \notin request[r].reply \/ session.version \in q.reply
    BY <1>1, <1>2 DEF RequestSound
  <1> QED
    BY <1>1, <1>5, <1>6, RequestMoves

\* Reading the session: a live one is never refused; the plan fits what was read.
LEMMA ReadingSession ==
    ASSUME SessionAssumption, SessionInv, NEW r \in Requests, S!ReadSession(r)
    PROVE  SessionInv' /\ session' = session
  <1>1. request[r].at \in {"proxy", "page"} /\ UNCHANGED <<session, cookie, clock, lostReply>>
    BY DEF S!ReadSession
  <1>2. RequestSound(r) /\ request[r] \in Sent /\ InFlight(r) /\ DOMAIN request = Requests
    BY <1>1 DEF SessionInv, RequestSound, InFlight
  <1>3. Calm /\ (Alive' <=> Alive)
    BY <1>1 DEF Calm, Alive, SessionInv, RowSound
  <1>4. /\ S!Now(r) \in Nat /\ S!Now(r) <= clock /\ request[r].sent <= S!Now(r)
        /\ clock \in Nat /\ session.version \in Nat /\ session.rotatedAt \in Nat
    BY <1>1, <1>2 DEF S!Now, RequestSound, Sent, SessionInv, RowSound, Row
  <1>5. CASE ~S!Accepts(request[r].token, S!Now(r)) \/ session.ended # None
    <2>1. S!Answer(r, {None})
      BY <1>5 DEF S!ReadSession
    <2>2. ~Alive
      BY <1>2, <1>4, <1>5, AliveAccepts DEF Alive
    <2> QED
      BY <1>1, <1>3, <2>1, <2>2, Answering
  <1>6. CASE S!Accepts(request[r].token, S!Now(r)) /\ session.ended = None
    <2>1. PICK way \in {"proxyWrites", "pageWrites"} : way = IF S!Stage(r) = "proxy" THEN "proxyWrites" ELSE "pageWrites"
      OBVIOUS
    <2>2. PICK intent \in {"expire", "rotate", "touch"} :
             intent = CASE S!Least(session.idleUntil, Absolute) <= S!Now(r) -> "expire"
                        [] S!Least(session.idleUntil, Absolute) > S!Now(r) /\ S!MayRotate(r) -> "rotate"
                        [] OTHER -> "touch"
      OBVIOUS
    <2>3. intent = "rotate" => S!MayRotate(r)
      <3>1. S!Least(session.idleUntil, Absolute) \in Nat
        BY DEF S!Least, SessionInv, RowSound, Row, SessionAssumption
      <3> QED
        BY <1>4, <2>2, <3>1
    <2>4. PICK q \in Sent : q = [request[r] EXCEPT !.at = way, !.now = S!Now(r), !.seen = session.version, !.plan = intent]
      BY <1>2, <1>4 DEF Sent
    <2>5. request' = [request EXCEPT ![r] = q]
      <3>1. request' = [request EXCEPT
                ![r].at = IF S!Stage(r) = "proxy" THEN "proxyWrites" ELSE "pageWrites", ![r].now = S!Now(r),
                ![r].seen = session.version,
                ![r].plan = CASE S!Least(session.idleUntil, Absolute) <= S!Now(r) -> "expire"
                              [] S!Least(session.idleUntil, Absolute) > S!Now(r) /\ S!MayRotate(r) -> "rotate"
                              [] OTHER -> "touch"]
        BY <1>6 DEF S!ReadSession
      <3> QED
        BY <1>2, <2>1, <2>2, <2>4, <3>1
    <2>6. /\ q.at = way /\ q.now = S!Now(r) /\ q.seen = session.version /\ q.plan = intent
          /\ q.token = request[r].token /\ q.sent = request[r].sent /\ q.tries = request[r].tries
          /\ q.reply = request[r].reply
      BY <1>2, <2>4 DEF Sent
    <2>7. request'[r] = q
      BY <1>2, <2>5
    <2>8. \/ request[r].at = "proxy" /\ way = "proxyWrites"
          \/ request[r].at = "page" /\ way = "pageWrites"
      BY <1>1, <2>1 DEF S!Stage
    <2>9. RequestSound(r)'
      <3>1. intent = "rotate" => /\ way = "proxyWrites" /\ q.token = session.version
                                 /\ q.now >= session.rotatedAt + Rotation /\ q.tries # 1
        BY <1>1, <1>2, <1>4, <1>6, <2>3, <2>6, <2>8 DEF S!MayRotate, S!Stage, RequestSound, SessionInv
      <3>2. q.tries = 1 => /\ way = "proxyWrites"
                           /\ q.token < session.version \/ session.ended # None
        BY <1>2, <2>6, <2>8 DEF RequestSound
      <3>3. /\ q.reply \subseteq {None} \cup 1 .. session.version
            /\ way = "proxyWrites" => q.reply = {}
            /\ q.sent <= clock /\ clock <= q.sent + Flight /\ q.token \in 1 .. session.version
            /\ q.sent <= q.now /\ q.now <= clock
            /\ Alive /\ q.reply # {} => q.reply = {session.version} /\ q.sent <= session.rotatedAt
            /\ Alive => \/ q.token = session.version
                        \/ q.token = session.version - 1 /\ q.sent <= session.rotatedAt + Flight
        BY <1>2, <1>4, <2>6, <2>8 DEF RequestSound
      <3> HIDE DEF Alive, Sent
      <3> QED
        BY <1>1, <1>3, <2>4, <2>6, <2>7, <3>1, <3>2, <3>3 DEF RequestSound, InFlight
    <2> QED
      BY <1>1, <1>3, <2>5, <2>6, <2>9, RequestMoves
  <1> QED
    BY <1>1, <1>5, <1>6

LEMMA Expiring ==
    ASSUME SessionAssumption, SessionInv, NEW r \in Requests, S!WriteExpiry(r) \/ S!WriteTouch(r)
    PROVE  SessionInv' /\ session'.version = session.version
  <1>1. /\ request[r].plan # None /\ UNCHANGED <<cookie, clock, lostReply>>
        /\ request[r].plan = "touch" \/ request[r].plan = "expire"
    BY DEF S!WriteExpiry, S!WriteTouch, SessionAssumption
  <1>2. RequestSound(r) /\ request[r] \in Sent /\ request[r].at \in {"proxyWrites", "pageWrites"}
    BY <1>1 DEF SessionInv, RequestSound
  <1>3. session \in Row /\ lostReply \in BOOLEAN /\ session.idleUntil <= Absolute
    BY DEF SessionInv, RowSound
  <1>4. CASE S!WriteExpiry(r)
    <2>1. session' = [session EXCEPT !.ended = IF @ = None THEN "EXPIRED" ELSE @] /\ S!Answer(r, {None})
      BY <1>4 DEF S!WriteExpiry
    <2>2. /\ session' \in Row /\ session'.ended # None /\ session'.version = session.version
          /\ session'.rotatedAt = session.rotatedAt /\ session'.previousUntil = session.previousUntil
          /\ session'.idleUntil = session.idleUntil
      BY <1>3, <2>1 DEF Row, SessionAssumption
    <2>3. Calm /\ ~Alive'
      BY <1>1, <1>3, <2>2 DEF Calm, Alive
    <2> QED
      BY <1>1, <1>2, <2>1, <2>2, <2>3, Answering
  <1>5. CASE S!WriteTouch(r)
    <2>1. session' = [session EXCEPT !.idleUntil = S!Touched(r)] /\ S!Answer(r, {})
      BY <1>5 DEF S!WriteTouch
    <2>2. S!Touched(r) \in Nat /\ S!Touched(r) <= Absolute
      BY <1>2 DEF S!Touched, S!Least, Sent, SessionAssumption
    <2>3. /\ session' \in Row /\ session'.ended = session.ended /\ session'.version = session.version
          /\ session'.rotatedAt = session.rotatedAt /\ session'.previousUntil = session.previousUntil
          /\ session'.idleUntil <= Absolute
      BY <1>3, <2>1, <2>2 DEF Row
    <2>4. Calm
      BY <1>1, <1>3, <2>3 DEF Calm
    <2> QED
      BY <1>1, <1>2, <2>1, <2>3, <2>4, Answering
  <1> QED
    BY <1>4, <1>5

\* Nobody else is about to receive a token, or on the way with the one before the last,
\* when a token is rotated.
LEMMA Rotating ==
    ASSUME SessionAssumption, SessionInv, NEW r \in Requests, S!WriteRotation(r), S!Unchanged(r)
    PROVE  SessionInv' /\ session.ended = None
  <1>1. /\ request[r].plan = "rotate" /\ None # "rotate" /\ UNCHANGED <<cookie, clock, lostReply>>
        /\ session.version = request[r].seen /\ session.ended = None
        /\ session' = [session EXCEPT !.version = @ + 1, !.rotatedAt = request[r].now,
                                      !.previousUntil = request[r].now + Grace,
                                      !.idleUntil = S!Touched(r)]
        /\ S!Answer(r, {session.version + 1})
    BY DEF S!WriteRotation, S!Unchanged, SessionAssumption
  <1>2. RequestSound(r) /\ request[r] \in Sent
    BY DEF SessionInv, RequestSound
  <1>3. /\ request[r].at = "proxyWrites" /\ request[r].token = session.version
        /\ request[r].now \in Nat /\ request[r].sent \in Nat
        /\ request[r].now >= session.rotatedAt + Rotation /\ request[r].now <= clock
        /\ request[r].sent <= request[r].now /\ clock <= request[r].sent + Flight
    BY <1>1, <1>2 DEF RequestSound, Sent
  <1>4. /\ session \in Row /\ session.version \in Nat /\ session.rotatedAt \in Nat /\ clock \in 0 .. MaxClock
        /\ lostReply \in BOOLEAN /\ 1 <= session.version /\ session.version <= session.rotatedAt + 1
        /\ Rotation \in Nat /\ Flight \in Nat /\ Grace \in Nat /\ 2 * Flight < Rotation /\ MaxClock \in Nat
    BY DEF SessionInv, RowSound, Row, SessionAssumption
  <1>5. S!Touched(r) \in Nat /\ S!Touched(r) <= Absolute
    BY <1>2 DEF S!Touched, S!Least, Sent, SessionAssumption
  <1>6. /\ session' \in Row /\ session'.ended = None /\ session'.version = session.version + 1
        /\ session'.rotatedAt = request[r].now /\ session'.previousUntil = request[r].now + Grace
        /\ session'.idleUntil <= Absolute
    <2>1. session.version + 1 \in Nat /\ request[r].now + Grace \in Nat
      BY <1>3, <1>4
    <2> QED
      BY <1>1, <1>3, <1>4, <1>5, <2>1 DEF Row
  <1>7. RowSound'
    <2>1. clock' = clock /\ lostReply' = lostReply
      BY <1>1
    <2>2. session'.version <= session'.rotatedAt + 1 /\ 1 <= session'.version
      <3>1. Rotation > 0
        BY <1>4
      <3> QED
        BY <1>3, <1>4, <1>6, <3>1
    <2>3. session'.previousUntil <= clock + Grace
      BY <1>3, <1>4, <1>6
    <2> HIDE DEF Row
    <2> QED
      BY <1>3, <1>4, <1>6, <2>1, <2>2, <2>3 DEF RowSound
  <1>8. {session.version + 1} \in SUBSET ({None} \cup Nat)
    BY <1>4
  <1>9. PICK q \in Sent :
              /\ request' = [request EXCEPT ![r] = q]
              /\ q.token = request[r].token /\ q.sent = request[r].sent
              /\ q.plan = None /\ q.tries = 0
              /\ q.at \in {"page", "revoke"} /\ q.reply = {session.version + 1}
    BY <1>1, <1>3, <1>8, AnswerIs
  <1>10. DOMAIN request' = Requests /\ request'[r] = q /\ \A s \in Requests : s # r => request'[s] = request[s]
    BY <1>9 DEF SessionInv
  <1>11. RequestSound(r)'
    <2>1. q.sent <= session'.rotatedAt /\ q.sent <= session'.rotatedAt + Flight /\ q.token = session'.version - 1
      BY <1>3, <1>4, <1>6, <1>9
    <2>2. /\ q.token \in 1 .. session'.version /\ q.sent <= clock /\ clock <= q.sent + Flight
          /\ q.reply \subseteq {None} \cup 1 .. session'.version /\ q.reply = {session'.version}
      BY <1>3, <1>4, <1>6, <1>9
    <2>3. clock' = clock
      BY <1>1
    <2> HIDE DEF Sent, Alive
    <2> QED
      BY <1>1, <1>9, <1>10, <2>1, <2>2, <2>3 DEF RequestSound, InFlight
  <1>12. ASSUME NEW s \in Requests, s # r PROVE RequestSound(s)' /\ (Alive => request[s].reply = {})
    <2>1. /\ RequestSound(s) /\ request'[s] = request[s] /\ request[s] \in Sent /\ request[s].sent \in Nat
          /\ request[s].token \in Nat
      BY <1>10, <1>12 DEF SessionInv, RequestSound, Sent
    <2>2. Alive => request[s].reply = {}
      <3>1. ASSUME Alive, request[s].reply # {} PROVE FALSE
        <4>1. request[s].at # "idle"
          BY <2>1, <3>1 DEF RequestSound
        <4>2. clock <= request[s].sent + Flight /\ request[s].sent <= session.rotatedAt
          BY <2>1, <3>1, <4>1 DEF RequestSound
        <4> QED
          BY <1>3, <1>4, <2>1, <4>2
      <3> QED
        BY <3>1
    <2>3. Alive /\ InFlight(s) => request[s].token = session'.version - 1 /\ request[s].sent <= session'.rotatedAt + Flight
      <3>1. ASSUME Alive, InFlight(s)
            PROVE  request[s].token = session.version /\ request[s].sent <= request[r].now + Flight
        <4>1. /\ request[s].sent <= clock /\ clock <= request[s].sent + Flight
              /\ \/ request[s].token = session.version
                 \/ request[s].sent <= session.rotatedAt + Flight
          BY <2>1, <3>1 DEF RequestSound, InFlight
        <4> QED
          BY <1>3, <1>4, <2>1, <4>1
      <3> QED
        BY <1>4, <1>6, <3>1
    <2>4. /\ request[s].reply \subseteq {None} \cup 1 .. session'.version
          /\ request[s].at # "idle" => request[s].token \in 1 .. session'.version
          /\ request[s].tries = 1 => request[s].token < session'.version
      BY <1>4, <1>6, <2>1 DEF RequestSound
    <2>5. request[s].plan = "rotate" => request[s].tries # 1 /\ request[s].seen # session'.version
      <3>1. request[s].plan = "rotate" => request[s].tries # 1 /\ request[s].seen = request[s].token
                                          /\ request[s].token \in 1 .. session.version
        BY <1>1, <2>1 DEF RequestSound
      <3> QED
        BY <1>4, <1>6, <3>1
    <2>6. Alive' => Alive
      BY <1>1 DEF Alive
    <2>7. RequestSound(s)'
      <3>1. clock' = clock
        BY <1>1
      <3>2. InFlight(s)' <=> InFlight(s)
        BY <2>1 DEF InFlight
      <3>3. Alive' => request[s].reply = {}
        BY <2>2, <2>6
      <3>4. Alive' /\ InFlight(s) => request[s].token = session'.version - 1 /\ request[s].sent <= session'.rotatedAt + Flight
        BY <2>3, <2>6
      <3> HIDE DEF Sent, Alive, InFlight
      <3> QED
        BY <2>1, <2>4, <2>5, <3>1, <3>2, <3>3, <3>4 DEF RequestSound
    <2> QED
      BY <2>2, <2>7
  <1>13. CookieSound'
    <2>1. cookie' = cookie /\ session'.version \in request'[r].reply
      BY <1>1, <1>6, <1>9, <1>10
    <2>2. cookie' \in {None} \cup 1 .. session'.version
      BY <1>4, <1>6, <2>1 DEF SessionInv, CookieSound
    <2>3. Alive' => Alive
      BY <1>1 DEF Alive
    <2>4. request[r].reply = {}
      BY <1>2, <1>3 DEF RequestSound
    <2>5. Alive => cookie = session'.version - 1
      <3>1. Alive => cookie = session.version
        BY <1>12, <2>4 DEF SessionInv, CookieSound
      <3> QED
        BY <1>4, <1>6, <3>1
    <2> QED
      BY <2>1, <2>2, <2>3, <2>5 DEF CookieSound
  <1> QED
    BY <1>1, <1>7, <1>10, <1>11, <1>12, <1>13 DEF SessionInv

\* A rotation that came too late is read once more, then refused.
LEMMA NotRotating ==
    ASSUME SessionAssumption, SessionInv, NEW r \in Requests, S!WriteRotation(r), ~S!Unchanged(r)
    PROVE  SessionInv' /\ session' = session
  <1>1. /\ request[r].plan = "rotate" /\ None # "rotate" /\ UNCHANGED <<session, cookie, clock, lostReply>>
        /\ request[r].tries = 0 =>
               request' = [request EXCEPT ![r].at = "proxy", ![r].tries = 1, ![r].plan = None]
        /\ request[r].tries # 0 => S!Answer(r, {None})
    BY DEF S!WriteRotation, SessionAssumption
  <1>2. RequestSound(r) /\ request[r] \in Sent /\ DOMAIN request = Requests
    BY DEF SessionInv, RequestSound
  <1>3. Calm /\ (Alive' <=> Alive)
    BY <1>1 DEF Calm, Alive, SessionInv, RowSound
  <1>4. request[r].at = "proxyWrites" /\ request[r].token = request[r].seen
    BY <1>1, <1>2 DEF RequestSound
  <1>5. CASE request[r].tries # 0
    <2>1. request[r].tries = 1
      BY <1>2, <1>5 DEF Sent
    <2>2. ~Alive'
      BY <1>1, <1>2, <1>3, <2>1 DEF RequestSound, Alive
    <2> QED
      BY <1>1, <1>3, <1>4, <1>5, <2>2, Answering
  <1>6. CASE request[r].tries = 0
    <2>1. PICK q \in Sent : q = [request[r] EXCEPT !.at = "proxy", !.tries = 1, !.plan = None]
      BY <1>2 DEF Sent
    <2>2. request' = [request EXCEPT ![r] = q]
      BY <1>1, <1>2, <1>6, <2>1
    <2>3. /\ q.at = "proxy" /\ q.tries = 1 /\ q.plan = None /\ q.token = request[r].token
          /\ q.sent = request[r].sent /\ q.reply = request[r].reply /\ q.now = request[r].now
      BY <1>2, <2>1 DEF Sent
    <2>4. q.token < session.version \/ session.ended # None
      <3>1. session.version \in Nat /\ request[r].token \in Nat /\ request[r].token <= session.version
        BY <1>2, <1>4 DEF RequestSound, Sent, SessionInv, RowSound, Row
      <3>2. session.version # request[r].token \/ session.ended # None
        BY <1>4 DEF S!Unchanged
      <3> QED
        BY <2>3, <3>1, <3>2
    <2>5. request'[r] = q
      BY <1>2, <2>2
    <2>6. RequestSound(r)'
      <3>1. /\ q.reply \subseteq {None} \cup 1 .. session.version /\ q.reply = {}
            /\ q.sent <= clock /\ clock <= q.sent + Flight /\ q.token \in 1 .. session.version
            /\ q.sent <= q.now /\ q.now <= clock
            /\ Alive => \/ q.token = session.version
                        \/ q.token = session.version - 1 /\ q.sent <= session.rotatedAt + Flight
        BY <1>1, <1>2, <1>4, <2>3 DEF RequestSound, InFlight
      <3> HIDE DEF Alive, Sent
      <3> QED
        BY <1>1, <1>3, <2>3, <2>4, <2>5, <3>1 DEF RequestSound, InFlight
    <2> QED
      BY <1>1, <1>3, <2>2, <2>3, <2>6, RequestMoves
  <1> QED
    BY <1>1, <1>5, <1>6

LEMMA SigningOut ==
    ASSUME SessionAssumption, SessionInv, NEW r \in Requests, S!ReadForSignOut(r) \/ S!Revoke(r)
    PROVE  SessionInv' /\ session'.version = session.version
  <1>1. RequestSound(r) /\ request[r] \in Sent /\ DOMAIN request = Requests
    BY DEF SessionInv, RequestSound
  <1>2. /\ session \in Row /\ lostReply \in BOOLEAN /\ session.idleUntil <= Absolute /\ clock \in Nat
    BY DEF SessionInv, RowSound
  <1>3. ASSUME Calm, cookie' = cookie, request[r].at \in {"revoke", "revoking"}, ~Alive', S!SignedOut(r)
        PROVE  SessionInv'
    <2>1. PICK q \in Sent : q = [request[r] EXCEPT !.at = "answered", !.reply = {None}]
      BY <1>1 DEF Sent
    <2>2. request' = [request EXCEPT ![r] = q]
      BY <1>1, <1>3, <2>1 DEF S!SignedOut
    <2>3. /\ q.at = "answered" /\ q.tries = request[r].tries /\ q.plan = request[r].plan
          /\ q.token = request[r].token /\ q.sent = request[r].sent /\ q.reply = {None}
      BY <1>1, <2>1 DEF Sent
    <2>4. request'[r] = q /\ session'.version = session.version /\ clock' = clock
      BY <1>1, <1>3, <2>2 DEF Calm
    <2>5. RequestSound(r)'
      <3>1. /\ q.reply \subseteq {None} \cup 1 .. session.version
            /\ q.sent <= clock /\ clock <= q.sent + Flight /\ q.token \in 1 .. session.version
            /\ q.plan = None /\ q.tries # 1 /\ None # "rotate"
        BY <1>1, <1>3, <2>3 DEF RequestSound, SessionAssumption
      <3> HIDE DEF Alive, Sent
      <3> QED
        BY <1>3, <2>3, <2>4, <3>1 DEF RequestSound, InFlight
    <2> QED
      BY <1>3, <2>2, <2>5, RequestMoves
  <1>4. CASE S!ReadForSignOut(r)
    <2>1. request[r].at = "revoke" /\ UNCHANGED <<session, cookie, clock, lostReply>>
      BY <1>4 DEF S!ReadForSignOut
    <2>2. Calm /\ (Alive' <=> Alive)
      BY <2>1 DEF Calm, Alive, SessionInv, RowSound
    <2>3. CASE session.ended = None /\ S!RevokeAccepts(request[r].token, clock)
      <3>1. request' = [request EXCEPT ![r].at = "revoking"]
        BY <1>4, <2>3 DEF S!ReadForSignOut
      <3>2. PICK q \in Sent : q = [request[r] EXCEPT !.at = "revoking"]
        BY <1>1 DEF Sent
      <3>3. request' = [request EXCEPT ![r] = q] /\ request'[r] = q
        BY <1>1, <3>1, <3>2
      <3>4. /\ q.at = "revoking" /\ q.tries = request[r].tries /\ q.plan = request[r].plan
            /\ q.token = request[r].token /\ q.sent = request[r].sent /\ q.reply = request[r].reply
        BY <1>1, <3>2 DEF Sent
      <3>5. RequestSound(r)'
        <4>1. /\ q.reply \subseteq {None} \cup 1 .. session.version
              /\ q.sent <= clock /\ clock <= q.sent + Flight /\ q.token \in 1 .. session.version
              /\ q.plan = None /\ q.tries # 1 /\ None # "rotate"
              /\ Alive /\ q.reply # {} => q.reply = {session.version} /\ q.sent <= session.rotatedAt
              /\ Alive => \/ q.token = session.version
                          \/ q.token = session.version - 1 /\ q.sent <= session.rotatedAt + Flight
          BY <1>1, <2>1, <3>4 DEF RequestSound, InFlight, SessionAssumption
        <4> HIDE DEF Alive, Sent
        <4> QED
          BY <2>1, <2>2, <3>3, <3>4, <4>1 DEF RequestSound, InFlight
      <3> QED
        BY <2>1, <2>2, <3>3, <3>4, <3>5, RequestMoves
    <2>4. CASE ~(session.ended = None /\ S!RevokeAccepts(request[r].token, clock))
      <3>1. S!SignedOut(r)
        BY <1>4, <2>4 DEF S!ReadForSignOut
      <3>2. Alive => S!Accepts(request[r].token, clock)
        BY <1>2, <2>1, AliveAccepts DEF InFlight
      <3>3. ~Alive'
        BY <2>2, <2>4, <3>2 DEF Alive, S!RevokeAccepts
      <3> QED
        BY <1>3, <2>1, <2>2, <3>1, <3>3
    <2> QED
      BY <2>1, <2>3, <2>4
  <1>5. CASE S!Revoke(r)
    <2>1. /\ request[r].at = "revoking" /\ UNCHANGED <<cookie, clock, lostReply>> /\ S!SignedOut(r)
          /\ session' = [session EXCEPT !.ended = "USER_SIGN_OUT"]
      BY <1>5 DEF S!Revoke
    <2>2. /\ session' \in Row /\ session'.ended # None /\ session'.version = session.version
          /\ session'.rotatedAt = session.rotatedAt /\ session'.previousUntil = session.previousUntil
          /\ session'.idleUntil = session.idleUntil
      BY <1>2, <2>1 DEF Row, SessionAssumption
    <2>3. Calm /\ ~Alive'
      BY <1>2, <2>1, <2>2 DEF Calm, Alive
    <2> QED
      BY <1>3, <2>1, <2>2, <2>3
  <1> QED
    BY <1>4, <1>5

LEMMA Ticking ==
    ASSUME SessionAssumption, SessionInv, S!ClockTicks
    PROVE  SessionInv' /\ session' = session
  <1>1. /\ clock < MaxClock /\ clock' = clock + 1 /\ UNCHANGED <<session, cookie, request, lostReply>>
        /\ \A r \in Requests : request[r].at # "idle" => clock < request[r].sent + Flight
    BY DEF S!ClockTicks
  <1>2. /\ clock \in Nat /\ clock' \in 0 .. MaxClock /\ clock <= clock' /\ session.rotatedAt \in Nat
        /\ session.previousUntil \in Nat /\ Flight \in Nat /\ Grace \in Nat
    BY <1>1 DEF SessionInv, RowSound, Row, SessionAssumption
  <1>3. RowSound'
    BY <1>1, <1>2 DEF SessionInv, RowSound
  <1>4. ASSUME NEW r \in Requests PROVE RequestSound(r)'
    <2>1. RequestSound(r) /\ request'[r] = request[r] /\ request[r].sent \in Nat /\ request[r].now \in Nat
      BY <1>1, <1>4 DEF SessionInv, RequestSound, Sent
    <2>2. /\ request[r].at # "idle" => request[r].sent <= clock' /\ clock' <= request[r].sent + Flight
          /\ request[r].now <= clock => request[r].now <= clock'
      BY <1>1, <1>2, <2>1 DEF RequestSound
    <2>3. (Alive' <=> Alive) /\ (InFlight(r)' <=> InFlight(r)) /\ session' = session
      BY <1>1 DEF Alive, InFlight
    <2> HIDE DEF Alive, Sent, InFlight
    <2> QED
      BY <2>1, <2>2, <2>3 DEF RequestSound
  <1>5. CookieSound'
    BY <1>1 DEF SessionInv, CookieSound, Alive
  <1> QED
    BY <1>1, <1>3, <1>4, <1>5 DEF SessionInv

LEMMA SessionStep ==
    ASSUME SessionAssumption, SessionInv, S!SessionNext
    PROVE  SessionInv' /\ (session.ended # None => session'.version = session.version)
  <1>1. CASE S!ClockTicks
    BY <1>1, Ticking
  <1>2. ASSUME NEW r \in Requests,
               \/ \E kind \in {"page", "signOut"} : S!SendRequest(r, kind)
               \/ S!ReceiveReply(r) \/ S!LoseReply(r)
        PROVE  SessionInv' /\ session' = session
    BY <1>2, Browsing DEF S!SendRequest, S!ReceiveReply, S!LoseReply
  <1>3. ASSUME NEW r \in Requests, S!ReadSession(r)
        PROVE  SessionInv' /\ session' = session
    BY <1>3, ReadingSession
  <1>4. ASSUME NEW r \in Requests, S!WriteExpiry(r) \/ S!WriteTouch(r) \/ S!ReadForSignOut(r) \/ S!Revoke(r)
        PROVE  SessionInv' /\ session'.version = session.version
    BY <1>4, Expiring, SigningOut
  <1>5. ASSUME NEW r \in Requests, S!WriteRotation(r)
        PROVE  SessionInv' /\ (session.ended = None \/ session' = session)
    BY <1>5, Rotating, NotRotating
  <1>6. \/ S!ClockTicks
        \/ \E r \in Requests :
              \/ \E kind \in {"page", "signOut"} : S!SendRequest(r, kind)
              \/ S!ReceiveReply(r) \/ S!LoseReply(r)
              \/ S!ReadSession(r) \/ S!WriteExpiry(r) \/ S!WriteTouch(r) \/ S!WriteRotation(r)
              \/ S!ReadForSignOut(r) \/ S!Revoke(r)
    BY DEF S!SessionNext
  <1> QED
    BY <1>1, <1>2, <1>3, <1>4, <1>5, <1>6

-----------------------------------------------------------------------------
(* Sign-in *)

Attempted == [purpose : {"SIGN_IN", "LINK"}, user : Users \cup {None}, by : Nat, consumed : BOOLEAN]
Received  == [at : {"consuming", "exchanging", "resolving", "creating", "ended"}, attempt : Nat,
              identity : Identities \cup {None}, user : Users \cup {None}]
Sessions0 == [from : Nat, attempt : Nat, user : Users, identity : Identities, live : BOOLEAN]

\* A callback that holds its attempt: it has consumed it and may still open a session.
Holding(c) == callback[c].at \in {"exchanging", "resolving", "creating"}

SignInShapes ==
    /\ attempt \in Seq(Attempted) /\ callback \in Seq(Received) /\ opened \subseteq Sessions0
    /\ owner \in [Identities -> {None} \cup active \cup disabled]
    /\ active \cap disabled = {} /\ active \cup disabled \subseteq Users
    /\ \A c \in I!Callbacks : callback[c].attempt \in I!Attempts
    /\ \A s \in opened : s.attempt \in I!Attempts
    /\ \A c \in I!Callbacks :
          callback[c].at \in {"resolving", "creating"} => callback[c].identity \in Identities

\* An attempt is held by one callback at a time, and by none once a session was opened with it.
HeldOnce ==
    /\ \A c \in I!Callbacks : Holding(c) => attempt[callback[c].attempt].consumed
    /\ \A c, d \in I!Callbacks :
          Holding(c) /\ Holding(d) /\ callback[c].attempt = callback[d].attempt => c = d
    /\ \A s \in opened : attempt[s.attempt].consumed
    /\ \A s \in opened, c \in I!Callbacks : Holding(c) => callback[c].attempt # s.attempt

\* A callback about to create a session names the owner of its identity.
CreatorsAreOwners ==
    \A c \in I!Callbacks : callback[c].at = "creating" =>
        callback[c].user # None /\ owner[callback[c].identity] = callback[c].user

SignInInv ==
    /\ SignInShapes
    /\ HeldOnce
    /\ CreatorsAreOwners
    /\ I!OneSessionPerAttempt /\ I!SessionNamesOwner /\ I!LinkedByLiveSession

LEMMA SignInInitial ==
    ASSUME SignInAssumption, I!SignInInit
    PROVE  SignInInv
  <1> USE DEF I!SignInInit, I!Callbacks, I!Attempts
  <1>1. SignInShapes
    BY DEF SignInShapes
  <1>2. HeldOnce
    BY DEF HeldOnce
  <1>3. CreatorsAreOwners
    BY DEF CreatorsAreOwners
  <1>4. I!OneSessionPerAttempt /\ I!SessionNamesOwner /\ I!LinkedByLiveSession
    BY DEF I!OneSessionPerAttempt, I!SessionNamesOwner, I!LinkedByLiveSession
  <1> QED
    BY <1>1, <1>2, <1>3, <1>4 DEF SignInInv

LEMMA SignInTypes ==
    ASSUME SignInInv
    PROVE  I!SignInTypeOK
  <1>1. /\ \A a \in I!Attempts : attempt[a] \in Attempted
        /\ \A c \in I!Callbacks : callback[c] \in Received
    BY DEF SignInInv, SignInShapes, I!Attempts, I!Callbacks
  <1> QED
    BY <1>1 DEF I!SignInTypeOK, SignInInv, SignInShapes, Attempted, Received

\* The sequences as functions
LEMMA SignInSequences ==
    ASSUME SignInInv
    PROVE  /\ Len(attempt) \in Nat /\ I!Attempts = 1 .. Len(attempt)
           /\ Len(callback) \in Nat /\ I!Callbacks = 1 .. Len(callback)
           /\ \A a \in I!Attempts : attempt[a] \in Attempted
           /\ \A c \in I!Callbacks : callback[c] \in Received /\ callback[c].attempt \in I!Attempts
  <1>1. attempt \in Seq(Attempted) /\ callback \in Seq(Received)
    BY DEF SignInInv, SignInShapes
  <1> QED
    BY <1>1 DEF SignInInv, SignInShapes, I!Attempts, I!Callbacks

\* Starting an attempt
LEMMA StartAttempt ==
    ASSUME SignInAssumption, SignInInv, NEW b \in Attempted, attempt' = Append(attempt, b),
           UNCHANGED <<callback, owner, active, disabled, opened, linkedBy>>
    PROVE  SignInInv'
  <1>1. /\ attempt' \in Seq(Attempted) /\ I!Attempts \subseteq I!Attempts'
        /\ \A a \in I!Attempts : attempt'[a] = attempt[a]
    BY DEF SignInInv, SignInShapes, I!Attempts
  <1>2. I!Callbacks' = I!Callbacks /\ \A c \in I!Callbacks : callback[c].attempt \in I!Attempts
    BY DEF I!Callbacks, SignInInv, SignInShapes
  <1>3. SignInShapes'
    BY <1>1, <1>2 DEF SignInInv, SignInShapes
  <1>4. \A s \in opened : s.attempt \in I!Attempts
    BY DEF SignInInv, SignInShapes
  <1>5. HeldOnce'
    BY <1>1, <1>2, <1>4 DEF SignInInv, HeldOnce, Holding
  <1>6. CreatorsAreOwners'
    BY <1>1, <1>2 DEF SignInInv, CreatorsAreOwners
  <1> QED
    BY <1>3, <1>5, <1>6 DEF SignInInv, I!OneSessionPerAttempt, I!SessionNamesOwner, I!LinkedByLiveSession

\* A callback arrives
LEMMA Arrival ==
    ASSUME SignInAssumption, SignInInv, NEW a \in I!Attempts, I!ReadAttempt(a)
    PROVE  SignInInv'
  <1> DEFINE new == [at |-> IF attempt[a].consumed THEN "ended" ELSE "consuming", attempt |-> a,
                     identity |-> None, user |-> None]
             n == Len(callback) + 1
  <1>1. /\ callback' = Append(callback, new)
        /\ UNCHANGED <<attempt, owner, active, disabled, opened, linkedBy>>
    BY DEF I!ReadAttempt
  <1>2. new \in Received /\ new.at \in {"ended", "consuming"} /\ new.attempt = a
    BY SignInSequences DEF Received
  <1> HIDE DEF new
  <1>3. /\ callback' \in Seq(Received) /\ I!Callbacks' = I!Callbacks \cup {n} /\ callback'[n] = new
        /\ \A c \in I!Callbacks : callback'[c] = callback[c] /\ c # n
    BY <1>1, <1>2, SignInSequences DEF SignInInv, SignInShapes, I!Callbacks
  <1>4. I!Attempts' = I!Attempts
    BY <1>1 DEF I!Attempts
  <1>5. SignInShapes'
    BY <1>1, <1>2, <1>3, <1>4 DEF SignInInv, SignInShapes
  <1>6. \A c \in I!Callbacks' : Holding(c)' <=> c \in I!Callbacks /\ Holding(c)
    BY <1>2, <1>3 DEF Holding
  <1>7. HeldOnce'
    <2>1. \A c \in I!Callbacks' : Holding(c)' =>
             c \in I!Callbacks /\ Holding(c) /\ callback'[c].attempt = callback[c].attempt
      BY <1>3, <1>6
    <2>2. HeldOnce /\ attempt' = attempt /\ opened' = opened
      BY <1>1 DEF SignInInv
    <2> QED
      BY <2>1, <2>2 DEF HeldOnce
  <1>8. CreatorsAreOwners'
    BY <1>1, <1>2, <1>3 DEF SignInInv, CreatorsAreOwners
  <1> QED
    BY <1>1, <1>5, <1>7, <1>8 DEF SignInInv, I!OneSessionPerAttempt, I!SessionNamesOwner, I!LinkedByLiveSession

\* A callback goes on
Moved(c, b) ==
    /\ I!Callbacks' = I!Callbacks /\ callback' \in Seq(Received)
    /\ callback'[c] = b /\ \A d \in I!Callbacks : d # c => callback'[d] = callback[d]

LEMMA CallbackMoves ==
    ASSUME SignInInv, NEW c \in I!Callbacks, NEW b \in Received, callback' = [callback EXCEPT ![c] = b]
    PROVE  Moved(c, b)
  <1>1. callback \in Seq(Received)
    BY DEF SignInInv, SignInShapes
  <1> QED
    BY <1>1 DEF Moved, I!Callbacks

\* No callback comes to hold an attempt.
LEMMA HoldersStay ==
    ASSUME SignInInv, I!Callbacks' = I!Callbacks,
           \A c \in I!Callbacks : callback'[c].attempt = callback[c].attempt /\ (Holding(c)' => Holding(c)),
           \A a \in I!Attempts : attempt[a].consumed => attempt'[a].consumed,
           \A s \in opened' : \E t \in opened : s.attempt = t.attempt
    PROVE  HeldOnce'
  <1>1. HeldOnce /\ SignInShapes
    BY DEF SignInInv
  <1>2. \A s \in opened' : attempt'[s.attempt].consumed
    BY <1>1 DEF HeldOnce, SignInShapes
  <1>3. \A c \in I!Callbacks : Holding(c)' => attempt'[callback'[c].attempt].consumed
    BY <1>1 DEF HeldOnce, SignInShapes
  <1>4. \A s \in opened', c \in I!Callbacks : Holding(c)' => callback'[c].attempt # s.attempt
    BY <1>1 DEF HeldOnce
  <1> QED
    BY <1>1, <1>2, <1>3, <1>4 DEF HeldOnce

LEMMA Consumption ==
    ASSUME SignInAssumption, SignInInv, NEW c \in I!Callbacks, I!ConsumeAttempt(c)
    PROVE  SignInInv'
  <1> DEFINE a == callback[c].attempt
             b == [callback[c] EXCEPT !.at = IF attempt[a].consumed THEN "ended" ELSE "exchanging"]
  <1>1. /\ callback[c].at = "consuming" /\ attempt' = [attempt EXCEPT ![a].consumed = TRUE]
        /\ UNCHANGED <<owner, active, disabled, opened, linkedBy>>
    BY DEF I!ConsumeAttempt
  <1>2. callback' = [callback EXCEPT ![c] = b]
    BY DEF I!ConsumeAttempt, I!Becomes, I!Consumed, I!Callbacks
  <1>3. /\ b \in Received /\ b.attempt = a /\ b.identity = callback[c].identity
        /\ b.at = IF attempt[a].consumed THEN "ended" ELSE "exchanging"
    BY SignInSequences DEF Received
  <1>4. Moved(c, b)
    <2> HIDE DEF b
    <2> QED
      BY <1>2, <1>3, CallbackMoves
  <1>5. /\ attempt' \in Seq(Attempted) /\ I!Attempts' = I!Attempts /\ attempt'[a].consumed
        /\ \A x \in I!Attempts : attempt[x].consumed => attempt'[x].consumed
    <2>1. a \in I!Attempts /\ attempt[a] \in Attempted /\ attempt \in Seq(Attempted)
      BY SignInSequences DEF SignInInv, SignInShapes
    <2> HIDE DEF a
    <2>2. [attempt[a] EXCEPT !.consumed = TRUE] \in Attempted
      BY <2>1 DEF Attempted
    <2>3. attempt' = [attempt EXCEPT ![a] = [attempt[a] EXCEPT !.consumed = TRUE]]
      BY <1>1, <2>1 DEF I!Attempts
    <2>4. attempt' \in Seq(Attempted) /\ I!Attempts' = I!Attempts
      BY <2>1, <2>2, <2>3 DEF I!Attempts
    <2> QED
      BY <1>1, <2>1, <2>4 DEF I!Attempts, Attempted
  <1> HIDE DEF b
  <1>6. SignInShapes'
    BY <1>1, <1>3, <1>4, <1>5 DEF SignInInv, SignInShapes, Moved
  <1>7. HeldOnce'
    <2>1. CASE attempt[a].consumed
      <3>1. \A d \in I!Callbacks : callback'[d].attempt = callback[d].attempt /\ (Holding(d)' => Holding(d))
        BY <1>1, <1>3, <1>4, <2>1 DEF Moved, Holding
      <3> QED
        BY <1>1, <1>4, <1>5, <3>1, HoldersStay DEF Moved
    <2>2. CASE ~attempt[a].consumed
      <3>1. HeldOnce
        BY DEF SignInInv
      <3>2. \A d \in I!Callbacks : Holding(d) => callback[d].attempt # a
        BY <2>2, <3>1 DEF HeldOnce
      <3>3. \A s \in opened : s.attempt # a /\ s.attempt \in I!Attempts
        BY <2>2, <3>1 DEF HeldOnce, SignInInv, SignInShapes
      <3>4. \A d \in I!Callbacks : /\ callback'[d].attempt = callback[d].attempt
                                   /\ Holding(d)' => Holding(d) \/ d = c
                                   /\ callback[d].attempt \in I!Attempts
        BY <1>3, <1>4, SignInSequences DEF Moved, Holding
      <3>5. \A d \in I!Callbacks : Holding(d)' => attempt'[callback'[d].attempt].consumed
        BY <1>5, <3>1, <3>4 DEF HeldOnce
      <3>6. \A d, e \in I!Callbacks :
               Holding(d)' /\ Holding(e)' /\ callback'[d].attempt = callback'[e].attempt => d = e
        BY <3>1, <3>2, <3>4 DEF HeldOnce
      <3>7. /\ \A s \in opened : attempt'[s.attempt].consumed
            /\ \A s \in opened, d \in I!Callbacks : Holding(d)' => callback'[d].attempt # s.attempt
        BY <1>5, <3>1, <3>3, <3>4 DEF HeldOnce
      <3> QED
        BY <1>1, <1>4, <3>5, <3>6, <3>7 DEF HeldOnce, Moved
    <2> QED
      BY <2>1, <2>2
  <1>8. CreatorsAreOwners'
    BY <1>1, <1>3, <1>4 DEF SignInInv, CreatorsAreOwners, Moved
  <1> QED
    BY <1>1, <1>6, <1>7, <1>8 DEF SignInInv, I!OneSessionPerAttempt, I!SessionNamesOwner, I!LinkedByLiveSession

LEMMA Expiry ==
    ASSUME SignInAssumption, SignInInv, NEW a \in I!Attempts, I!ExpireAttempt(a)
    PROVE  SignInInv'
  <1>1. /\ attempt' = [attempt EXCEPT ![a].consumed = TRUE]
        /\ UNCHANGED <<callback, owner, active, disabled, opened, linkedBy>>
    BY DEF I!ExpireAttempt
  <1>2. attempt[a] \in Attempted /\ attempt \in Seq(Attempted)
    BY SignInSequences DEF SignInInv, SignInShapes
  <1>3. [attempt[a] EXCEPT !.consumed = TRUE] \in Attempted
    BY <1>2 DEF Attempted
  <1>4. attempt' = [attempt EXCEPT ![a] = [attempt[a] EXCEPT !.consumed = TRUE]]
    BY <1>1, <1>2 DEF I!Attempts
  <1>5. attempt' \in Seq(Attempted) /\ I!Attempts' = I!Attempts
    BY <1>2, <1>3, <1>4 DEF I!Attempts
  <1>6. \A x \in I!Attempts : attempt[x].consumed => attempt'[x].consumed
    BY <1>1, <1>2, <1>5 DEF I!Attempts, Attempted
  <1>7. I!Callbacks' = I!Callbacks
    BY <1>1 DEF I!Callbacks
  <1>8. HeldOnce'
    BY <1>1, <1>6, <1>7, HoldersStay DEF Holding
  <1>9. SignInShapes'
    BY <1>1, <1>5, <1>7 DEF SignInInv, SignInShapes
  <1>10. CreatorsAreOwners'
    BY <1>1, <1>7 DEF SignInInv, CreatorsAreOwners
  <1> QED
    BY <1>1, <1>8, <1>9, <1>10 DEF SignInInv, I!OneSessionPerAttempt, I!SessionNamesOwner, I!LinkedByLiveSession

LEMMA Exchanging ==
    ASSUME SignInAssumption, SignInInv, NEW c \in I!Callbacks,
           I!ExchangeFails(c) \/ \E i \in Identities : I!Exchange(c, i)
    PROVE  SignInInv'
  <1>1. \E b \in Received :
           /\ callback' = [callback EXCEPT ![c] = b] /\ b.attempt = callback[c].attempt
           /\ b.at \in {"ended", "resolving"}
           /\ b.at = "resolving" => b.identity \in Identities
    <2>1. callback[c] \in Received
      BY SignInSequences
    <2>2. CASE I!ExchangeFails(c)
      <3> DEFINE b == [callback[c] EXCEPT !.at = "ended"]
      <3>1. b \in Received /\ b.attempt = callback[c].attempt /\ b.at = "ended"
        BY <2>1 DEF Received
      <3>2. callback' = [callback EXCEPT ![c] = b]
        BY <2>2 DEF I!ExchangeFails, I!Becomes, I!Callbacks
      <3> HIDE DEF b
      <3> QED
        BY <3>1, <3>2
    <2>3. ASSUME NEW i \in Identities, I!Exchange(c, i)
          PROVE  \E b \in Received :
                    /\ callback' = [callback EXCEPT ![c] = b] /\ b.attempt = callback[c].attempt
                    /\ b.at = "resolving" /\ b.identity \in Identities
      <3> DEFINE b == [callback[c] EXCEPT !.at = "resolving", !.identity = i]
      <3>1. b \in Received /\ b.attempt = callback[c].attempt /\ b.at = "resolving" /\ b.identity = i
        BY <2>1 DEF Received
      <3>2. callback' = [callback EXCEPT ![c] = b]
        BY <2>3 DEF I!Exchange, I!Callbacks
      <3> HIDE DEF b
      <3> QED
        BY <3>1, <3>2
    <2> QED
      BY <2>2, <2>3
  <1>2. PICK b \in Received :
           /\ callback' = [callback EXCEPT ![c] = b] /\ b.attempt = callback[c].attempt
           /\ b.at \in {"ended", "resolving"}
           /\ b.at = "resolving" => b.identity \in Identities
    BY <1>1
  <1>3. /\ callback[c].at = "exchanging"
        /\ UNCHANGED <<attempt, owner, active, disabled, opened, linkedBy>>
    BY DEF I!ExchangeFails, I!Exchange
  <1>4. Moved(c, b) /\ I!Attempts' = I!Attempts
    BY <1>2, <1>3, CallbackMoves DEF I!Attempts
  <1>5. \A d \in I!Callbacks : callback'[d].attempt = callback[d].attempt /\ (Holding(d)' => Holding(d))
    BY <1>2, <1>3, <1>4 DEF Moved, Holding
  <1>6. HeldOnce'
    BY <1>3, <1>4, <1>5, HoldersStay DEF Moved
  <1>7. SignInShapes'
    BY <1>2, <1>3, <1>4 DEF SignInInv, SignInShapes, Moved
  <1>8. CreatorsAreOwners'
    BY <1>2, <1>3, <1>4 DEF SignInInv, CreatorsAreOwners, Moved
  <1> QED
    BY <1>3, <1>6, <1>7, <1>8 DEF SignInInv, I!OneSessionPerAttempt, I!SessionNamesOwner, I!LinkedByLiveSession

\* What becomes of a callback whose identity is resolved or linked
Refused(c) ==
    /\ callback' = [callback EXCEPT ![c] = [callback[c] EXCEPT !.at = "ended"]]
    /\ UNCHANGED <<owner, active, linkedBy>>
Admitted(c, u) ==
    LET i == callback[c].identity
    IN  /\ callback' = [callback EXCEPT ![c] = [callback[c] EXCEPT !.at = "creating", !.user = u]]
        /\ owner[i] \in {None, u} /\ owner' = [owner EXCEPT ![i] = u]
        /\ u \notin disabled /\ active' = active \cup {u}
        /\ \A l \in linkedBy' : l \in linkedBy \/ l.live

LEMMA Resolved ==
    ASSUME SignInAssumption, SignInInv, NEW c \in I!Callbacks,
           I!ResolveOrCreateIdentity(c) \/ I!LinkIdentity(c)
    PROVE  /\ callback[c].at = "resolving" /\ UNCHANGED <<attempt, disabled, opened>>
           /\ Refused(c) \/ \E u \in Users : Admitted(c, u)
  <1>1. c \in DOMAIN callback /\ callback[c].identity \in Identities
    BY DEF I!ResolveOrCreateIdentity, I!LinkIdentity, SignInInv, SignInShapes, I!Callbacks
  <1>2. /\ owner \in [Identities -> {None} \cup active \cup disabled]
        /\ active \cap disabled = {} /\ active \cup disabled \subseteq Users
    BY DEF SignInInv, SignInShapes
  <1>3. CASE I!ResolveOrCreateIdentity(c)
    <2> DEFINE i == callback[c].identity
               u == IF owner[i] # None THEN owner[i] ELSE UserOf(i)
    <2>1. u \in Users /\ owner[i] \in {None, u}
      BY <1>1, <1>2 DEF SignInAssumption
    <2>2. CASE u \in disabled
      <3>1. I!Becomes(c, "ended") /\ UNCHANGED <<owner, active, attempt, disabled, opened, linkedBy>>
        BY <1>3, <2>2 DEF I!ResolveOrCreateIdentity
      <3> QED
        BY <1>1, <1>3, <3>1 DEF I!Becomes, Refused, I!ResolveOrCreateIdentity
    <2>3. CASE u \notin disabled
      <3>1. /\ owner' = [owner EXCEPT ![i] = u] /\ active' = active \cup {u} /\ I!Creates(c, u)
            /\ UNCHANGED <<attempt, disabled, opened, linkedBy>> /\ callback[c].at = "resolving"
        BY <1>3, <2>3 DEF I!ResolveOrCreateIdentity
      <3>2. callback' = [callback EXCEPT ![c] = [callback[c] EXCEPT !.at = "creating", !.user = u]]
        BY <1>1, <3>1 DEF I!Creates
      <3> HIDE DEF u
      <3> QED
        BY <2>1, <2>3, <3>1, <3>2 DEF Admitted
    <2> QED
      BY <2>2, <2>3
  <1>4. CASE I!LinkIdentity(c)
    <2> DEFINE a == callback[c].attempt
               i == callback[c].identity
               u == attempt[a].user
    <2>1. CASE I!MayLink(a, i)
      <3>1. u \in active /\ owner[i] \in {None, u} /\ I!SessionLives(a)
        BY <2>1 DEF I!MayLink, I!UserLives
      <3>2. /\ owner' = [owner EXCEPT ![i] = u] /\ I!Creates(c, u)
            /\ linkedBy' = linkedBy \cup {[identity |-> i, live |-> I!SessionLives(a)]}
            /\ UNCHANGED <<attempt, disabled, opened, active>> /\ callback[c].at = "resolving"
        BY <1>4, <2>1 DEF I!LinkIdentity
      <3>3. callback' = [callback EXCEPT ![c] = [callback[c] EXCEPT !.at = "creating", !.user = u]]
        BY <1>1, <3>2 DEF I!Creates
      <3>4. \A l \in linkedBy' : l \in linkedBy \/ l.live
        <4> DEFINE made == [identity |-> i, live |-> I!SessionLives(a)]
        <4>1. made.live <=> I!SessionLives(a)
          OBVIOUS
        <4>2. made.live
          BY <3>1, <4>1, Zenon
        <4> HIDE DEF made
        <4>3. linkedBy' = linkedBy \cup {made}
          BY <3>2 DEF made
        <4> QED
          BY <4>2, <4>3, Zenon
      <3> HIDE DEF u
      <3> QED
        BY <1>2, <3>1, <3>2, <3>3, <3>4 DEF Admitted
    <2>2. CASE ~I!MayLink(a, i)
      <3>1. I!Becomes(c, "ended") /\ UNCHANGED <<owner, active, attempt, disabled, opened, linkedBy>>
        BY <1>4, <2>2 DEF I!LinkIdentity
      <3> QED
        BY <1>1, <1>4, <3>1 DEF I!Becomes, Refused, I!LinkIdentity
    <2> QED
      BY <2>1, <2>2
  <1> QED
    BY <1>3, <1>4

LEMMA Resolution ==
    ASSUME SignInAssumption, SignInInv, NEW c \in I!Callbacks,
           I!ResolveOrCreateIdentity(c) \/ I!LinkIdentity(c)
    PROVE  SignInInv'
  <1>1. callback[c].at = "resolving" /\ UNCHANGED <<attempt, disabled, opened>>
    BY Resolved
  <1>2. callback[c] \in Received /\ callback[c].identity \in Identities /\ I!Attempts' = I!Attempts
    BY <1>1, SignInSequences DEF SignInInv, SignInShapes, I!Attempts
  <1>3. CASE Refused(c)
    <2> DEFINE b == [callback[c] EXCEPT !.at = "ended"]
    <2>1. b \in Received /\ b.attempt = callback[c].attempt /\ b.at = "ended"
      BY <1>2 DEF Received
    <2>2. Moved(c, b) /\ UNCHANGED <<owner, active, linkedBy>>
      <3>1. callback' = [callback EXCEPT ![c] = b] /\ UNCHANGED <<owner, active, linkedBy>>
        BY <1>3 DEF Refused
      <3> HIDE DEF b
      <3> QED
        BY <2>1, <3>1, CallbackMoves
    <2> HIDE DEF b
    <2>3. \A d \in I!Callbacks : callback'[d].attempt = callback[d].attempt /\ (Holding(d)' => Holding(d))
      BY <2>1, <2>2 DEF Moved, Holding
    <2>4. HeldOnce'
      BY <1>1, <2>2, <2>3, HoldersStay DEF Moved
    <2>5. SignInShapes'
      BY <1>1, <1>2, <2>1, <2>2 DEF SignInInv, SignInShapes, Moved
    <2>6. CreatorsAreOwners'
      BY <2>1, <2>2 DEF SignInInv, CreatorsAreOwners, Moved
    <2> QED
      BY <1>1, <2>2, <2>4, <2>5, <2>6 DEF SignInInv, I!OneSessionPerAttempt, I!SessionNamesOwner, I!LinkedByLiveSession
  <1>4. ASSUME NEW u \in Users, Admitted(c, u) PROVE SignInInv'
    <2> DEFINE b == [callback[c] EXCEPT !.at = "creating", !.user = u]
    <2>1. /\ b \in Received /\ b.attempt = callback[c].attempt /\ b.at = "creating"
          /\ b.user = u /\ b.identity = callback[c].identity
      BY <1>2 DEF Received
    <2>2. callback' = [callback EXCEPT ![c] = b]
      BY <1>4 DEF Admitted
    <2> HIDE DEF b
    <2>3. Moved(c, b)
      BY <2>1, <2>2, CallbackMoves
    <2>4. PICK i \in Identities : i = callback[c].identity
      BY <1>2
    <2>5. /\ owner[i] \in {None, u} /\ owner' = [owner EXCEPT ![i] = u]
          /\ u \notin disabled /\ active' = active \cup {u}
          /\ \A l \in linkedBy' : l \in linkedBy \/ l.live
      BY <1>4, <2>4 DEF Admitted
    <2>6. owner \in [Identities -> {None} \cup active \cup disabled] /\ u # None
      BY DEF SignInInv, SignInShapes, SignInAssumption
    <2>7. \A j \in Identities : owner[j] # None => owner'[j] = owner[j]
      BY <2>5, <2>6
    <2>8. \A d \in I!Callbacks : callback'[d].attempt = callback[d].attempt /\ (Holding(d)' => Holding(d))
      BY <1>1, <2>1, <2>3 DEF Moved, Holding
    <2>9. HeldOnce'
      BY <1>1, <2>3, <2>8, HoldersStay DEF Moved
    <2>10. SignInShapes'
      <3>1. /\ owner' \in [Identities -> {None} \cup active' \cup disabled']
            /\ active' \cap disabled' = {} /\ active' \cup disabled' \subseteq Users
        BY <1>1, <2>5, <2>6 DEF SignInInv, SignInShapes
      <3> QED
        BY <1>1, <1>2, <2>1, <2>3, <3>1 DEF SignInInv, SignInShapes, Moved
    <2>11. CreatorsAreOwners'
      <3>1. \A d \in I!Callbacks : d # c /\ callback[d].at = "creating" =>
               callback[d].identity \in Identities /\ owner'[callback[d].identity] = callback[d].user
        BY <2>7 DEF SignInInv, SignInShapes, CreatorsAreOwners
      <3>2. owner'[callback'[c].identity] = callback'[c].user /\ callback'[c].user # None
        BY <2>1, <2>3, <2>4, <2>5, <2>6 DEF Moved
      <3> QED
        BY <2>3, <3>1, <3>2 DEF SignInInv, CreatorsAreOwners, Moved
    <2>12. I!SessionNamesOwner'
      <3>1. \A s \in opened : s.identity \in Identities /\ s.user # None /\ owner[s.identity] = s.user
        BY DEF SignInInv, SignInShapes, I!SessionNamesOwner, Sessions0, SignInAssumption
      <3> QED
        BY <1>1, <2>7, <3>1 DEF I!SessionNamesOwner
    <2> QED
      BY <1>1, <2>5, <2>9, <2>10, <2>11, <2>12 DEF SignInInv, I!OneSessionPerAttempt, I!LinkedByLiveSession
  <1> QED
    BY <1>3, <1>4, Resolved

LEMMA Creation ==
    ASSUME SignInAssumption, SignInInv, NEW c \in I!Callbacks, I!CreateSession(c)
    PROVE  SignInInv'
  <1> DEFINE s == [from |-> c, attempt |-> callback[c].attempt, user |-> callback[c].user,
                   identity |-> callback[c].identity, live |-> TRUE]
             b == [callback[c] EXCEPT !.at = "ended"]
  <1>1. /\ callback[c].at = "creating" /\ opened' = opened \cup {s}
        /\ callback' = [callback EXCEPT ![c] = b]
        /\ UNCHANGED <<attempt, owner, active, disabled, linkedBy>>
    BY DEF I!CreateSession, I!Becomes, I!Callbacks
  <1>2. callback[c] \in Received /\ callback[c].identity \in Identities /\ I!Attempts' = I!Attempts
        /\ callback[c].attempt \in I!Attempts /\ Holding(c) /\ c \in Nat
    BY <1>1, SignInSequences DEF SignInInv, SignInShapes, I!Attempts, Holding
  <1>3. callback[c].user \in Users /\ owner[callback[c].identity] = callback[c].user
    BY <1>1, <1>2 DEF SignInInv, CreatorsAreOwners, Received
  <1>4. /\ s \in Sessions0 /\ s.attempt = callback[c].attempt /\ s.user = callback[c].user
        /\ s.identity = callback[c].identity
    BY <1>2, <1>3 DEF Sessions0, Received
  <1>5. b \in Received /\ b.attempt = callback[c].attempt /\ b.at = "ended"
    BY <1>2 DEF Received
  <1> HIDE DEF s, b
  <1>6. Moved(c, b)
    BY <1>1, <1>5, CallbackMoves
  <1>7. SignInShapes'
    BY <1>1, <1>2, <1>4, <1>5, <1>6 DEF SignInInv, SignInShapes, Moved
  <1>8. HeldOnce'
    <2>1. HeldOnce
      BY DEF SignInInv
    <2>2. \A d \in I!Callbacks : callback'[d].attempt = callback[d].attempt /\ (Holding(d)' => Holding(d) /\ d # c)
      BY <1>5, <1>6 DEF Moved, Holding
    <2>3. \A t \in opened' : t \in opened \/ t = s
      BY <1>1
    <2>4. \A t \in opened' : attempt'[t.attempt].consumed
      BY <1>1, <1>2, <1>4, <2>1, <2>3 DEF HeldOnce
    <2>5. \A t \in opened', d \in I!Callbacks : Holding(d)' => callback'[d].attempt # t.attempt
      BY <1>2, <1>4, <2>1, <2>2, <2>3 DEF HeldOnce
    <2>6. \A d \in I!Callbacks : Holding(d)' => attempt'[callback'[d].attempt].consumed
      BY <1>1, <2>1, <2>2 DEF HeldOnce
    <2>7. \A d, e \in I!Callbacks :
             Holding(d)' /\ Holding(e)' /\ callback'[d].attempt = callback'[e].attempt => d = e
      BY <2>1, <2>2 DEF HeldOnce
    <2> QED
      BY <1>6, <2>4, <2>5, <2>6, <2>7 DEF HeldOnce, Moved
  <1>9. CreatorsAreOwners'
    BY <1>1, <1>5, <1>6 DEF SignInInv, CreatorsAreOwners, Moved
  <1>10. I!OneSessionPerAttempt'
    <2>1. \A t \in opened : t.attempt # s.attempt
      BY <1>2, <1>4 DEF SignInInv, HeldOnce
    <2> QED
      BY <1>1, <2>1 DEF SignInInv, I!OneSessionPerAttempt
  <1>11. I!SessionNamesOwner'
    BY <1>1, <1>3, <1>4 DEF SignInInv, I!SessionNamesOwner
  <1> QED
    BY <1>1, <1>7, <1>8, <1>9, <1>10, <1>11 DEF SignInInv, I!LinkedByLiveSession

LEMMA Ending ==
    ASSUME SignInAssumption, SignInInv, NEW s \in opened, I!EndSession(s)
    PROVE  SignInInv'
  <1> DEFINE t == [s EXCEPT !.live = FALSE]
  <1>1. /\ opened' = (opened \ {s}) \cup {t}
        /\ UNCHANGED <<attempt, callback, owner, active, disabled, linkedBy>>
    BY DEF I!EndSession
  <1>2. s \in Sessions0
    BY DEF SignInInv, SignInShapes
  <1>3. t \in Sessions0 /\ t.attempt = s.attempt /\ t.identity = s.identity /\ t.user = s.user
    BY <1>2 DEF Sessions0
  <1> HIDE DEF t
  <1>4. I!Callbacks' = I!Callbacks /\ I!Attempts' = I!Attempts
    BY <1>1 DEF I!Callbacks, I!Attempts
  <1>5. HeldOnce'
    BY <1>1, <1>3, <1>4, HoldersStay DEF Holding
  <1>6. SignInShapes'
    BY <1>1, <1>3, <1>4 DEF SignInInv, SignInShapes
  <1>7. CreatorsAreOwners'
    BY <1>1, <1>4 DEF SignInInv, CreatorsAreOwners
  <1>8. I!OneSessionPerAttempt' /\ I!SessionNamesOwner'
    BY <1>1, <1>3 DEF SignInInv, I!OneSessionPerAttempt, I!SessionNamesOwner
  <1> QED
    BY <1>1, <1>5, <1>6, <1>7, <1>8 DEF SignInInv, I!LinkedByLiveSession

LEMMA SignInStep ==
    ASSUME SignInAssumption, SignInInv, I!SignInNext
    PROVE  SignInInv'
  <1>1. CASE I!StartSignIn
    <2> DEFINE b == [purpose |-> "SIGN_IN", user |-> None, by |-> 0, consumed |-> FALSE]
    <2>1. /\ b \in Attempted /\ attempt' = Append(attempt, b)
          /\ UNCHANGED <<callback, owner, active, disabled, opened, linkedBy>>
      BY <1>1 DEF I!StartSignIn, Attempted
    <2> HIDE DEF b
    <2> QED
      BY <2>1, StartAttempt
  <1>2. ASSUME NEW s \in opened, I!StartLink(s) PROVE SignInInv'
    <2> DEFINE b == [purpose |-> "LINK", user |-> s.user, by |-> s.from, consumed |-> FALSE]
    <2>1. /\ attempt' = Append(attempt, b)
          /\ UNCHANGED <<callback, owner, active, disabled, opened, linkedBy>>
      BY <1>2 DEF I!StartLink
    <2>2. b \in Attempted
      BY DEF SignInInv, SignInShapes, Attempted, Sessions0
    <2> HIDE DEF b
    <2> QED
      BY <2>1, <2>2, StartAttempt
  <1>3. ASSUME NEW u \in active, I!DisableUser(u) PROVE SignInInv'
    <2>1. /\ active' = active \ {u} /\ disabled' = disabled \cup {u}
          /\ UNCHANGED <<attempt, callback, owner, opened, linkedBy>>
      BY <1>3 DEF I!DisableUser
    <2>2. I!Callbacks' = I!Callbacks /\ I!Attempts' = I!Attempts
      BY <2>1 DEF I!Callbacks, I!Attempts
    <2>3. HeldOnce'
      BY <2>1, <2>2, HoldersStay DEF Holding
    <2>4. SignInShapes'
      BY <2>1, <2>2 DEF SignInInv, SignInShapes
    <2>5. CreatorsAreOwners'
      BY <2>1, <2>2 DEF SignInInv, CreatorsAreOwners
    <2> QED
      BY <2>1, <2>3, <2>4, <2>5 DEF SignInInv, I!OneSessionPerAttempt, I!SessionNamesOwner, I!LinkedByLiveSession
  <1> QED
    BY <1>1, <1>2, <1>3, Arrival, Consumption, Expiry, Exchanging, Resolution, Creation, Ending
       DEF I!SignInNext

-----------------------------------------------------------------------------
(* Rate limits *)

LEMMA DivisionGrows ==
    ASSUME NEW w \in Nat \ {0}, NEW m \in Nat, NEW n \in Nat, m <= n
    PROVE  m \div w \in 0 .. n \div w
  <1>1. m \div w \in Int /\ n \div w \in Int
    OBVIOUS
  <1>2. m \div w \in Nat
    OBVIOUS
  <1>3. m \div w <= n \div w
    OBVIOUS
  <1> QED
    BY <1>1, <1>2, <1>3

\* What was admitted was charged, and an operation admitted not longer ago than it is
\* remembered is remembered with its charge.
Charges == [R!Subjects -> [DOMAIN Policies -> [R!Windows -> Nat]]]
RememberedAt(a, k) ==
    chargedAt[a][k] # None =>
        /\ chargedAt[a][k] \in Nat
        /\ instant < chargedAt[a][k] + ChargeLife =>
              charge[a][k] # None /\ charge[a][k].expiresAt = chargedAt[a][k] + ChargeLife

Grants == [target : R!Subjects, active : BOOLEAN, limits : BothLimits, expiresAt : Nat]
RateInv ==
    /\ override \in Seq(Grants) /\ R!OneActiveOverride
    /\ instant \in 0 .. MaxInstant /\ policyVersion \in DOMAIN Policies
    /\ counter \in Charges /\ admitted \in Charges
    /\ \A s \in R!Subjects, v \in DOMAIN Policies, w \in R!Windows :
          admitted[s][v][w] <= counter[s][v][w]
    /\ DOMAIN charge = Actors /\ DOMAIN chargedAt = Actors
    /\ \A a \in Actors : DOMAIN charge[a] = Keys /\ DOMAIN chargedAt[a] = Keys
    /\ \A a \in Actors, k \in Keys : RememberedAt(a, k)


\* Raising one entry of a table of charges by what an operation costs.
LEMMA RaisedTable ==
    ASSUME NEW f \in Charges, NEW s \in R!Subjects, NEW c \in Nat,
           policyVersion \in DOMAIN Policies, R!Window \in R!Windows
    PROVE  /\ R!Raised(f, s, c) \in Charges
           /\ R!Raised(f, s, c)[s][policyVersion][R!Window] = f[s][policyVersion][R!Window] + c
           /\ \A t \in R!Subjects, u \in DOMAIN Policies, x \in R!Windows :
                 t # s \/ u # policyVersion \/ x # R!Window =>
                     R!Raised(f, s, c)[t][u][x] = f[t][u][x]
  <1> QED
    BY DEF Charges, R!Raised

LEMMA RateInitial ==
    ASSUME RateAssumption, R!RateInit
    PROVE  RateInv
  <1>1. instant \in 0 .. MaxInstant /\ policyVersion \in DOMAIN Policies
    BY DEF R!RateInit, RateAssumption
  <1>2. counter \in Charges /\ admitted = counter
    BY DEF R!RateInit, Charges
  <1>3. \A s \in R!Subjects, v \in DOMAIN Policies, w \in R!Windows :
           admitted[s][v][w] <= counter[s][v][w]
    BY <1>2 DEF Charges
  <1>4. /\ DOMAIN charge = Actors /\ DOMAIN chargedAt = Actors
        /\ \A a \in Actors : DOMAIN charge[a] = Keys /\ DOMAIN chargedAt[a] = Keys
        /\ \A a \in Actors, k \in Keys : RememberedAt(a, k)
    BY DEF R!RateInit, RememberedAt
  <1>5. override \in Seq(Grants) /\ R!OneActiveOverride
    BY DEF R!RateInit, R!OneActiveOverride
  <1> QED
    BY <1>1, <1>2, <1>3, <1>4, <1>5 DEF RateInv

\* The limits that hold for an actor are limits of a policy or of an override: no
\* target has two overrides in force.
LEMMA PolicyIsOne ==
    ASSUME RateAssumption, RateInv, NEW a \in Actors
    PROVE  R!PolicyFor(a) \in BothLimits
  <1>1. ASSUME NEW s \in R!Subjects, R!InForceFor(s) # {}
        PROVE  override[R!Latest(s)].limits \in BothLimits
    <2>1. PICK n \in R!InForceFor(s) : TRUE
      BY <1>1
    <2>2. \A m \in R!InForceFor(s) : m = n
      BY <2>1 DEF R!InForceFor, R!InForce, R!OneActiveOverride, RateInv
    <2>3. n \in DOMAIN override /\ n <= n
      BY <2>1 DEF R!InForceFor, RateInv
    <2>4. R!Latest(s) = n
      BY <2>1, <2>2, <2>3 DEF R!Latest
    <2>5. override[n] \in Grants
      BY <2>3 DEF RateInv
    <2> QED
      BY <2>4, <2>5 DEF Grants
  <1>2. Policies[policyVersion] \in BothLimits
    BY DEF RateInv, RateAssumption
  <1>3. a \in R!Subjects /\ R!Account \in R!Subjects
    BY DEF R!Subjects
  <1> QED
    BY <1>1, <1>2, <1>3 DEF R!PolicyFor

LEMMA WindowOfInstant ==
    ASSUME RateAssumption, RateInv
    PROVE  R!Window \in R!Windows
  <1>1. instant \in Nat /\ MaxInstant \in Nat /\ instant <= MaxInstant /\ WindowLength \in Nat \ {0}
    BY DEF RateInv, RateAssumption
  <1>2. instant \div WindowLength \in 0 .. MaxInstant \div WindowLength
    BY <1>1, DivisionGrows
  <1> QED
    BY <1>2 DEF R!Window, R!Windows

\* A decision keeps the invariant, admits within the limits and charges once.
DecisionKept ==
    /\ RateInv'
    /\ \A a \in Actors :
         LET now(s) == admitted'[s][policyVersion][R!Window]
         IN  now(a) > admitted[a][policyVersion][R!Window] =>
                /\ now(a) <= R!PolicyFor(a).actorLimit
                /\ now(R!Account) <= R!PolicyFor(a).accountLimit
    /\ \A a \in Actors, k \in Keys :
         chargedAt'[a][k] # chargedAt[a][k] /\ chargedAt[a][k] # None
         => instant >= chargedAt[a][k] + ChargeLife

LEMMA DecisionStep ==
    ASSUME RateAssumption, RateInv, NEW b \in Actors, NEW j \in Keys \cup {None}, NEW c \in Costs,
           R!Decide(b, j, c)
    PROVE  DecisionKept
  <1> DEFINE w == R!Window
             once(f) == R!Raised(f, b, c)
             twice(f) == R!Raised(once(f), R!Account, c)
  <1>1. /\ policyVersion \in DOMAIN Policies /\ w \in R!Windows /\ c \in Nat /\ b \in R!Subjects
        /\ R!Account \in R!Subjects /\ R!Account # b
    BY WindowOfInstant DEF RateAssumption, RateInv, R!Subjects, R!Account
  <1>2. /\ policyVersion' = policyVersion /\ override' = override /\ instant' = instant
    BY DEF R!Decide
  <1>3. CASE R!Remembered(b, j)
    <2>1. UNCHANGED <<counter, charge, admitted, chargedAt>>
      BY <1>3 DEF R!Decide
    <2>2. RateInv'
      BY <1>2, <2>1 DEF RateInv, RememberedAt, R!OneActiveOverride
    <2>3. \A a \in Actors : ~(admitted[a][policyVersion][w] > admitted[a][policyVersion][w])
      <3> HIDE DEF w
      <3>1. admitted \in Charges /\ Actors \subseteq R!Subjects
        BY DEF RateInv, R!Subjects
      <3> QED
        BY <1>1, <3>1 DEF Charges
    <2> QED
      BY <1>2, <2>1, <2>2, <2>3 DEF DecisionKept
  <1>4. CASE ~R!Remembered(b, j)
    <2>1. counter' = twice(counter)
      BY <1>4 DEF R!Decide, R!Charged
    <2>2. \/ admitted' = admitted /\ ~R!Allowed(b, c)
          \/ admitted' = twice(admitted) /\ R!Allowed(b, c)
      BY <1>4 DEF R!Decide
    <2>3. counter \in Charges /\ admitted \in Charges
      BY DEF RateInv
    <2>4. ASSUME NEW f \in Charges
          PROVE  /\ twice(f) \in Charges
                 /\ twice(f)[b][policyVersion][w] = f[b][policyVersion][w] + c
                 /\ twice(f)[R!Account][policyVersion][w] = f[R!Account][policyVersion][w] + c
                 /\ \A t \in R!Subjects, u \in DOMAIN Policies, x \in R!Windows :
                       t \notin {b, R!Account} \/ u # policyVersion \/ x # w =>
                           twice(f)[t][u][x] = f[t][u][x]
      <3>1. /\ once(f) \in Charges
            /\ once(f)[b][policyVersion][w] = f[b][policyVersion][w] + c
            /\ \A t \in R!Subjects, u \in DOMAIN Policies, x \in R!Windows :
                  t # b \/ u # policyVersion \/ x # w => once(f)[t][u][x] = f[t][u][x]
        BY <1>1, RaisedTable
      <3>2. /\ twice(f) \in Charges
            /\ twice(f)[R!Account][policyVersion][w] = once(f)[R!Account][policyVersion][w] + c
            /\ \A t \in R!Subjects, u \in DOMAIN Policies, x \in R!Windows :
                  t # R!Account \/ u # policyVersion \/ x # w => twice(f)[t][u][x] = once(f)[t][u][x]
        BY <1>1, <3>1, RaisedTable
      <3> HIDE DEF w, once, twice
      <3> QED
        BY <1>1, <3>1, <3>2
    <2>5. counter' \in Charges /\ admitted' \in Charges
      BY <2>1, <2>2, <2>3, <2>4
    <2>6. ASSUME NEW s \in R!Subjects, NEW u \in DOMAIN Policies, NEW x \in R!Windows
          PROVE  admitted'[s][u][x] <= counter'[s][u][x]
      <3>1. /\ admitted[s][u][x] \in Nat /\ counter[s][u][x] \in Nat
            /\ admitted[s][u][x] <= counter[s][u][x]
        BY <2>3 DEF RateInv, Charges
      <3>2. counter'[s][u][x] = IF s \in {b, R!Account} /\ u = policyVersion /\ x = w
                                THEN counter[s][u][x] + c ELSE counter[s][u][x]
        BY <2>1, <2>3, <2>4
      <3>3. \/ admitted'[s][u][x] = admitted[s][u][x]
            \/ admitted'[s][u][x] = IF s \in {b, R!Account} /\ u = policyVersion /\ x = w
                                    THEN admitted[s][u][x] + c ELSE admitted[s][u][x]
        BY <2>2, <2>3, <2>4
      <3> QED
        BY <1>1, <3>1, <3>2, <3>3
    <2>7. \* what is remembered
          /\ DOMAIN charge' = Actors /\ DOMAIN chargedAt' = Actors
          /\ \A a \in Actors : DOMAIN charge'[a] = Keys /\ DOMAIN chargedAt'[a] = Keys
      BY <1>4 DEF R!Decide, RateInv
    <2>8. ASSUME NEW a \in Actors, NEW k \in Keys
          PROVE  /\ RememberedAt(a, k)'
                 /\ chargedAt'[a][k] # chargedAt[a][k] /\ chargedAt[a][k] # None
                    => instant >= chargedAt[a][k] + ChargeLife
      <3>1. RememberedAt(a, k) /\ instant \in Nat /\ ChargeLife \in Nat
        BY DEF RateInv, RateAssumption
      <3>2. CASE a = b /\ k = j
        <4>1. \/ /\ chargedAt'[a][k] = instant
                 /\ charge'[a][k] = [cost |-> c, expiresAt |-> instant + ChargeLife]
              \/ chargedAt'[a][k] = chargedAt[a][k] /\ charge'[a][k] = None
          BY <1>4, <3>2 DEF R!Decide, RateInv
        <4>2. charge[a][k] # None => charge[a][k].expiresAt <= instant \/ charge[a][k].expiresAt \notin Nat
          BY <1>4, <3>1, <3>2 DEF R!Remembered
        <4>3. chargedAt[a][k] # None => instant >= chargedAt[a][k] + ChargeLife
          BY <3>1, <4>2 DEF RememberedAt
        <4>4. \/ charge'[a][k] # None /\ charge'[a][k].expiresAt = instant + ChargeLife
              \/ chargedAt'[a][k] = chargedAt[a][k]
          BY <3>1, <4>1 DEF RateAssumption
        <4> QED
          BY <1>2, <3>1, <4>1, <4>3, <4>4 DEF RememberedAt
      <3>3. CASE ~(a = b /\ k = j)
        <4>1. chargedAt'[a][k] = chargedAt[a][k] /\ charge'[a][k] = charge[a][k]
          BY <1>4, <3>3 DEF R!Decide, RateInv
        <4> QED
          BY <1>2, <3>1, <4>1 DEF RememberedAt
      <3> QED
        BY <3>2, <3>3
    <2>9. ASSUME NEW a \in Actors, admitted'[a][policyVersion][w] > admitted[a][policyVersion][w]
          PROVE  /\ admitted'[a][policyVersion][w] <= R!PolicyFor(a).actorLimit
                 /\ admitted'[R!Account][policyVersion][w] <= R!PolicyFor(a).accountLimit
      <3>1. a = b /\ admitted' = twice(admitted) /\ R!Allowed(b, c)
        <4>1. a \in R!Subjects /\ a # R!Account /\ admitted[a][policyVersion][w] \in Nat
          BY <1>1, <2>3 DEF R!Subjects, R!Account, RateAssumption, Charges
        <4>2. admitted' # admitted
          BY <2>9, <4>1
        <4>3. admitted' = twice(admitted) /\ R!Allowed(b, c)
          BY <2>2, <4>2
        <4>4. a # b => admitted'[a][policyVersion][w] = admitted[a][policyVersion][w]
          BY <1>1, <2>3, <2>4, <4>1, <4>3
        <4> QED
          BY <2>9, <4>1, <4>3, <4>4
      <3>2. /\ counter'[b][policyVersion][w] <= R!PolicyFor(b).actorLimit
            /\ counter'[R!Account][policyVersion][w] <= R!PolicyFor(b).accountLimit
        BY <2>1, <3>1 DEF R!Allowed, R!Charged
      <3>3. /\ R!PolicyFor(b).actorLimit \in Nat
            /\ R!PolicyFor(b).accountLimit \in Nat
        BY PolicyIsOne DEF BothLimits
      <3>4. \A s \in R!Subjects : /\ admitted'[s][policyVersion][w] <= counter'[s][policyVersion][w]
                                  /\ admitted'[s][policyVersion][w] \in Nat
                                  /\ counter'[s][policyVersion][w] \in Nat
        BY <1>1, <2>5, <2>6 DEF Charges
      <3> HIDE DEF w, twice
      <3> QED
        BY <1>1, <3>1, <3>2, <3>3, <3>4
    <2>10. RateInv'
      <3>1. override' = override /\ override' \in Seq(Grants) /\ R!OneActiveOverride'
        BY <1>2 DEF RateInv, R!OneActiveOverride
      <3>2. instant' \in 0 .. MaxInstant /\ policyVersion' \in DOMAIN Policies
        BY <1>2 DEF RateInv
      <3> QED
        BY <2>5, <2>6, <2>7, <2>8, <3>1, <3>2 DEF RateInv
    <2> QED
      BY <2>8, <2>9, <2>10 DEF DecisionKept
  <1> QED
    BY <1>3, <1>4

\* Grants, revocations, changes of policy and time keep it and admit nothing.
GrantKept == RateInv' /\ UNCHANGED <<admitted, chargedAt>>

LEMMA GrantStep ==
    ASSUME RateAssumption, RateInv, NEW s \in R!Subjects, NEW o \in Overrides,
           R!GrantOverride(s, o)
    PROVE  GrantKept
  <1> DEFINE retired == R!Superseded(s)
             grant == [target |-> s, active |-> TRUE, limits |-> o.limits,
                       expiresAt |-> instant + o.life]
  <1>1. /\ UNCHANGED <<policyVersion, counter, charge, instant, admitted, chargedAt>>
        /\ override' = Append(retired, grant)
    BY DEF R!GrantOverride, R!Retired
  <1>2. /\ Len(retired) = Len(override) /\ retired \in Seq(Grants) /\ DOMAIN retired = DOMAIN override
        /\ \A n \in DOMAIN override :
              /\ retired[n] \in Grants /\ retired[n].target = override[n].target
              /\ retired[n].active => override[n].active /\ override[n].target # s
    <2>1. override \in Seq(Grants) /\ Len(override) \in Nat /\ DOMAIN override = 1 .. Len(override)
      BY DEF RateInv
    <2>2. ASSUME NEW n \in DOMAIN override
          PROVE  /\ retired[n] \in Grants /\ retired[n].target = override[n].target
                 /\ retired[n].active => override[n].active /\ override[n].target # s
      <3>1. override[n] \in Grants
        BY <2>1, <2>2
      <3>2. retired[n] = IF override[n].target = s THEN [override[n] EXCEPT !.active = FALSE]
                         ELSE override[n]
        BY DEF R!Superseded
      <3> HIDE DEF retired
      <3> QED
        BY <3>1, <3>2 DEF Grants
    <2>3. DOMAIN retired = 1 .. Len(override)
      BY <2>1 DEF R!Superseded
    <2>4. retired = [n \in 1 .. Len(override) |-> retired[n]]
      BY <2>1 DEF R!Superseded
    <2> HIDE DEF retired
    <2> QED
      BY <2>1, <2>2, <2>3, <2>4
  <1>3. grant \in Grants /\ grant.target = s
    BY DEF Grants, RateInv, RateAssumption
  <1>4. override' \in Seq(Grants)
    <2> HIDE DEF retired, grant
    <2> QED
      BY <1>1, <1>2, <1>3
  <1>5. ASSUME NEW m \in DOMAIN override', NEW n \in DOMAIN override',
               override'[m].active, override'[n].active, override'[m].target = override'[n].target
        PROVE  m = n
    <2> HIDE DEF retired, grant
    <2>1. \A k \in DOMAIN override' :
             \/ k \in DOMAIN override /\ override'[k] = retired[k]
             \/ k = Len(override) + 1 /\ override'[k] = grant
      BY <1>1, <1>2
    <2> QED
      BY <1>2, <1>3, <1>5, <2>1 DEF RateInv, R!OneActiveOverride
  <1> QED
    BY <1>1, <1>4, <1>5 DEF GrantKept, RateInv, RememberedAt, R!OneActiveOverride

LEMMA OtherRateStep ==
    ASSUME RateAssumption, RateInv,
           \/ \E n \in DOMAIN override : R!RevokeOverride(n)
           \/ \E v \in DOMAIN Policies : R!ChangePolicy(v)
           \/ R!InstantPasses
    PROVE  GrantKept
  <1>1. ASSUME NEW n \in DOMAIN override, R!RevokeOverride(n) PROVE GrantKept
    <2>1. /\ UNCHANGED <<policyVersion, counter, charge, instant, admitted, chargedAt>>
          /\ override' = [override EXCEPT ![n].active = FALSE]
      BY <1>1 DEF R!RevokeOverride
    <2>2. \A m \in DOMAIN override : override[m] \in Grants
      BY DEF RateInv
    <2>3. /\ override' \in Seq(Grants) /\ DOMAIN override' = DOMAIN override
          /\ \A m \in DOMAIN override : /\ override'[m].target = override[m].target
                                        /\ override'[m].active => override[m].active
      <3>1. /\ DOMAIN override' = DOMAIN override
            /\ \A m \in DOMAIN override :
                  /\ override'[m] \in Grants
                  /\ override'[m].target = override[m].target
                  /\ override'[m].active => override[m].active
        BY <2>1, <2>2 DEF Grants
      <3>2. override \in Seq(Grants)
        BY DEF RateInv
      <3>3. Len(override) \in Nat /\ DOMAIN override = 1 .. Len(override)
        BY <3>2
      <3>4. override' = [m \in DOMAIN override |-> override'[m]]
        BY <2>1
      <3> HIDE DEF RateInv
      <3> QED
        BY <3>1, <3>3, <3>4
    <2> QED
      BY <2>1, <2>3 DEF GrantKept, RateInv, RememberedAt, R!OneActiveOverride
  <1>2. ASSUME NEW v \in DOMAIN Policies, R!ChangePolicy(v) PROVE GrantKept
    BY <1>2 DEF R!ChangePolicy, GrantKept, RateInv, RememberedAt, R!OneActiveOverride
  <1>3. ASSUME R!InstantPasses PROVE GrantKept
    <2>1. /\ instant < MaxInstant /\ instant' = instant + 1
          /\ UNCHANGED <<policyVersion, counter, charge, override, admitted, chargedAt>>
      BY <1>3 DEF R!InstantPasses
    <2>2. instant' \in 0 .. MaxInstant
      BY <2>1 DEF RateInv, RateAssumption
    <2>3. \A a \in Actors, k \in Keys : RememberedAt(a, k)'
      BY <2>1 DEF RateInv, RememberedAt, RateAssumption
    <2> QED
      BY <2>1, <2>2, <2>3 DEF GrantKept, RateInv, R!OneActiveOverride
  <1> QED
    BY <1>1, <1>2, <1>3

LEMMA RateStep ==
    ASSUME RateAssumption, RateInv, R!RateNext
    PROVE  DecisionKept
  <1>1. ASSUME GrantKept PROVE DecisionKept
    <2>1. \A a \in Actors :
             ~(admitted[a][policyVersion][R!Window] > admitted[a][policyVersion][R!Window])
      <3>1. \A a \in Actors : admitted[a][policyVersion][R!Window] \in Nat
        BY WindowOfInstant DEF RateInv, Charges, R!Subjects
      <3> QED
        BY <3>1
    <2> QED
      BY <1>1, <2>1 DEF GrantKept, DecisionKept
  <1> QED
    BY <1>1, DecisionStep, GrantStep, OtherRateStep DEF R!RateNext

-----------------------------------------------------------------------------
(* Configuration and set-up *)

Revision == [values : Values, basedOn : Nat, createdAt : Nat]
Copied   == [revision : Nat, values : Values \cup {Default}, expiresAt : Nat]
Called   == [at : {"unstarted", "filling", "writing", "invalidating", "configuring", "marking",
                   "completing", "ended"},
             process : Processes \cup {None}, values : Values \cup {Default}, expected : Nat,
             revision : Nat, started : Nat]

\* A revision r read at t: it was replaced afterwards, if at all.
ReadAt(r, t) ==
    /\ r <= C!Current /\ t <= time
    /\ r < C!Current => t <= revisions[r + 1].createdAt

CopySound(p) ==
    cache[p] # None =>
        /\ cache[p] \in Copied
        /\ cache[p].revision <= C!Current
        /\ cache[p].values = C!ValuesOf(cache[p].revision)
        /\ cache[p].expiresAt <= time + CacheTtl
        /\ cache[p].revision < C!Current =>
              cache[p].expiresAt <= revisions[cache[p].revision + 1].createdAt + CallTime + CacheTtl

CallSound(c) ==
    /\ call[c].at \notin {"unstarted", "ended"} =>
          call[c].process \in Processes /\ call[c].started <= time /\ time <= call[c].started + CallTime
    /\ call[c].at = "filling" =>
          /\ ReadAt(call[c].revision, call[c].started)
          /\ plan[c] = "configure" =>
                call[c].expected = call[c].revision /\ call[c].values \in Values
          /\ plan[c] # "configure" => call[c].values = C!ValuesOf(call[c].revision)
    /\ call[c].at \in {"writing", "configuring"} => call[c].values \in Values
    /\ call[c].at \in {"invalidating", "marking"} => C!Current > 0

SetupInv ==
    /\ time \in Nat /\ revisions \in Seq(Revision)
    /\ \A n \in 1 .. C!Current : revisions[n].createdAt <= time
    /\ C!NoLostUpdate
    /\ DOMAIN cache = Processes /\ \A p \in Processes : CopySound(p)
    /\ call \in [C!Calls -> Called] /\ \A c \in C!Calls : CallSound(c)
    /\ setup \in [status : DOMAIN C!Ranks, admin : Administrators \cup {None}]
    /\ knownReady \subseteq Processes
    /\ setup.status \in {"NOT_STARTED", "BOOTSTRAP_IN_PROGRESS"} <=> setup.admin = None
    /\ C!ReadyIsConfigured

LEMMA SetupInitial ==
    ASSUME SetupAssumption, C!SetupInit
    PROVE  SetupInv
  <1>1. /\ revisions = <<>> /\ cache = [p \in Processes |-> None] /\ time = 0
        /\ call = [c \in C!Calls |-> C!Unstarted]
    BY DEF C!SetupInit, C!ConfigurationInit, C!Calls
  <1>2. C!Unstarted \in Called /\ C!Unstarted.at = "unstarted"
    BY DEF C!Unstarted, Called
  <1>3. /\ setup \in [status : DOMAIN C!Ranks, admin : Administrators \cup {None}]
        /\ knownReady \subseteq Processes
        /\ setup.status \in {"NOT_STARTED", "BOOTSTRAP_IN_PROGRESS"} <=> setup.admin = None
        /\ C!FirstLaunch => setup.status = "NOT_STARTED"
    <2>1. DOMAIN C!Ranks = {"NOT_STARTED", "BOOTSTRAP_IN_PROGRESS", "ADMIN_CREATED",
                            "CONFIGURATION_REQUIRED", "READY"}
      BY DEF C!Ranks
    <2>2. (CHOOSE u \in Administrators : TRUE) \in Administrators
      BY DEF SetupAssumption
    <2> QED
      BY <2>1, <2>2 DEF C!SetupInit, SetupAssumption
  <1>4. C!ReadyIsConfigured
    BY <1>3 DEF C!ReadyIsConfigured, C!Ranks
  <1>5. \A c \in C!Calls : CallSound(c)
    BY <1>1, <1>2 DEF CallSound
  <1>6. /\ DOMAIN cache = Processes /\ \A p \in Processes : CopySound(p)
        /\ call \in [C!Calls -> Called] /\ C!NoLostUpdate
        /\ revisions \in Seq(Revision) /\ \A n \in 1 .. C!Current : revisions[n].createdAt <= time
    BY <1>1, <1>2 DEF CopySound, C!NoLostUpdate, C!Current
  <1> QED
    BY <1>1, <1>3, <1>4, <1>5, <1>6 DEF SetupInv

\* The history of the configuration stays or gains a revision prepared against the last one.
Grown ==
    \/ revisions' = revisions
    \/ \E v \in Values : revisions' = Append(revisions,
          [values |-> v, basedOn |-> C!Current, createdAt |-> time])
HistoryKept ==
    /\ revisions' \in Seq(Revision) /\ C!Current <= C!Current' /\ C!Current' \in Nat
    /\ \A n \in 1 .. C!Current' : revisions'[n].createdAt <= time
    /\ C!NoLostUpdate'
    /\ \A n \in 1 .. C!Current : revisions'[n] = revisions[n]
    /\ C!Current < C!Current' => C!Current' = C!Current + 1 /\ revisions'[C!Current + 1].createdAt = time

LEMMA HistoryGrows ==
    ASSUME SetupAssumption, SetupInv, Grown
    PROVE  HistoryKept
  <1>1. /\ revisions \in Seq(Revision) /\ time \in Nat
        /\ \A n \in 1 .. C!Current : revisions[n].createdAt <= time /\ revisions[n].basedOn = n - 1
    BY DEF SetupInv, C!NoLostUpdate
  <1>2. C!Current \in Nat
    BY <1>1 DEF C!Current
  <1>3. CASE revisions' = revisions
    BY <1>1, <1>2, <1>3 DEF HistoryKept, C!Current, C!NoLostUpdate
  <1>4. ASSUME NEW v \in Values, revisions' = Append(revisions,
                  [values |-> v, basedOn |-> C!Current, createdAt |-> time])
        PROVE  HistoryKept
    <2> DEFINE new == [values |-> v, basedOn |-> C!Current, createdAt |-> time]
    <2>1. new \in Revision /\ new.basedOn = C!Current /\ new.createdAt = time
      BY <1>1, <1>2 DEF Revision
    <2>2. revisions' = Append(revisions, new)
      BY <1>4
    <2> HIDE DEF new
    <2>3. /\ revisions' \in Seq(Revision) /\ C!Current' = C!Current + 1
          /\ \A n \in 1 .. C!Current : revisions'[n] = revisions[n]
          /\ revisions'[C!Current + 1] = new
      BY <1>1, <2>1, <2>2 DEF C!Current
    <2>4. \A n \in 1 .. C!Current' : n \in 1 .. C!Current \/ n = C!Current + 1
      BY <1>2, <2>3
    <2>5. \A n \in 1 .. C!Current' : revisions'[n].createdAt <= time /\ revisions'[n].basedOn = n - 1
      BY <1>1, <1>2, <2>1, <2>3, <2>4
    <2> QED
      BY <1>2, <2>1, <2>3, <2>5 DEF HistoryKept, C!NoLostUpdate
  <1> QED
    BY <1>3, <1>4 DEF Grown

\* Copies and calls that do not move stay sound when the history grows.
LEMMA StandingCopy ==
    ASSUME SetupAssumption, SetupInv, Grown, time' = time, NEW p \in Processes, cache'[p] = cache[p]
    PROVE  CopySound(p)'
  <1>1. CopySound(p) /\ HistoryKept /\ time \in Nat
    BY HistoryGrows DEF SetupInv
  <1>2. SUFFICES ASSUME cache[p] # None PROVE CopySound(p)'
    BY DEF CopySound
  <1> DEFINE r == cache[p].revision
  <1>3. /\ cache[p] \in Copied /\ r \in Nat /\ cache[p].expiresAt \in Nat /\ C!Current \in Nat
        /\ r <= C!Current /\ cache[p].values = C!ValuesOf(r) /\ cache[p].expiresAt <= time + CacheTtl
        /\ r < C!Current => cache[p].expiresAt <= revisions[r + 1].createdAt + CallTime + CacheTtl
    BY <1>1, <1>2 DEF CopySound, Copied, C!Current, SetupInv
  <1>4. cache[p].values = IF r = 0 THEN Default ELSE revisions'[r].values
    BY <1>1, <1>3 DEF C!ValuesOf, HistoryKept
  <1>5. r < C!Current' => cache[p].expiresAt <= revisions'[r + 1].createdAt + CallTime + CacheTtl
    <2>1. CASE r < C!Current
      BY <1>1, <1>3, <2>1 DEF HistoryKept
    <2>2. CASE r = C!Current
      BY <1>1, <1>3, <2>2 DEF HistoryKept, SetupAssumption
    <2> QED
      BY <1>3, <2>1, <2>2
  <1> QED
    BY <1>1, <1>3, <1>4, <1>5 DEF CopySound, C!ValuesOf, HistoryKept

LEMMA ReadsStand ==
    ASSUME SetupAssumption, SetupInv, Grown, time' = time, NEW r \in Nat, NEW t \in Nat, ReadAt(r, t)
    PROVE  ReadAt(r, t)' /\ (C!ValuesOf(r)' = C!ValuesOf(r))
  <1>1. HistoryKept /\ time \in Nat /\ C!Current \in Nat
    BY HistoryGrows DEF SetupInv, C!Current
  <1> QED
    BY <1>1 DEF ReadAt, HistoryKept, C!ValuesOf

LEMMA StandingCall ==
    ASSUME SetupAssumption, SetupInv, Grown, time' = time, plan' = plan, NEW c \in C!Calls, call'[c] = call[c]
    PROVE  CallSound(c)'
  <1>1. CallSound(c) /\ HistoryKept /\ call[c] \in Called /\ time \in Nat /\ C!Current \in Nat
    BY HistoryGrows DEF SetupInv, C!Current
  <1>2. /\ call[c].revision \in Nat /\ call[c].started \in Nat
    BY <1>1 DEF Called
  <1>3. call[c].at = "filling" =>
           /\ ReadAt(call[c].revision, call[c].started)'
           /\ plan[c] # "configure" => call[c].values = C!ValuesOf(call[c].revision)'
    BY <1>1, <1>2, ReadsStand DEF CallSound
  <1> QED
    BY <1>1, <1>3 DEF CallSound, HistoryKept

\* The row of the set-up
RowInv ==
    /\ setup \in [status : DOMAIN C!Ranks, admin : Administrators \cup {None}]
    /\ knownReady \subseteq Processes
    /\ setup.status \in {"NOT_STARTED", "BOOTSTRAP_IN_PROGRESS"} <=> setup.admin = None
    /\ C!ReadyIsConfigured

LEMMA StandingRow ==
    ASSUME SetupAssumption, SetupInv, Grown, plan' = plan, UNCHANGED <<setup, knownReady>>
    PROVE  RowInv'
  <1>1. C!Current <= C!Current' /\ C!Current \in Nat /\ C!Current' \in Nat
    BY HistoryGrows DEF HistoryKept, SetupInv, C!Current
  <1>2. C!FirstLaunch' = C!FirstLaunch
    BY DEF C!FirstLaunch, C!Calls
  <1>3. C!ReadyIsConfigured'
    BY <1>1, <1>2 DEF SetupInv, C!ReadyIsConfigured, C!Ranks
  <1> QED
    BY <1>3 DEF SetupInv, RowInv

\* A step of one call, which may write a revision and touch the copy of one process.
CopiesMove == cache' = cache \/ \E p \in Processes : \E x : cache' = [cache EXCEPT ![p] = x] /\ CopySound(p)'

LEMMA CallMoves ==
    ASSUME SetupAssumption, SetupInv, Grown, time' = time, plan' = plan,
           NEW c \in C!Calls, NEW b \in Called, call' = [call EXCEPT ![c] = b], CallSound(c)',
           CopiesMove, RowInv'
    PROVE  SetupInv'
  <1>1. HistoryKept
    BY HistoryGrows
  <1>2. DOMAIN cache' = Processes /\ \A p \in Processes : CopySound(p)'
    <2>1. DOMAIN cache = Processes
      BY DEF SetupInv
    <2>2. CASE cache' = cache
      BY <2>1, <2>2, StandingCopy
    <2>3. ASSUME NEW p \in Processes, NEW x, cache' = [cache EXCEPT ![p] = x], CopySound(p)'
          PROVE  DOMAIN cache' = Processes /\ \A q \in Processes : CopySound(q)'
      <3>1. DOMAIN cache' = Processes /\ \A q \in Processes : q # p => cache'[q] = cache[q]
        BY <2>1, <2>3
      <3> QED
        BY <2>3, <3>1, StandingCopy
    <2> QED
      BY <2>2, <2>3 DEF CopiesMove
  <1>3. call \in [C!Calls -> Called] /\ C!Calls' = C!Calls
    BY DEF SetupInv, C!Calls
  <1>4. /\ call' \in [C!Calls' -> Called]
        /\ \A d \in C!Calls : d # c => call'[d] = call[d]
    BY <1>3
  <1>5. \A d \in C!Calls' : CallSound(d)'
    BY <1>3, <1>4, StandingCall
  <1> QED
    BY <1>1, <1>2, <1>4, <1>5 DEF SetupInv, RowInv, HistoryKept

LEMMA ValuesOfAny ==
    ASSUME SetupInv, NEW n \in 0 .. C!Current
    PROVE  C!ValuesOf(n) \in Values \cup {Default} /\ (n # 0 => C!ValuesOf(n) \in Values)
  <1>1. revisions \in Seq(Revision)
    BY DEF SetupInv
  <1>2. n # 0 => revisions[n] \in Revision
    BY <1>1 DEF C!Current
  <1> QED
    BY <1>2 DEF C!ValuesOf, Revision

\* A call starts: it reads the head and may go on at once.
LEMMA Starting ==
    ASSUME SetupAssumption, SetupInv, Grown, time' = time, plan' = plan, NEW c \in C!Calls,
           NEW at \in {"filling", "writing", "invalidating", "configuring", "completing", "ended"},
           NEW p \in Processes, NEW v \in Values \cup {Default}, NEW n \in Nat,
           call' = [call EXCEPT ![c] = [at |-> at, process |-> p, values |-> v, expected |-> n,
                                        revision |-> C!Current, started |-> time]],
           at = "filling" =>
              /\ revisions' = revisions
              /\ IF plan[c] = "configure" THEN n = C!Current /\ v \in Values
                 ELSE v = C!ValuesOf(C!Current),
           at \in {"writing", "configuring"} => v \in Values,
           at = "invalidating" => C!Current' > 0,
           CopiesMove, RowInv'
    PROVE  SetupInv'
  <1>1. C!Current \in Nat /\ time \in Nat /\ call \in [C!Calls -> Called]
    BY DEF SetupInv, C!Current
  <1>b. PICK b \in Called : b = [at |-> at, process |-> p, values |-> v, expected |-> n,
                                 revision |-> C!Current, started |-> time]
    BY <1>1 DEF Called
  <1>2. /\ b \in Called /\ b.at = at /\ b.process = p /\ b.values = v /\ b.expected = n
        /\ b.revision = C!Current /\ b.started = time /\ call' = [call EXCEPT ![c] = b]
    BY <1>b
  <1>3. call'[c] = b
    BY <1>1, <1>2
  <1>4. at = "filling" => C!Current' = C!Current /\ C!ValuesOf(C!Current)' = C!ValuesOf(C!Current)
    BY DEF C!Current, C!ValuesOf
  <1>5. CallSound(c)'
    <2>1. at = "filling" => ReadAt(b.revision, b.started)'
      BY <1>1, <1>2, <1>4 DEF ReadAt
    <2>2. at = "filling" => ReadAt(call[c].revision, call[c].started)'
      BY <1>3, <2>1 DEF ReadAt
    <2>3. at = "filling" /\ plan[c] # "configure" => call'[c].values = C!ValuesOf(call[c].revision)'
      BY <1>2, <1>3, <1>4
    <2> QED
      BY <1>1, <1>2, <1>3, <2>2, <2>3 DEF CallSound, SetupAssumption
  <1> QED
    BY <1>2, <1>5, CallMoves

\* The steps of ConfigurationRevisions
LEMMA Reading ==
    ASSUME SetupAssumption, SetupInv, NEW c \in C!Calls, NEW p \in Processes,
           \/ C!ReadHead(c, p) \/ C!Refresh(c, p) \/ C!ReadForPreload(c, p)
           \/ \E v \in Values, n \in 1 .. C!Current : C!ReadForSave(c, p, v, n)
           \/ \E n \in 1 .. C!Current, target \in 1 .. C!Current : C!ReadForRollback(c, p, target, n),
           UNCHANGED <<setup, knownReady>>
    PROVE  SetupInv'
  <1>1. /\ Grown /\ revisions' = revisions /\ time' = time /\ plan' = plan
        /\ cache' = cache \/ cache' = [cache EXCEPT ![p] = None]
    BY DEF C!ReadHead, C!Refresh, C!ReadForPreload, C!ReadForSave, C!ReadForRollback, Grown
  <1>2. CopiesMove /\ RowInv'
    <2>1. cache' = [cache EXCEPT ![p] = None] => CopySound(p)'
      BY DEF SetupInv, CopySound
    <2> QED
      BY <1>1, <2>1, StandingRow DEF CopiesMove
  <1>3. C!Current \in Nat /\ C!ValuesOf(C!Current) \in Values \cup {Default}
    BY ValuesOfAny DEF SetupInv, C!Current
  <1>4. CASE C!ReadHead(c, p) \/ C!Refresh(c, p) \/ C!ReadForPreload(c, p)
    <2>1. /\ plan[c] # "configure"
          /\ call' = [call EXCEPT ![c] = [at |-> "filling", process |-> p, values |-> C!ValuesOf(C!Current),
                                          expected |-> 0, revision |-> C!Current, started |-> time]]
      BY <1>4 DEF C!ReadHead, C!Refresh, C!ReadForPreload, C!Start
    <2> QED
      BY <1>1, <1>2, <1>3, <2>1, Starting
  <1>5. ASSUME NEW v \in Values, NEW n \in 1 .. C!Current, C!ReadForSave(c, p, v, n) PROVE SetupInv'
    <2>1. \E at \in {"writing", "ended"} :
             call' = [call EXCEPT ![c] = [at |-> at, process |-> p, values |-> v, expected |-> n,
                                          revision |-> C!Current, started |-> time]]
      BY <1>5 DEF C!ReadForSave, C!Start
    <2>2. PICK at \in {"writing", "ended"} :
             call' = [call EXCEPT ![c] = [at |-> at, process |-> p, values |-> v, expected |-> n,
                                          revision |-> C!Current, started |-> time]]
      BY <2>1
    <2>3. n \in Nat
      BY <1>3
    <2> QED
      BY <1>1, <1>2, <2>2, <2>3, Starting
  <1>6. ASSUME NEW n \in 1 .. C!Current, NEW target \in 1 .. C!Current, C!ReadForRollback(c, p, target, n)
        PROVE  SetupInv'
    <2>1. call' = [call EXCEPT ![c] = [at |-> "writing", process |-> p, values |-> C!ValuesOf(target),
                                       expected |-> n, revision |-> C!Current, started |-> time]]
      BY <1>6 DEF C!ReadForRollback, C!Start
    <2>2. C!ValuesOf(target) \in Values /\ n \in Nat
      BY <1>3, ValuesOfAny
    <2> QED
      BY <1>1, <1>2, <2>1, <2>2, Starting
  <1> QED
    BY <1>4, <1>5, <1>6

\* An account without configuration gets its first revision, another keeps what it has.
LEMMA SeedingGrows ==
    ASSUME SetupAssumption, SetupInv, NEW v \in Values, revisions' = C!Seeded(v)
    PROVE  Grown /\ C!Current' > 0
  <1>1. revisions \in Seq(Revision) /\ C!Current \in Nat
    BY DEF SetupInv, C!Current
  <1>2. CASE C!Current > 0
    BY <1>2 DEF C!Seeded, Grown, C!Current
  <1>3. CASE C!Current = 0
    <2>1. revisions = <<>> /\ revisions' = <<[values |-> v, basedOn |-> 0, createdAt |-> time]>>
      BY <1>1, <1>3 DEF C!Seeded, C!SeededAnew, C!Current
    <2>2. revisions' = Append(revisions, [values |-> v, basedOn |-> C!Current, createdAt |-> time])
      BY <1>3, <2>1
    <2>3. Len(revisions') = 1
      BY <2>1
    <2> QED
      BY <2>2, <2>3 DEF Grown, C!Current
  <1> QED
    BY <1>1, <1>2, <1>3

LEMMA Seeding ==
    ASSUME SetupAssumption, SetupInv, NEW c \in C!Calls, NEW p \in Processes, NEW v \in Values,
           C!Seed(c, p, v), UNCHANGED <<setup, knownReady>>
    PROVE  SetupInv'
  <1>1. /\ revisions' = C!Seeded(v) /\ time' = time /\ plan' = plan /\ cache' = cache
        /\ call' = [call EXCEPT ![c] = [at |-> "invalidating", process |-> p, values |-> v, expected |-> 0,
                                        revision |-> C!Current, started |-> time]]
    BY DEF C!Seed, C!Start
  <1>2. Grown /\ C!Current' > 0
    BY <1>1, SeedingGrows
  <1>3. CopiesMove /\ RowInv'
    BY <1>1, <1>2, StandingRow DEF CopiesMove
  <1> QED
    BY <1>1, <1>2, <1>3, Starting

\* A call that goes on keeps what it has read.
Later(c, at) == [call[c] EXCEPT !.at = at]

LEMMA GoingOn ==
    ASSUME SetupAssumption, SetupInv, Grown, time' = time, plan' = plan, NEW c \in C!Calls,
           NEW at \in {"writing", "invalidating", "configuring", "marking", "ended"},
           C!Moves(c, at), call[c].at \notin {"unstarted", "ended"},
           at \in {"writing", "configuring"} => call[c].values \in Values,
           at \in {"invalidating", "marking"} => C!Current' > 0,
           CopiesMove, RowInv'
    PROVE  SetupInv'
  <1>1. call[c] \in Called /\ call \in [C!Calls -> Called] /\ CallSound(c)
    BY DEF SetupInv
  <1>2. PICK b \in Called : b = [call[c] EXCEPT !.at = at]
    BY <1>1 DEF Called
  <1>3. /\ b.at = at /\ b.process = call[c].process /\ b.values = call[c].values
        /\ b.started = call[c].started
    BY <1>1, <1>2 DEF Called
  <1>4. call' = [call EXCEPT ![c] = b]
    BY <1>1, <1>2 DEF C!Moves
  <1>5. call'[c] = b
    BY <1>1, <1>4
  <1>6. CallSound(c)'
    BY <1>1, <1>3, <1>5 DEF CallSound
  <1> QED
    BY <1>4, <1>6, CallMoves

\* A copy made of what a call has read is sound: the call is over within CallTime.
LEMMA Copying ==
    ASSUME SetupAssumption, SetupInv, NEW c \in C!Calls, call[c].at = "filling",
           revisions' = revisions, time' = time, NEW x \in Copied,
           cache' = [cache EXCEPT ![call[c].process] = x],
           x.revision = call[c].revision, x.values = C!ValuesOf(call[c].revision),
           x.expiresAt <= time + CacheTtl, x.expiresAt <= call[c].started + CallTime + CacheTtl
    PROVE  CopiesMove
  <1>1. call[c] \in Called /\ CallSound(c) /\ DOMAIN cache = Processes
    BY DEF SetupInv
  <1>2. PICK p \in Processes : p = call[c].process
    BY <1>1 DEF CallSound
  <1>3. cache' = [cache EXCEPT ![p] = x] /\ cache'[p] = x
    BY <1>1, <1>2
  <1>4. /\ ReadAt(x.revision, call[c].started) /\ x.revision \in Nat /\ x.expiresAt \in Nat
        /\ call[c].started \in Nat /\ C!Current \in Nat
    BY <1>1 DEF CallSound, Called, Copied, SetupInv, C!Current
  <1>5. x.revision < C!Current =>
           x.expiresAt <= revisions[x.revision + 1].createdAt + CallTime + CacheTtl
    <2>1. ASSUME x.revision < C!Current
          PROVE  x.expiresAt <= revisions[x.revision + 1].createdAt + CallTime + CacheTtl
      <3>1. call[c].started <= revisions[x.revision + 1].createdAt
        BY <1>4, <2>1 DEF ReadAt
      <3>2. revisions[x.revision + 1].createdAt \in Nat
        <4>1. revisions \in Seq(Revision) /\ x.revision + 1 \in 1 .. Len(revisions)
          BY <1>4, <2>1 DEF SetupInv, C!Current
        <4>2. revisions[x.revision + 1] \in Revision
          BY <4>1
        <4> QED
          BY <4>2 DEF Revision
      <3> QED
        BY <1>4, <3>1, <3>2 DEF SetupAssumption
    <2> QED
      BY <2>1
  <1>6. C!ValuesOf(x.revision)' = x.values /\ C!Current' = C!Current
    BY DEF C!ValuesOf, C!Current
  <1>7. CopySound(p)'
    <2>1. cache'[p].values = C!ValuesOf(cache[p].revision)'
      BY <1>3, <1>6 DEF C!ValuesOf
    <2> QED
      BY <1>3, <1>4, <1>5, <1>6, <2>1 DEF CopySound, ReadAt
  <1> QED
    BY <1>3, <1>7 DEF CopiesMove

LEMMA Filling ==
    ASSUME SetupAssumption, SetupInv, NEW c \in C!Calls,
           \/ C!FillCache(c) /\ UNCHANGED <<setup, knownReady>>
           \/ C!FillForConfigure(c)
    PROVE  SetupInv'
  <1>1. /\ Grown /\ revisions' = revisions /\ time' = time /\ plan' = plan
        /\ UNCHANGED <<setup, knownReady>> /\ call[c].at = "filling"
    BY DEF C!FillCache, C!FillForConfigure, Grown
  <1>2. /\ call[c] \in Called /\ CallSound(c) /\ time \in Nat /\ C!Current \in Nat
        /\ CacheTtl \in Nat /\ CallTime \in Nat
    BY DEF SetupInv, C!Current, SetupAssumption
  <1>3. /\ call[c].revision \in 0 .. C!Current /\ call[c].started \in Nat
        /\ call[c].started <= time /\ time <= call[c].started + CallTime
    BY <1>1, <1>2 DEF CallSound, ReadAt, Called
  <1>4. C!ValuesOf(call[c].revision) \in Values \cup {Default}
    BY <1>3, ValuesOfAny
  <1>5. CASE C!FillCache(c)
    <2>1. call[c].values = C!ValuesOf(call[c].revision)
      BY <1>1, <1>2, <1>5 DEF CallSound, C!FillCache
    <2>2. C!ExpiresAt(c) \in {time + CacheTtl, call[c].started + CacheTtl}
      BY DEF C!ExpiresAt
    <2>a. C!ExpiresAt(c) \in Nat /\ call[c].revision \in Nat
      BY <1>2, <1>3, <2>2
    <2>b. [revision |-> call[c].revision, values |-> call[c].values, expiresAt |-> C!ExpiresAt(c)] \in Copied
      BY <1>4, <2>1, <2>a DEF Copied
    <2>3. PICK x \in Copied : x = C!Copy(c)
      BY <2>b DEF C!Copy
    <2>4. /\ x.revision = call[c].revision /\ x.values = C!ValuesOf(call[c].revision)
          /\ x.expiresAt <= time + CacheTtl /\ x.expiresAt <= call[c].started + CallTime + CacheTtl
      BY <1>2, <1>3, <2>1, <2>2, <2>3 DEF C!Copy
    <2>5. cache' = [cache EXCEPT ![call[c].process] = x] /\ C!Moves(c, "ended")
      BY <1>5, <2>3 DEF C!FillCache
    <2>6. CopiesMove
      BY <1>1, <2>4, <2>5, Copying
    <2> QED
      BY <1>1, <2>5, <2>6, StandingRow, GoingOn
  <1>6. CASE C!FillForConfigure(c)
    <2>1. call[c].expected = call[c].revision
      BY <1>1, <1>2, <1>6 DEF CallSound, C!FillForConfigure
    <2>a. call[c].started + CacheTtl \in Nat /\ call[c].revision \in Nat
      BY <1>2, <1>3
    <2>b. [revision |-> call[c].expected, values |-> C!ValuesOf(call[c].expected),
           expiresAt |-> call[c].started + CacheTtl] \in Copied
      BY <1>4, <2>1, <2>a DEF Copied
    <2>2. PICK x \in Copied : x = [revision |-> call[c].expected, values |-> C!ValuesOf(call[c].expected),
                                   expiresAt |-> call[c].started + CacheTtl]
      BY <2>b
    <2>3. /\ x.revision = call[c].revision /\ x.values = C!ValuesOf(call[c].revision)
          /\ x.expiresAt <= time + CacheTtl /\ x.expiresAt <= call[c].started + CallTime + CacheTtl
      BY <1>2, <1>3, <2>1, <2>2
    <2>4. cache' = [cache EXCEPT ![call[c].process] = x] /\ C!Moves(c, "configuring")
      BY <1>6, <2>2 DEF C!FillForConfigure
    <2>5. CopiesMove
      BY <1>1, <2>3, <2>4, Copying
    <2>6. call[c].values \in Values
      BY <1>1, <1>2, <1>6 DEF CallSound, C!FillForConfigure
    <2> QED
      BY <1>1, <2>4, <2>5, <2>6, StandingRow, GoingOn
  <1> QED
    BY <1>5, <1>6

LEMMA Writing ==
    ASSUME SetupAssumption, SetupInv, NEW c \in C!Calls,
           \/ C!WriteRevision(c) /\ UNCHANGED <<setup, knownReady>>
           \/ C!WriteConfigure(c)
    PROVE  SetupInv'
  <1>1. /\ time' = time /\ plan' = plan /\ cache' = cache /\ UNCHANGED <<setup, knownReady>>
        /\ call[c].at \in {"writing", "configuring"}
    BY DEF C!WriteRevision, C!WriteConfigure
  <1>2. call[c].values \in Values /\ C!Current \in Nat
    BY <1>1 DEF SetupInv, CallSound, C!Current
  <1>3. CopiesMove
    BY <1>1 DEF CopiesMove
  <1>4. CASE C!WriteRevision(c)
    <2>1. CASE C!ExpectedCurrent(call[c].expected)
      <3>1. /\ revisions' = Append(revisions, [values |-> call[c].values, basedOn |-> C!Current, createdAt |-> time])
            /\ C!Moves(c, "invalidating")
        BY <1>4, <2>1 DEF C!WriteRevision, C!ExpectedCurrent
      <3>2. Grown
        BY <1>2, <3>1 DEF Grown
      <3>3. C!Current' > 0
        BY <2>1, <1>2, <3>2, HistoryGrows DEF C!ExpectedCurrent, HistoryKept
      <3> QED
        BY <1>1, <1>3, <3>1, <3>2, <3>3, StandingRow, GoingOn
    <2>2. CASE ~C!ExpectedCurrent(call[c].expected)
      BY <1>1, <1>3, <1>4, <2>2, StandingRow, GoingOn DEF C!WriteRevision, Grown
    <2> QED
      BY <2>1, <2>2
  <1>5. CASE C!WriteConfigure(c)
    <2>1. CASE call[c].expected = 0
      <3>1. revisions' = C!Seeded(call[c].values) /\ C!Moves(c, "invalidating")
        BY <1>5, <2>1 DEF C!WriteConfigure
      <3>2. Grown /\ C!Current' > 0
        BY <1>2, <3>1, SeedingGrows
      <3> QED
        BY <1>1, <1>3, <3>1, <3>2, StandingRow, GoingOn
    <2>2. CASE call[c].expected # 0
      <3>1. Grown /\ \E at \in {"writing", "ended"} : C!Moves(c, at)
        BY <1>5, <2>2 DEF C!WriteConfigure, Grown
      <3> QED
        BY <1>1, <1>2, <1>3, <3>1, StandingRow, GoingOn
    <2> QED
      BY <2>1, <2>2
  <1> QED
    BY <1>4, <1>5

LEMMA Invalidating ==
    ASSUME SetupAssumption, SetupInv, NEW c \in C!Calls, NEW at \in {"ended", "marking"},
           C!Invalidate(c, at), UNCHANGED <<setup, knownReady>>
    PROVE  SetupInv'
  <1>1. /\ time' = time /\ plan' = plan /\ revisions' = revisions /\ C!Moves(c, at)
        /\ call[c].at = "invalidating" /\ cache' = [cache EXCEPT ![call[c].process] = None]
    BY DEF C!Invalidate
  <1>2. C!Current' > 0 /\ call[c].process \in Processes /\ Grown
    BY <1>1 DEF SetupInv, CallSound, C!Current, Grown
  <1>3. PICK p \in Processes : p = call[c].process
    BY <1>2
  <1>4. cache' = [cache EXCEPT ![p] = None] /\ CopySound(p)'
    BY <1>1, <1>3 DEF SetupInv, CopySound
  <1>5. CopiesMove
    BY <1>4 DEF CopiesMove
  <1> QED
    BY <1>1, <1>2, <1>5, StandingRow, GoingOn

LEMMA Waiting ==
    ASSUME SetupAssumption, SetupInv, C!TimePasses, UNCHANGED <<setup, knownReady>>
    PROVE  SetupInv'
  <1>1. /\ time' = time + 1 /\ UNCHANGED <<revisions, cache, plan, call>>
        /\ \A c \in C!Calls : call[c].at \notin {"unstarted", "ended"} => time < call[c].started + CallTime
    BY DEF C!TimePasses
  <1>2. /\ time \in Nat /\ time' \in Nat /\ C!Current' = C!Current /\ C!Current \in Nat
        /\ CacheTtl \in Nat /\ CallTime \in Nat
    BY <1>1 DEF SetupInv, C!Current, SetupAssumption
  <1>3. \A n \in 1 .. C!Current : revisions[n].createdAt \in Nat
    <2>1. \A n \in 1 .. Len(revisions) : revisions[n] \in Revision
      BY DEF SetupInv
    <2> QED
      BY <2>1 DEF Revision, C!Current
  <1>4. \A p \in Processes : CopySound(p)'
    BY <1>1, <1>2 DEF SetupInv, CopySound, C!ValuesOf, Copied
  <1>5. ASSUME NEW c \in C!Calls PROVE CallSound(c)'
    <2>1. CallSound(c) /\ call[c] \in Called
      BY DEF SetupInv
    <2>2. call[c].started \in Nat
      BY <2>1 DEF Called
    <2>3. call[c].at \notin {"unstarted", "ended"} => time + 1 <= call[c].started + CallTime
      BY <1>1, <1>2, <2>2
    <2> QED
      BY <1>1, <1>2, <2>1, <2>2, <2>3 DEF CallSound, ReadAt, C!ValuesOf
  <1>6. C!Calls' = C!Calls
    BY <1>1 DEF C!Calls
  <1>7. RowInv'
    BY <1>1, StandingRow DEF Grown
  <1> QED
    BY <1>1, <1>2, <1>3, <1>4, <1>5, <1>6, <1>7 DEF SetupInv, RowInv, C!NoLostUpdate

LEMMA ConfigurationStep ==
    ASSUME SetupAssumption, SetupInv, C!ConfigurationNext, UNCHANGED <<setup, knownReady, crashes>>
    PROVE  SetupInv'
  <1> QED
    BY Waiting, Filling, Writing, Invalidating, Reading, Seeding DEF C!ConfigurationNext

LEMMA RowMoves ==
    ASSUME SetupAssumption, SetupInv, RowInv', UNCHANGED <<revisions, cache, plan, call, time>>
    PROVE  SetupInv'
  <1>1. Grown /\ C!Calls' = C!Calls /\ C!Current' = C!Current
    BY DEF Grown, C!Calls, C!Current
  <1>2. \A p \in Processes : CopySound(p)'
    BY <1>1, StandingCopy
  <1>3. \A c \in C!Calls : CallSound(c)'
    BY <1>1, StandingCall
  <1> QED
    BY <1>1, <1>2, <1>3 DEF SetupInv, RowInv, C!NoLostUpdate

StatusNames == {"NOT_STARTED", "BOOTSTRAP_IN_PROGRESS", "ADMIN_CREATED", "CONFIGURATION_REQUIRED", "READY"}
SetupMovesOn ==
    /\ C!Ranks[setup'.status] >= C!Ranks[setup.status]
    /\ setup.admin # None => setup'.admin = setup.admin

LEMMA RanksOf ==
    /\ DOMAIN C!Ranks = StatusNames
    /\ C!Ranks["NOT_STARTED"] = 0 /\ C!Ranks["BOOTSTRAP_IN_PROGRESS"] = 1
    /\ C!Ranks["ADMIN_CREATED"] = 2 /\ C!Ranks["CONFIGURATION_REQUIRED"] = 3 /\ C!Ranks["READY"] = 4
  <1> QED
    BY DEF C!Ranks, StatusNames

LEMMA SetupStands ==
    ASSUME SetupInv, setup' = setup
    PROVE  SetupMovesOn
  <1> QED
    BY RanksOf DEF SetupInv, SetupMovesOn, StatusNames

LEMMA Bootstrapping ==
    ASSUME SetupAssumption, SetupInv,
           C!Begin \/ (\E u \in Administrators : C!Bootstrap(u)) \/ \E p \in Processes : C!IsReady(p)
    PROVE  SetupInv' /\ SetupMovesOn
  <1>1. UNCHANGED <<revisions, cache, plan, call, time>>
    BY DEF C!Begin, C!Bootstrap, C!IsReady, C!configurationVars
  <1>2. RowInv' /\ SetupMovesOn
    <2>1. /\ setup \in [status : StatusNames, admin : Administrators \cup {None}]
          /\ setup.status \in {"NOT_STARTED", "BOOTSTRAP_IN_PROGRESS"} <=> setup.admin = None
          /\ knownReady \subseteq Processes
      BY RanksOf DEF SetupInv
    <2>2. CASE C!Begin
      <3>1. /\ setup.status = "NOT_STARTED" /\ knownReady' = knownReady
            /\ setup' = [setup EXCEPT !.status = "BOOTSTRAP_IN_PROGRESS"]
        BY <2>2 DEF C!Begin
      <3>2. /\ setup' \in [status : StatusNames, admin : Administrators \cup {None}]
            /\ setup'.status = "BOOTSTRAP_IN_PROGRESS" /\ setup'.admin = setup.admin
        BY <2>1, <3>1 DEF StatusNames
      <3> QED
        BY <2>1, <3>1, <3>2, RanksOf DEF RowInv, SetupMovesOn, C!ReadyIsConfigured, C!Ranks
    <2>3. ASSUME NEW u \in Administrators, C!Bootstrap(u) PROVE RowInv' /\ SetupMovesOn
      <3>1. /\ setup.status = "BOOTSTRAP_IN_PROGRESS" /\ knownReady' = knownReady
            /\ setup' = [status |-> "ADMIN_CREATED", admin |-> u]
        BY <2>3 DEF C!Bootstrap, C!Establishes
      <3>2. /\ setup' \in [status : StatusNames, admin : Administrators \cup {None}]
            /\ setup'.status = "ADMIN_CREATED" /\ setup'.admin = u /\ u # None
        BY <3>1 DEF StatusNames, SetupAssumption
      <3> QED
        BY <2>1, <3>1, <3>2, RanksOf DEF RowInv, SetupMovesOn, C!ReadyIsConfigured, C!Ranks
    <2>4. ASSUME NEW p \in Processes, C!IsReady(p) PROVE RowInv' /\ SetupMovesOn
      <3>1. setup' = setup /\ knownReady' \subseteq Processes
        BY <2>1, <2>4 DEF C!IsReady
      <3>2. C!ReadyIsConfigured'
        BY <1>1, <3>1 DEF SetupInv, C!ReadyIsConfigured, C!FirstLaunch, C!Calls, C!Current, C!Ranks
      <3> QED
        BY <2>1, <3>1, <3>2, RanksOf, SetupStands DEF RowInv
    <2> QED
      BY <2>2, <2>3, <2>4
  <1> QED
    BY <1>1, <1>2, RowMoves

\* The last steps of configure and complete move the row on.
LEMMA Marking ==
    ASSUME SetupAssumption, SetupInv, NEW c \in C!Calls, C!MarkConfigurationRequired(c) \/ C!Complete(c)
    PROVE  SetupInv' /\ SetupMovesOn
  <1>1. /\ time' = time /\ plan' = plan /\ cache' = cache /\ revisions' = revisions
        /\ C!Moves(c, "ended") /\ call[c].at \in {"marking", "completing"}
        /\ Grown /\ CopiesMove /\ C!Current' = C!Current /\ C!FirstLaunch' = C!FirstLaunch
    BY DEF C!MarkConfigurationRequired, C!Complete, Grown, CopiesMove, C!Current, C!FirstLaunch, C!Calls
  <1>2. /\ setup \in [status : StatusNames, admin : Administrators \cup {None}]
        /\ setup.status \in {"NOT_STARTED", "BOOTSTRAP_IN_PROGRESS"} <=> setup.admin = None
        /\ knownReady \subseteq Processes /\ C!ReadyIsConfigured
        /\ call[c].process \in Processes
    BY <1>1, RanksOf DEF SetupInv, CallSound
  <1>3. /\ \/ setup' = setup
           \/ /\ setup.status = "ADMIN_CREATED" /\ C!Current > 0
              /\ setup' = [setup EXCEPT !.status = "CONFIGURATION_REQUIRED"]
           \/ /\ setup.status = "CONFIGURATION_REQUIRED"
              /\ setup' = [setup EXCEPT !.status = "READY"]
        /\ knownReady' \subseteq Processes
    <2>1. CASE C!MarkConfigurationRequired(c)
      <3>1. C!Current > 0
        BY <2>1 DEF SetupInv, CallSound, C!MarkConfigurationRequired
      <3> QED
        BY <1>2, <2>1, <3>1 DEF C!MarkConfigurationRequired
    <2>2. CASE C!Complete(c)
      BY <1>2, <2>2 DEF C!Complete, C!Completable
    <2> QED
      BY <2>1, <2>2
  <1>4. RowInv' /\ SetupMovesOn
    <2>1. CASE setup' = setup
      <3>1. C!ReadyIsConfigured'
        BY <1>1, <1>2, <2>1 DEF C!ReadyIsConfigured, C!Ranks
      <3> QED
        BY <1>2, <1>3, <2>1, <3>1, RanksOf, SetupStands DEF RowInv
    <2>2. CASE /\ setup.status = "ADMIN_CREATED" /\ C!Current > 0
               /\ setup' = [setup EXCEPT !.status = "CONFIGURATION_REQUIRED"]
      <3>1. /\ setup' \in [status : StatusNames, admin : Administrators \cup {None}]
            /\ setup'.status = "CONFIGURATION_REQUIRED" /\ setup'.admin = setup.admin /\ setup.admin # None
        BY <1>2, <2>2 DEF StatusNames
      <3>2. C!ReadyIsConfigured'
        BY <1>1, <2>2, <3>1 DEF C!ReadyIsConfigured
      <3> QED
        BY <1>2, <1>3, <2>2, <3>1, <3>2, RanksOf DEF RowInv, SetupMovesOn
    <2>3. CASE /\ setup.status = "CONFIGURATION_REQUIRED"
               /\ setup' = [setup EXCEPT !.status = "READY"]
      <3>1. /\ setup' \in [status : StatusNames, admin : Administrators \cup {None}]
            /\ setup'.status = "READY" /\ setup'.admin = setup.admin /\ setup.admin # None
        BY <1>2, <2>3 DEF StatusNames
      <3>2. C!ReadyIsConfigured'
        BY <1>1, <1>2, <2>3, <3>1, RanksOf DEF C!ReadyIsConfigured
      <3> QED
        BY <1>2, <1>3, <2>3, <3>1, <3>2, RanksOf DEF RowInv, SetupMovesOn
    <2> QED
      BY <1>3, <2>1, <2>2, <2>3
  <1> QED
    BY <1>1, <1>4, GoingOn

LEMMA WizardReads ==
    ASSUME SetupAssumption, SetupInv, NEW c \in C!Calls, NEW p \in Processes,
           C!StartComplete(c, p) \/ \E v \in Values : C!StartConfigure(c, p, v)
    PROVE  SetupInv' /\ setup' = setup
  <1>1. /\ time' = time /\ plan' = plan /\ cache' = cache /\ revisions' = revisions
        /\ Grown /\ CopiesMove /\ UNCHANGED <<setup, knownReady>>
    BY DEF C!StartComplete, C!StartConfigure, Grown, CopiesMove
  <1>2. RowInv'
    BY <1>1, StandingRow
  <1>3. C!Current \in Nat /\ (C!Cached(p) => cache[p].revision \in Nat)
    BY DEF SetupInv, C!Current, C!Cached, CopySound, Copied
  <1>4. CASE C!StartComplete(c, p)
    <2>1. PICK at \in {"completing", "ended"} :
             call' = [call EXCEPT ![c] = [at |-> at, process |-> p, values |-> Default, expected |-> 0,
                                          revision |-> C!Current, started |-> time]]
      BY <1>4 DEF C!StartComplete, C!Requested
    <2> QED
      BY <1>1, <1>2, <2>1, Starting
  <1>5. ASSUME NEW v \in Values, C!StartConfigure(c, p, v) PROVE SetupInv'
    <2>1. CASE C!Cached(p)
      <3>1. call' = [call EXCEPT ![c] = [at |-> "configuring", process |-> p, values |-> v,
                                         expected |-> cache[p].revision,
                                         revision |-> C!Current, started |-> time]]
        BY <1>5, <2>1 DEF C!StartConfigure, C!Requested
      <3> QED
        BY <1>1, <1>2, <1>3, <2>1, <3>1, Starting
    <2>2. CASE ~C!Cached(p)
      <3>1. /\ plan[c] = "configure"
            /\ call' = [call EXCEPT ![c] = [at |-> "filling", process |-> p, values |-> v,
                                            expected |-> C!Current,
                                            revision |-> C!Current, started |-> time]]
        BY <1>5, <2>2 DEF C!StartConfigure, C!Requested
      <3> QED
        BY <1>1, <1>2, <1>3, <3>1, Starting
    <2> QED
      BY <2>1, <2>2
  <1> QED
    BY <1>1, <1>4, <1>5

LEMMA Crashing ==
    ASSUME SetupAssumption, SetupInv, NEW p \in Processes, C!CrashProcess(p)
    PROVE  SetupInv' /\ setup' = setup
  <1>1. /\ cache' = [cache EXCEPT ![p] = None] /\ knownReady' = knownReady \ {p}
        /\ call' = [c \in C!Calls |-> IF call[c].process = p THEN [call[c] EXCEPT !.at = "ended"] ELSE call[c]]
        /\ UNCHANGED <<revisions, plan, time, setup>>
    BY DEF C!CrashProcess
  <1>2. Grown /\ C!Calls' = C!Calls /\ C!Current' = C!Current /\ C!FirstLaunch' = C!FirstLaunch
    BY <1>1 DEF Grown, C!Calls, C!Current, C!FirstLaunch
  <1>3. DOMAIN cache' = Processes /\ \A q \in Processes : CopySound(q)'
    <2>1. DOMAIN cache' = Processes /\ cache'[p] = None /\ \A q \in Processes : q # p => cache'[q] = cache[q]
      BY <1>1 DEF SetupInv
    <2>2. CopySound(p)'
      BY <2>1 DEF CopySound
    <2> QED
      BY <1>1, <1>2, <2>1, <2>2, StandingCopy
  <1>4. ASSUME NEW c \in C!Calls PROVE CallSound(c)' /\ call'[c] \in Called
    <2>1. call[c] \in Called
      BY DEF SetupInv
    <2>2. CASE call[c].process = p
      <3>1. call'[c] = [call[c] EXCEPT !.at = "ended"]
        BY <1>1, <2>2
      <3>2. call'[c] \in Called /\ call'[c].at = "ended"
        BY <2>1, <3>1 DEF Called
      <3> QED
        BY <3>2 DEF CallSound
    <2>3. CASE call[c].process # p
      <3>1. call'[c] = call[c]
        BY <1>1, <2>3
      <3> QED
        BY <1>1, <1>2, <2>1, <3>1, StandingCall
    <2> QED
      BY <2>2, <2>3
  <1>5. call' \in [C!Calls' -> Called]
    BY <1>1, <1>2, <1>4
  <1>6. C!ReadyIsConfigured' /\ knownReady' \subseteq Processes
    BY <1>1, <1>2 DEF SetupInv, C!ReadyIsConfigured, C!Ranks
  <1> QED
    BY <1>1, <1>2, <1>3, <1>4, <1>5, <1>6 DEF SetupInv, C!NoLostUpdate

LEMMA SetupStep ==
    ASSUME SetupAssumption, SetupInv, C!SetupNext
    PROVE  SetupInv' /\ SetupMovesOn
  <1>1. ASSUME C!ConfigurationNext, UNCHANGED <<setup, knownReady, crashes>> PROVE SetupInv' /\ setup' = setup
    BY <1>1, ConfigurationStep
  <1>2. ASSUME NEW c \in C!Calls, C!FillForConfigure(c) \/ C!WriteConfigure(c) \/ C!InvalidateConfigure(c)
        PROVE  SetupInv' /\ setup' = setup
    <2>1. setup' = setup /\ (C!InvalidateConfigure(c) => knownReady' = knownReady)
      BY <1>2 DEF C!FillForConfigure, C!WriteConfigure, C!InvalidateConfigure
    <2> QED
      BY <1>2, <2>1, Filling, Writing, Invalidating DEF C!InvalidateConfigure
  <1> QED
    BY <1>1, <1>2, SetupStands, Bootstrapping, Marking, WizardReads, Crashing DEF C!SetupNext

LEMMA SetupHoldsEach ==
    ASSUME SetupAssumption, SetupInv
    PROVE  C!SetupTypeOK /\ C!NoLostUpdate /\ C!CopyIsRecent /\ C!ReadyIsConfigured
  <1>1. \A n \in 1 .. C!Current : revisions[n] \in Revision /\ revisions[n].createdAt <= time
    BY DEF SetupInv, C!Current
  <1>2. C!ConfigurationTypeOK
    BY <1>1 DEF SetupInv, C!ConfigurationTypeOK, Revision, CopySound, Called
  <1>3. C!CopyIsRecent
    <2>1. ASSUME NEW p \in Processes, C!Cached(p), cache[p].revision < C!Current
          PROVE  time < revisions[cache[p].revision + 1].createdAt + CacheTtl + CallTime
      <3>1. /\ time < cache[p].expiresAt /\ cache[p].expiresAt \in Nat /\ cache[p].revision \in Nat
            /\ cache[p].expiresAt <= revisions[cache[p].revision + 1].createdAt + CallTime + CacheTtl
        BY <2>1 DEF SetupInv, CopySound, Copied, C!Cached
      <3>2. cache[p].revision + 1 \in 1 .. C!Current
        BY <2>1, <3>1 DEF C!Current, SetupInv
      <3>3. revisions[cache[p].revision + 1].createdAt \in Nat
        BY <1>1, <3>2 DEF Revision
      <3> QED
        BY <3>1, <3>3 DEF SetupAssumption, SetupInv
    <2> QED
      BY <2>1 DEF C!CopyIsRecent
  <1> QED
    BY <1>2, <1>3 DEF SetupInv, C!SetupTypeOK

-----------------------------------------------------------------------------
(* Ingestion *)

Once(p)         == 1
Twice(p, x, n)  == 2 * x
Doubling == INSTANCE Recursion WITH First <- Once, Step <- Twice

LEMMA DelayIsBounded ==
    ASSUME IngestionAssumption, NEW n \in Nat
    PROVE  E!Delay(n) \in 0 .. MaxWait
  <1> DEFINE doubled == Doubling!Upto(0, n)
             T == {i \in 0 .. n : doubled[i] \in Nat}
  <1>1. /\ doubled[0] = 1
        /\ \A i \in 1 .. n : doubled[i] = 2 * doubled[i - 1]
    BY Doubling!UptoUnfolds DEF Once, Twice
  <1>2. E!Delay(n) = IF doubled[n] < MaxWait THEN doubled[n] ELSE MaxWait
    BY DEF E!Delay, Doubling!Upto, Once, Twice
  <1> HIDE DEF doubled
  <1>3. 0 \in T /\ \A i \in 1 .. n : i - 1 \in T => i \in T
    BY <1>1
  <1>4. 0 .. n \subseteq T
    <2> HIDE DEF T
    <2> QED
      BY <1>3, Doubling!InductionUpto
  <1>5. doubled[n] \in Nat
    BY <1>4
  <1> QED
    BY <1>2, <1>5 DEF IngestionAssumption

InStore(v) == E!Stored(v) \/ v \in malformed
Work == [at : {"idle", "fetching", "reading", "writing", "succeeding", "ended"},
         cursor : 0 .. MaxVersion, prior : E!Versions \cup {None}, failures : Nat]

\* What a run has walked past is staged, but for the version it works on; the version it
\* is about to supersede has been published.
WorkSound(r) ==
    /\ work[r].at \in {"reading", "writing"} => work[r].cursor # 0
    /\ work[r].at \in {"fetching", "reading", "writing", "succeeding"} =>
          \A v \in 1 .. work[r].cursor :
             InStore(v) \/ (work[r].at \in {"reading", "writing"} /\ v = work[r].cursor)
    /\ work[r].at = "writing" /\ work[r].prior # None =>
          E!Is(work[r].prior, "PUBLISHED") \/ E!Is(work[r].prior, "SUPERSEDED")

IngestionInv ==
    /\ E!TypeOK
    /\ DOMAIN record = E!Versions
    /\ work \in [Runs -> Work]
    /\ \A r \in Runs : WorkSound(r)
    /\ E!NothingSkipped
    /\ E!Chain

LEMMA IngestionInitial ==
    ASSUME IngestionAssumption, E!Init
    PROVE  IngestionInv
  <1> USE DEF E!Init, IngestionAssumption
  <1>1. E!TypeOK /\ DOMAIN record = E!Versions
    BY DEF E!TypeOK, E!Stored, E!Versions
  <1>2. work \in [Runs -> Work]
    BY DEF Work, E!Idle
  <1>3. \A r \in Runs : WorkSound(r)
    BY DEF WorkSound, E!Idle
  <1>4. E!NothingSkipped /\ E!Chain
    BY DEF E!NothingSkipped, E!Chain, E!Is, E!Stored
  <1> QED
    BY <1>1, <1>2, <1>3, <1>4 DEF IngestionInv


InLineage(v) == E!Is(v, "PUBLISHED") \/ E!Is(v, "SUPERSEDED")
Onwards ==
    /\ feed' = feed
    /\ \A v \in E!Versions : (InStore(v) => InStore(v)') /\ (InLineage(v) => InLineage(v)')

\* Steps that stage nothing, or a version as malformed, take nothing back.
LEMMA StagingStays ==
    ASSUME IngestionInv, record' = record, malformed \subseteq malformed', feed' = feed
    PROVE  Onwards /\ E!Chain'
  <1>1. Onwards
    BY DEF Onwards, InStore, InLineage, E!Stored, E!Is
  <1>2. E!Chain'
    BY DEF E!Stored, E!Is, E!Chain, E!Predecessor, IngestionInv, E!Versions
  <1> QED
    BY <1>1, <1>2

LEMMA NothingUnstaged ==
    ASSUME IngestionAssumption, IngestionInv, Onwards, source'.checkpoint = source.checkpoint
    PROVE  E!NothingSkipped'
  <1>1. source.checkpoint \in 0 .. MaxVersion /\ source'.checkpoint = source.checkpoint
    BY DEF IngestionInv, E!TypeOK
  <1>2. \A v \in 1 .. source.checkpoint : InStore(v)'
    BY <1>1 DEF IngestionInv, E!NothingSkipped, Onwards, InStore, E!Versions, IngestionAssumption
  <1> QED
    BY <1>1, <1>2 DEF E!NothingSkipped, InStore, E!Stored

\* A run that does not move is as sound as it was.
LEMMA StandingRun ==
    ASSUME IngestionAssumption, IngestionInv, Onwards, NEW r \in Runs, work'[r] = work[r]
    PROVE  WorkSound(r)'
  <1>1. work[r] \in Work /\ WorkSound(r) /\ 1 .. work[r].cursor \subseteq E!Versions
    BY DEF IngestionInv, Work, E!Versions, IngestionAssumption
  <1>2. /\ \A v \in 1 .. work[r].cursor : InStore(v) => InStore(v)'
        /\ work[r].prior # None => (InLineage(work[r].prior) => InLineage(work[r].prior)')
    BY <1>1 DEF Onwards, Work
  <1> QED
    BY <1>1, <1>2 DEF WorkSound, InLineage, E!Is

\* A run that goes on to the next page has staged its version.
LEMMA NextPageSound ==
    ASSUME IngestionAssumption, IngestionInv, Onwards, NEW r \in Runs, E!NextPage(r),
           work[r].at \in {"reading", "writing"},
           NEW v \in E!Versions, v = work[r].cursor, InStore(v)'
    PROVE  work' \in [Runs -> Work] /\ \A q \in Runs : WorkSound(q)'
  <1>1. work' = [work EXCEPT ![r].at = "fetching"] /\ work \in [Runs -> Work]
    BY DEF E!NextPage, IngestionInv
  <1>2. /\ \A q \in Runs : q # r => work'[q] = work[q]
        /\ work'[r].at = "fetching" /\ work'[r].cursor = work[r].cursor
        /\ work' \in [Runs -> Work]
    BY <1>1 DEF Work
  <1>3. WorkSound(r)'
    <2>1. work[r] \in Work /\ WorkSound(r) /\ 1 .. work[r].cursor \subseteq E!Versions
      BY DEF IngestionInv, Work, E!Versions, IngestionAssumption
    <2>2. \A u \in 1 .. work[r].cursor : u # v => InStore(u)'
      BY <2>1 DEF WorkSound, Onwards
    <2> QED
      BY <1>2, <2>2 DEF WorkSound
  <1> QED
    BY <1>2, <1>3, StandingRun

\* A step in which one run moves and nothing is staged.
LEMMA RunMoves ==
    ASSUME IngestionAssumption, IngestionInv, Onwards, NEW r \in Runs, NEW w \in Work,
           work' = [work EXCEPT ![r] = w],
           w.at \in {"reading", "writing"} => w.cursor # 0,
           w.at \in {"fetching", "reading", "writing", "succeeding"} =>
              \A v \in 1 .. w.cursor :
                 InStore(v)' \/ (w.at \in {"reading", "writing"} /\ v = w.cursor),
           w.at = "writing" /\ w.prior # None => InLineage(w.prior)'
    PROVE  work' \in [Runs -> Work] /\ \A q \in Runs : WorkSound(q)'
  <1>1. /\ work \in [Runs -> Work] /\ work' \in [Runs -> Work] /\ work'[r] = w
        /\ \A q \in Runs : q # r => work'[q] = work[q]
    BY DEF IngestionInv
  <1>2. WorkSound(r)'
    BY <1>1 DEF WorkSound, InLineage, E!Is
  <1> QED
    BY <1>1, <1>2, StandingRun

LEMMA ProviderStep ==
    ASSUME IngestionAssumption, IngestionInv, E!ProviderPublishes \/ E!TimePasses
    PROVE  IngestionInv'
  <1>1. UNCHANGED <<feed, run, work, record, malformed>> /\ source'.checkpoint = source.checkpoint
    BY DEF E!ProviderPublishes, E!TimePasses, IngestionInv, E!TypeOK
  <1>2. Onwards /\ E!Chain'
    BY <1>1, StagingStays
  <1>3. E!NothingSkipped' /\ \A r \in Runs : WorkSound(r)'
    BY <1>1, <1>2, NothingUnstaged, StandingRun
  <1>4. E!TypeOK'
    <2>1. latest' \in 0 .. MaxVersion /\ source' \in [checkpoint : 0 .. MaxVersion, failures : Nat, wait : 0 .. MaxWait]
      BY DEF E!ProviderPublishes, E!TimePasses, IngestionInv, E!TypeOK, IngestionAssumption
    <2> QED
      BY <1>1, <2>1 DEF IngestionInv, E!TypeOK, E!Stored
  <1> QED
    BY <1>1, <1>2, <1>3, <1>4 DEF IngestionInv

LEMMA StartStep ==
    ASSUME IngestionAssumption, IngestionInv, NEW r \in Runs, E!StartRun(r)
    PROVE  IngestionInv'
  <1> DEFINE w == [E!Idle EXCEPT !.at = "fetching", !.cursor = source.checkpoint,
                                 !.failures = source.failures]
  <1>1. /\ UNCHANGED <<feed, latest, source, record, malformed>>
        /\ run' = [run EXCEPT ![r] = "RUNNING"] /\ work' = [work EXCEPT ![r] = w]
    BY DEF E!StartRun
  <1>2. Onwards /\ E!Chain' /\ E!NothingSkipped'
    BY <1>1, StagingStays, NothingUnstaged
  <1>3. w \in Work /\ w.at = "fetching" /\ w.cursor = source.checkpoint
    BY DEF E!Idle, Work, IngestionInv, E!TypeOK
  <1>4. \A v \in 1 .. source.checkpoint : InStore(v)'
    BY <1>1, <1>2 DEF E!NothingSkipped, InStore, E!Stored
  <1>5. work' \in [Runs -> Work] /\ \A q \in Runs : WorkSound(q)'
    <2> HIDE DEF w
    <2> QED
      BY <1>1, <1>2, <1>3, <1>4, RunMoves
  <1>6. E!TypeOK'
    BY <1>1 DEF IngestionInv, E!TypeOK, E!Stored
  <1> QED
    BY <1>1, <1>2, <1>5, <1>6 DEF IngestionInv

LEMMA FetchStep ==
    ASSUME IngestionAssumption, IngestionInv, NEW r \in Runs, E!FetchPage(r)
    PROVE  IngestionInv'
  <1>1. /\ UNCHANGED <<feed, latest, source, run, record, malformed>> /\ work[r].at = "fetching"
        /\ work' = IF work[r].cursor < latest
                   THEN [work EXCEPT ![r].at = "reading", ![r].cursor = @ + 1]
                   ELSE [work EXCEPT ![r].at = "succeeding"]
    BY DEF E!FetchPage
  <1>2. Onwards /\ E!Chain' /\ E!NothingSkipped'
    BY <1>1, StagingStays, NothingUnstaged
  <1>3. work[r] \in Work /\ WorkSound(r) /\ latest \in 0 .. MaxVersion
    BY DEF IngestionInv, E!TypeOK
  <1>4. \A v \in 1 .. work[r].cursor : InStore(v)'
    BY <1>1, <1>2, <1>3 DEF WorkSound, Onwards, Work, E!Versions, IngestionAssumption
  <1>5. CASE work[r].cursor < latest
    <2> DEFINE w == [work[r] EXCEPT !.at = "reading", !.cursor = @ + 1]
    <2>1. w \in Work /\ w.at = "reading" /\ w.cursor = work[r].cursor + 1 /\ work[r].cursor \in Nat
      <3>1. work[r].cursor \in Nat /\ work[r].cursor + 1 \in 0 .. MaxVersion
        BY <1>3, <1>5 DEF Work, IngestionAssumption
      <3> QED
        BY <1>3, <3>1 DEF Work
    <2>2. work' = [work EXCEPT ![r] = w]
      BY <1>1, <1>5 DEF IngestionInv, Work
    <2>3. w.cursor # 0 /\ \A v \in 1 .. w.cursor : InStore(v)' \/ v = w.cursor
      <3> HIDE DEF w
      <3> QED
        BY <1>4, <2>1
    <2>4. work' \in [Runs -> Work] /\ \A q \in Runs : WorkSound(q)'
      <3> HIDE DEF w
      <3> QED
        BY <1>2, <2>1, <2>2, <2>3, RunMoves
    <2> QED
      BY <1>1, <1>2, <2>4 DEF IngestionInv, E!TypeOK, E!Stored
  <1>6. CASE ~(work[r].cursor < latest)
    <2> DEFINE w == [work[r] EXCEPT !.at = "succeeding"]
    <2>1. w \in Work /\ w.at = "succeeding" /\ w.cursor = work[r].cursor
      BY <1>3 DEF Work
    <2>2. work' = [work EXCEPT ![r] = w]
      BY <1>1, <1>6 DEF IngestionInv, Work
    <2>4. work' \in [Runs -> Work] /\ \A q \in Runs : WorkSound(q)'
      <3> HIDE DEF w
      <3> QED
        BY <1>2, <1>4, <2>1, <2>2, RunMoves
    <2> QED
      BY <1>1, <1>2, <2>4 DEF IngestionInv, E!TypeOK, E!Stored
  <1> QED
    BY <1>5, <1>6

LEMMA ReadStep ==
    ASSUME IngestionAssumption, IngestionInv, NEW r \in Runs, E!ReadRecord(r)
    PROVE  IngestionInv'
  <1> DEFINE v == work[r].cursor
  <1>1. /\ UNCHANGED <<feed, latest, source, run, record, malformed>> /\ work[r].at = "reading"
    BY DEF E!ReadRecord
  <1>2. Onwards /\ E!Chain' /\ E!NothingSkipped'
    BY <1>1, StagingStays, NothingUnstaged
  <1>3. work[r] \in Work /\ WorkSound(r) /\ v \in 0 .. MaxVersion /\ v # 0
    BY <1>1 DEF IngestionInv, Work, WorkSound
  <1>4. v \in E!Versions
    BY <1>3 DEF E!Versions, IngestionAssumption
  <1>5. CASE E!Stored(v)
    <2>1. E!NextPage(r)
      BY <1>5 DEF E!ReadRecord
    <2>2. InStore(v)
      BY <1>5 DEF InStore
    <2>3. \E u \in E!Versions : u = v /\ InStore(u)'
      BY <1>2, <1>4, <2>2 DEF Onwards
    <2>4. work' \in [Runs -> Work] /\ \A q \in Runs : WorkSound(q)'
      BY <1>1, <1>2, <2>1, <2>3, NextPageSound
    <2> QED
      BY <1>1, <1>2, <2>4 DEF IngestionInv, E!TypeOK, E!Stored
  <1>6. CASE ~E!Stored(v)
    <2>1. PICK prior \in IF E!Published = {} THEN {None} ELSE E!Published :
             work' = [work EXCEPT ![r].at = "writing", ![r].prior = prior]
      BY <1>6 DEF E!ReadRecord
    <2>2. prior = None \/ (prior \in E!Versions /\ InLineage(prior))
      BY <2>1 DEF E!Published, InLineage
    <2> DEFINE w == [work[r] EXCEPT !.at = "writing", !.prior = prior]
    <2>3. w \in Work /\ w.at = "writing" /\ w.cursor = v /\ w.prior = prior
      BY <1>3, <2>2 DEF Work
    <2>4. work' = [work EXCEPT ![r] = w]
      BY <2>1 DEF IngestionInv, Work
    <2>5. \A u \in 1 .. v : InStore(u)' \/ u = v
      BY <1>1, <1>2, <1>3 DEF WorkSound, Onwards, E!Versions, IngestionAssumption
    <2>6. prior # None => InLineage(prior)'
      BY <1>2, <2>2 DEF Onwards
    <2>7. work' \in [Runs -> Work] /\ \A q \in Runs : WorkSound(q)'
      <3> HIDE DEF w
      <3> QED
        BY <1>2, <1>3, <2>3, <2>4, <2>5, <2>6, RunMoves
    <2> QED
      BY <1>1, <1>2, <2>7 DEF IngestionInv, E!TypeOK, E!Stored
  <1> QED
    BY <1>5, <1>6

\* The version is staged as malformed, because it is or because storing it failed.
LEMMA SetAsideStep ==
    ASSUME IngestionAssumption, IngestionInv, NEW r \in Runs,
           work[r].at \in {"reading", "writing"},
           malformed' = malformed \cup {work[r].cursor}, E!NextPage(r),
           UNCHANGED <<feed, latest, source, run, record>>
    PROVE  IngestionInv'
  <1> DEFINE v == work[r].cursor
  <1>1. Onwards /\ E!Chain' /\ E!NothingSkipped'
    BY StagingStays, NothingUnstaged
  <1>2. v \in E!Versions
    BY DEF IngestionInv, Work, WorkSound, E!Versions, IngestionAssumption
  <1>3. \E u \in E!Versions : u = v /\ InStore(u)'
    BY <1>2 DEF InStore
  <1>4. work' \in [Runs -> Work] /\ \A q \in Runs : WorkSound(q)'
    BY <1>1, <1>3, NextPageSound
  <1> QED
    BY <1>1, <1>2, <1>4 DEF IngestionInv, E!TypeOK, E!Stored

LEMMA WriteStep ==
    ASSUME IngestionAssumption, IngestionInv, NEW r \in Runs, E!WriteRecord(r),
           ~E!Stored(work[r].cursor)
    PROVE  IngestionInv'
  <1>0. work[r].cursor \in E!Versions /\ work[r].prior \in E!Versions \cup {None}
    BY DEF E!WriteRecord, IngestionInv, Work, WorkSound, E!Versions, IngestionAssumption
  <1>v. PICK v \in E!Versions : v = work[r].cursor
    BY <1>0
  <1>p. PICK prior \in E!Versions \cup {None} : prior = work[r].prior
    BY <1>0
  <1>1. /\ UNCHANGED <<feed, latest, source, run, malformed>> /\ work[r].at = "writing"
        /\ E!NextPage(r) /\ record' = E!Staged(v, prior)
    BY <1>v, <1>p DEF E!WriteRecord
  <1>2. work[r] \in Work /\ WorkSound(r) /\ v \in E!Versions /\ record[v] = None
    BY <1>v DEF IngestionInv, E!Stored
  <1>3. prior # None => prior \in E!Versions /\ InLineage(prior) /\ prior # v
    <2>1. prior # None => prior \in E!Versions /\ InLineage(prior)
      BY <1>1, <1>2, <1>p DEF WorkSound, InLineage
    <2> QED
      BY <1>2, <2>1 DEF InLineage, E!Is, E!Stored
  <1>4. \A u \in E!Versions : E!Stored(u) =>
           record[u] \in [status : E!Statuses, correctionOf : E!Versions \cup {None}]
    BY DEF IngestionInv, E!TypeOK
  <1>5. \A u \in E!Versions : E!Stored(u) => record[u] \in VersionRows
    BY <1>4 DEF VersionRows
  <1>d. DOMAIN record' = E!Versions
    BY <1>1 DEF E!Staged
  <1>6. /\ record'[v] \in VersionRows /\ record'[v].status \in {"PUBLISHED", "QUARANTINED"}
        /\ record'[v].status = "PUBLISHED" =>
              record'[v].correctionOf = prior /\ prior \in {None, E!Predecessor(v)}
        /\ \A u \in E!Versions : u # v =>
              \/ record'[u] = record[u]
              \/ /\ u = prior /\ record'[v].correctionOf = prior
                 /\ record'[u] = [record[u] EXCEPT !.status = "SUPERSEDED"]
    <2>1. record' = E!Staged(v, prior)
      BY <1>1
    <2>2. CASE E!OutOfLineage(v, prior)
      <3>1. record'[v] = [status |-> "QUARANTINED", correctionOf |-> None]
        BY <1>2, <2>1, <2>2 DEF E!Staged
      <3>2. \A u \in E!Versions : u # v => record'[u] = record[u]
        BY <2>1, <2>2 DEF E!Staged
      <3> QED
        BY <3>1, <3>2 DEF VersionRows, E!Statuses
    <2>3. CASE ~E!OutOfLineage(v, prior)
      <3>1. record'[v] = [status |-> "PUBLISHED", correctionOf |-> prior]
        BY <1>2, <2>1, <2>3 DEF E!Staged
      <3>2. \A u \in E!Versions : u # v =>
               record'[u] = IF u = prior THEN [record[u] EXCEPT !.status = "SUPERSEDED"] ELSE record[u]
        BY <2>1, <2>3 DEF E!Staged
      <3>3. prior \in {None, E!Predecessor(v)} /\ prior \in E!Versions \cup {None}
        BY <1>2, <2>3 DEF E!OutOfLineage, Work
      <3> QED
        BY <3>1, <3>2, <3>3 DEF VersionRows, E!Statuses
    <2> QED
      BY <2>2, <2>3
  <1>7. None \notin VersionRows /\ None \notin E!Versions
    BY DEF IngestionAssumption, E!Versions
  \* rows that were there are there, with what they correct; only the prior one changes its status
  <1>8. ASSUME NEW u \in E!Versions, u # v
        PROVE  /\ E!Stored(u)' <=> E!Stored(u)
               /\ E!Stored(u) => record'[u] \in VersionRows /\ record'[u].correctionOf = record[u].correctionOf
               /\ InLineage(u)' <=> InLineage(u)
               /\ E!Is(u, "SUPERSEDED")' => E!Is(u, "SUPERSEDED") \/ record'[v].correctionOf = u
    <2>1. CASE record'[u] = record[u]
      BY <1>5, <2>1 DEF E!Stored, InLineage, E!Is
    <2>2. CASE u = prior /\ record'[v].correctionOf = prior /\ record'[u] = [record[u] EXCEPT !.status = "SUPERSEDED"]
      <3>1. InLineage(u) /\ E!Stored(u) /\ record[u] \in VersionRows
        BY <1>3, <1>5, <1>7, <2>2 DEF InLineage, E!Is
      <3>2. record'[u] \in VersionRows /\ record'[u].correctionOf = record[u].correctionOf
            /\ record'[u].status = "SUPERSEDED"
        BY <2>2, <3>1 DEF VersionRows, E!Statuses
      <3> QED
        BY <1>7, <2>2, <3>1, <3>2 DEF E!Stored, InLineage, E!Is
    <2> QED
      BY <1>6, <1>8, <2>1, <2>2
  <1>9. E!Stored(v)'
    BY <1>6, <1>7 DEF E!Stored
  <1>10. Onwards
    BY <1>1, <1>2, <1>8, <1>9 DEF Onwards, InStore, InLineage, E!Is, E!Stored
  <1>11. E!Chain'
    <2>1. ASSUME NEW u \in E!Versions, InLineage(u)'
          PROVE  record'[u].correctionOf \in {None, E!Predecessor(u)}
      <3>1. CASE u = v
        BY <1>6, <2>1, <3>1 DEF InLineage, E!Is
      <3>2. CASE u # v
        BY <1>8, <2>1, <3>2 DEF IngestionInv, E!Chain, InLineage, E!Is
      <3> QED
        BY <3>1, <3>2
    <2>2. ASSUME NEW u \in E!Versions, E!Is(u, "SUPERSEDED")'
          PROVE  \E w \in E!Versions : E!Stored(w)' /\ record'[w].correctionOf = u
      <3>1. u # v
        BY <1>6, <2>2 DEF E!Is
      <3>2. CASE record'[v].correctionOf = u
        BY <1>2, <1>9, <3>2
      <3>3. CASE E!Is(u, "SUPERSEDED")
        <4>1. PICK w \in E!Versions : E!Stored(w) /\ record[w].correctionOf = u
          BY <3>3 DEF IngestionInv, E!Chain
        <4>2. w # v
          BY <1>2, <4>1 DEF E!Stored
        <4> QED
          BY <1>8, <4>1, <4>2
      <3> QED
        BY <1>8, <2>2, <3>1, <3>2, <3>3
    <2> QED
      BY <1>1, <2>1, <2>2 DEF E!Chain, InLineage, E!Predecessor, E!Is, E!Stored
  <1>12. \E u \in E!Versions : u = work[r].cursor /\ InStore(u)'
    BY <1>9, <1>v DEF InStore
  <1>13. work' \in [Runs -> Work] /\ \A q \in Runs : WorkSound(q)'
    BY <1>1, <1>10, <1>12, NextPageSound
  <1>14. E!NothingSkipped'
    BY <1>1, <1>10, NothingUnstaged
  <1>15. E!TypeOK'
    <2>1. \A u \in E!Versions : E!Stored(u)' => record'[u] \in VersionRows
      BY <1>6, <1>8
    <2> QED
      BY <1>1, <2>1 DEF IngestionInv, E!TypeOK, VersionRows, E!Stored
  <1> QED
    BY <1>d, <1>11, <1>13, <1>14, <1>15 DEF IngestionInv

LEMMA EndStep ==
    ASSUME IngestionAssumption, IngestionInv, NEW r \in Runs,
           E!Succeed(r) \/ E!Fail(r) \/ E!Die(r)
    PROVE  IngestionInv'
  <1>1. UNCHANGED <<feed, latest, record, malformed>> /\ work' = [work EXCEPT ![r].at = "ended"]
    BY DEF E!Succeed, E!Fail, E!Die
  <1>2. Onwards /\ E!Chain'
    BY <1>1, StagingStays
  <1>3. work[r] \in Work /\ WorkSound(r)
    BY DEF IngestionInv
  <1>4. work' \in [Runs -> Work] /\ \A q \in Runs : WorkSound(q)'
    <2> DEFINE w == [work[r] EXCEPT !.at = "ended"]
    <2>1. w \in Work /\ w.at = "ended"
      BY <1>3 DEF Work
    <2>2. work' = [work EXCEPT ![r] = w]
      BY <1>1 DEF IngestionInv, Work
    <2> HIDE DEF w
    <2> QED
      BY <1>2, <2>1, <2>2, RunMoves
  <1>5. /\ run' \in [Runs -> {None, "RUNNING", "SUCCEEDED", "FAILED"}]
        /\ \/ source' = source
           \/ /\ source'.checkpoint \in {source.checkpoint, work[r].cursor}
              /\ source' \in [checkpoint : 0 .. MaxVersion, failures : Nat, wait : 0 .. MaxWait]
              /\ source'.checkpoint # source.checkpoint => work[r].at = "succeeding"
    <2>1. CASE E!Succeed(r)
      BY <1>3, <2>1 DEF E!Succeed, IngestionInv, E!TypeOK, Work, IngestionAssumption
    <2>2. CASE E!Fail(r)
      <3>1. E!Delay(work[r].failures) \in 0 .. MaxWait
        BY <1>3, DelayIsBounded DEF Work
      <3>2. /\ run' = [run EXCEPT ![r] = "FAILED"]
            /\ source' = [checkpoint |-> source.checkpoint, failures |-> source.failures + 1,
                          wait |-> E!Delay(work[r].failures)]
        BY <2>2 DEF E!Fail, E!KeepsCheckpoint
      <3> QED
        BY <3>1, <3>2 DEF IngestionInv, E!TypeOK
    <2>3. CASE E!Die(r)
      BY <2>3 DEF E!Die, IngestionInv, E!TypeOK
    <2> QED
      BY <2>1, <2>2, <2>3
  <1>6. E!TypeOK'
    BY <1>1, <1>5 DEF IngestionInv, E!TypeOK, E!Stored
  <1>7. E!NothingSkipped'
    <2>1. CASE source'.checkpoint = source.checkpoint
      BY <1>2, <2>1, NothingUnstaged
    <2>2. CASE source'.checkpoint # source.checkpoint
      <3>1. work[r].at = "succeeding" /\ source'.checkpoint = work[r].cursor
        BY <1>5, <2>2
      <3>2. \A v \in 1 .. work[r].cursor : InStore(v)'
        BY <1>2, <1>3, <3>1 DEF WorkSound, Onwards, Work, E!Versions, IngestionAssumption
      <3> QED
        BY <3>1, <3>2 DEF E!NothingSkipped, InStore, E!Stored
    <2> QED
      BY <2>1, <2>2
  <1> QED
    BY <1>1, <1>2, <1>4, <1>6, <1>7 DEF IngestionInv

LEMMA IngestionStep ==
    ASSUME IngestionAssumption, IngestionInv, E!Next
    PROVE  IngestionInv'
  <1>1. ASSUME NEW r \in Runs, E!WriteRecord(r) PROVE IngestionInv'
    <2>1. CASE E!Stored(work[r].cursor)
      <3>1. /\ work[r].at \in {"reading", "writing"} /\ E!NextPage(r)
            /\ malformed' = malformed \cup {work[r].cursor}
            /\ UNCHANGED <<feed, latest, source, run, record>>
        BY <1>1, <2>1 DEF E!WriteRecord
      <3> QED
        BY <3>1, SetAsideStep
    <2>2. CASE ~E!Stored(work[r].cursor)
      BY <1>1, <2>2, WriteStep
    <2> QED
      BY <2>1, <2>2
  <1>2. ASSUME NEW r \in Runs, E!QuarantineInvalid(r) \/ E!StoreFails(r) PROVE IngestionInv'
    <2>1. /\ work[r].at \in {"reading", "writing"} /\ E!NextPage(r)
          /\ malformed' = malformed \cup {work[r].cursor}
          /\ UNCHANGED <<feed, latest, source, run, record>>
      BY <1>2 DEF E!QuarantineInvalid, E!StoreFails
    <2> QED
      BY <2>1, SetAsideStep
  <1> QED
    BY <1>1, <1>2, ProviderStep, StartStep, FetchStep, ReadStep, EndStep DEF E!Next

-----------------------------------------------------------------------------
(* Reports: what a history says of its game *)

GameEvents == {"Start", "Complete", "Verify", "Reopen", "Abandon", "Cancel", "Correct"}
GameStatuses ==
    {"READY", "IN_PROGRESS", "COMPLETED", "VERIFIED", "CORRECTED", "ABANDONED", "CANCELLED"}

Unplayed(h)        == "READY"
PlayedOn(h, s, n) == G!After(s, h[n])
Played == INSTANCE Recursion WITH First <- Unplayed, Step <- PlayedOn

LEMMA StatusUnfolds ==
    ASSUME NEW h, Len(h) \in Nat
    PROVE  G!StatusOf(h) = Played!Upto(h, Len(h))[Len(h)]
  BY DEF G!StatusOf, Played!Upto, Unplayed, PlayedOn

LEMMA PlayedAgrees ==
    ASSUME NEW h, NEW k, NEW n \in Nat, NEW l \in Nat, Played!SameSteps(h, n, k, l, n)
    PROVE  Played!Upto(h, n)[n] = Played!Upto(k, l)[n]
  <1>1. \A i \in 0 .. n : Played!Upto(h, n)[i] = Played!Upto(k, l)[i]
    BY Played!UptoAgrees
  <1> QED
    BY <1>1

LEMMA SameCardinality == \A T : G!Cardinality(T) = Cardinality(T)
  BY DEF G!Cardinality, Cardinality, G!IsFiniteSet, IsFiniteSet

\* A game is ready before its first event, and every event moves it on.
LEMMA StatusMoves ==
    /\ G!StatusOf(<<>>) = "READY"
    /\ \A h \in Seq(GameEvents), e \in GameEvents :
          G!StatusOf(Append(h, e)) = G!After(G!StatusOf(h), e)
  <1>1. G!StatusOf(<<>>) = "READY"
    <2>1. Len(<<>>) = 0 /\ Len(<<>>) \in Nat
      OBVIOUS
    <2>2. Played!Upto(<<>>, 0)[0] = Unplayed(<<>>)
      BY Played!UptoUnfolds
    <2> QED
      BY <2>1, <2>2, StatusUnfolds DEF Unplayed
  <1>2. ASSUME NEW h \in Seq(GameEvents), NEW e \in GameEvents
        PROVE  G!StatusOf(Append(h, e)) = G!After(G!StatusOf(h), e)
    <2> DEFINE n == Len(h)
               l == Len(h) + 1
               k == Append(h, e)
    <2>1. /\ n \in Nat /\ l \in Nat /\ n \in 0 .. n /\ l \in 1 .. l /\ l - 1 = n /\ n <= l
          /\ Len(k) = l /\ k[l] = e /\ \A i \in 1 .. n : k[i] = h[i]
      OBVIOUS
    <2> HIDE DEF n, k, l
    <2>2. Played!SameSteps(h, n, k, l, n)
      BY <2>1 DEF Played!SameSteps, Unplayed, PlayedOn
    <2>3. Played!Upto(h, n)[n] = Played!Upto(k, l)[n]
      BY <2>1, <2>2, PlayedAgrees
    <2>4. Played!Upto(k, l)[l] = PlayedOn(k, Played!Upto(k, l)[n], l)
      BY <2>1, Played!UptoUnfolds
    <2>5. G!StatusOf(h) = Played!Upto(h, n)[n] /\ G!StatusOf(k) = Played!Upto(k, l)[l]
      BY <2>1, StatusUnfolds DEF n
    <2> QED
      BY <2>1, <2>3, <2>4, <2>5 DEF PlayedOn, k
  <1> QED
    BY <1>1, <1>2

Corrected(h) == {i \in 1 .. Len(h) : h[i] = "Correct"}

\* Corrections are counted as they are made.
LEMMA CorrectionsCount ==
    /\ G!Corrections(<<>>) = 0
    /\ \A h \in Seq(GameEvents) : G!Corrections(h) \in Nat
    /\ \A h \in Seq(GameEvents), e \in GameEvents :
          e # "Correct" => G!Corrections(Append(h, e)) = G!Corrections(h)
  <1>1. ASSUME NEW h \in Seq(GameEvents) PROVE G!Corrections(h) = Cardinality(Corrected(h))
    <2>1. DOMAIN h = 1 .. Len(h)
      OBVIOUS
    <2>2. {i \in DOMAIN h : h[i] = "Correct"} = Corrected(h)
      BY <2>1 DEF Corrected
    <2> QED
      BY <2>2, SameCardinality DEF G!Corrections
  <1>2. Corrected(<<>>) = {} /\ <<>> \in Seq(GameEvents)
    BY DEF Corrected
  <1>3. ASSUME NEW h \in Seq(GameEvents) PROVE Cardinality(Corrected(h)) \in Nat
    <2>1. IsFiniteSet(1 .. Len(h))
      BY FS_Interval
    <2>2. IsFiniteSet(Corrected(h))
      BY <2>1, FS_Subset DEF Corrected
    <2> QED
      BY <2>2, FS_CardinalityType
  <1>4. ASSUME NEW h \in Seq(GameEvents), NEW e \in GameEvents, e # "Correct"
        PROVE  Corrected(Append(h, e)) = Corrected(h)
    BY <1>4 DEF Corrected
  <1>5. \A h \in Seq(GameEvents), e \in GameEvents : Append(h, e) \in Seq(GameEvents)
    OBVIOUS
  <1> HIDE DEF Corrected
  <1> QED
    BY <1>1, <1>2, <1>3, <1>4, <1>5, FS_EmptySet

SoundHistory(h) ==
    /\ h \in Seq(GameEvents) /\ G!StatusOf(h) \in GameStatuses
    /\ G!Corrections(h) \in Nat
    /\ G!StatusOf(h) \in {"READY", "CANCELLED"} => G!Corrections(h) = 0

\* Accepted events keep a history sound: nothing is corrected before a game starts and
\* nothing is accepted after it was cancelled.
LEMMA HistoriesStaySound ==
    /\ SoundHistory(<<>>)
    /\ \A h, e : SoundHistory(h) /\ e \in GameEvents /\ G!StatusOf(h) \in G!AcceptedIn[e]
                   => SoundHistory(Append(h, e))
  <1>1. SoundHistory(<<>>)
    <2>1. <<>> \in Seq(GameEvents)
      OBVIOUS
    <2> QED
      BY <2>1, StatusMoves, CorrectionsCount DEF SoundHistory, GameStatuses
  <1>2. ASSUME NEW h, NEW e, SoundHistory(h), e \in GameEvents, G!StatusOf(h) \in G!AcceptedIn[e]
        PROVE  SoundHistory(Append(h, e))
    <2>1. h \in Seq(GameEvents) /\ Append(h, e) \in Seq(GameEvents)
      BY <1>2 DEF SoundHistory
    <2>2. /\ G!StatusOf(Append(h, e)) = G!After(G!StatusOf(h), e)
          /\ G!Corrections(Append(h, e)) \in Nat
          /\ e # "Correct" => G!Corrections(Append(h, e)) = G!Corrections(h)
      BY <1>2, <2>1, StatusMoves, CorrectionsCount
    <2>3. /\ G!After(G!StatusOf(h), e) \in GameStatuses
          /\ G!After(G!StatusOf(h), e) # "READY"
          /\ G!After(G!StatusOf(h), e) = "CANCELLED" => e = "Cancel" /\ G!StatusOf(h) = "READY"
      <3> DEFINE s == G!StatusOf(h)
      <3>1. s \in GameStatuses /\ s \in G!AcceptedIn[e]
        BY <1>2 DEF SoundHistory
      <3> HIDE DEF s
      <3>2. /\ G!After(s, e) \in GameStatuses /\ G!After(s, e) # "READY"
            /\ G!After(s, e) = "CANCELLED" => e = "Cancel" /\ s = "READY"
        <4>1. \/ e \in {"Start", "Cancel"} /\ s = "READY"
              \/ e = "Complete" /\ s = "IN_PROGRESS"
              \/ e = "Verify" /\ s \in {"COMPLETED", "CORRECTED"}
              \/ e = "Reopen" /\ s = "VERIFIED"
              \/ e = "Abandon" /\ s \in {"IN_PROGRESS", "COMPLETED", "CORRECTED"}
              \/ e = "Correct" /\ s \in {"IN_PROGRESS", "COMPLETED", "CORRECTED"}
          BY <1>2, <3>1 DEF G!AcceptedIn, GameEvents
        <4>2. CASE e = "Start"
          BY <4>1, <4>2 DEF G!After, GameStatuses
        <4>3. CASE e = "Cancel"
          BY <4>1, <4>3 DEF G!After, GameStatuses
        <4>4. CASE e = "Complete"
          BY <4>1, <4>4 DEF G!After, GameStatuses
        <4>5. CASE e = "Verify"
          BY <4>1, <4>5 DEF G!After, GameStatuses
        <4>6. CASE e = "Reopen"
          BY <4>1, <4>6 DEF G!After, GameStatuses
        <4>7. CASE e = "Abandon"
          BY <4>1, <4>7 DEF G!After, GameStatuses
        <4>8. CASE e = "Correct"
          BY <4>1, <4>8 DEF G!After, GameStatuses
        <4> QED
          BY <4>1, <4>2, <4>3, <4>4, <4>5, <4>6, <4>7, <4>8
      <3> QED
        BY <3>2 DEF s
    <2> QED
      BY <1>2, <2>1, <2>2, <2>3 DEF SoundHistory
  <1> QED
    BY <1>1, <1>2

-----------------------------------------------------------------------------
(* Reports: the order of the reads *)

Catalog == <<"teams", "seasons", "teamSeasons", "players", "rosters", "rulesets", "games",
             "overlays", "events", "corrections", "presentation">>

LEMMA PlanIs ==
    /\ G!Kinds = ReportKinds
    /\ G!Plan["BOX"] = <<"events", "corrections", "presentation", "checkpoint">>
    /\ G!Plan["RECONCILE"] = <<"events", "corrections", "presentation", "checkpoint">>
    /\ G!Plan["SEASON"] = <<"presentation", "events", "corrections">>
    /\ G!Plan["EXPORT"] = Catalog
  <1>1. G!Sections \o <<"overlays", "events", "corrections", "presentation">> = Catalog
    <2> DEFINE A == G!Sections
               B == <<"overlays", "events", "corrections", "presentation">>
               W == SectionNames \cup {"overlays", "events", "corrections", "presentation"}
    <2>1. A \in Seq(W) /\ Len(A) = 7 /\ A[1] = "teams" /\ A[2] = "seasons" /\ A[3] = "teamSeasons" /\ A[4] = "players"
          /\ A[5] = "rosters" /\ A[6] = "rulesets" /\ A[7] = "games"
      BY DEF G!Sections, SectionNames
    <2>2. B \in Seq(W) /\ Len(B) = 4 /\ B[1] = "overlays" /\ B[2] = "events" /\ B[3] = "corrections" /\ B[4] = "presentation"
      OBVIOUS
    <2>3. /\ Catalog \in Seq(W) /\ Len(Catalog) = 11
          /\ \A i \in 1 .. 7 : Catalog[i] = A[i]
          /\ \A i \in 8 .. 11 : Catalog[i] = B[i - 7]
      <3> HIDE DEF A, B
      <3>1. Catalog \in Seq(W) /\ Len(Catalog) = 11
        BY DEF Catalog, SectionNames
      <3>2. \A i \in 1 .. 7 : Catalog[i] = A[i]
        BY <2>1 DEF Catalog
      <3>3. \A i \in 8 .. 11 : Catalog[i] = B[i - 7]
        BY <2>2 DEF Catalog
      <3> QED
        BY <3>1, <3>2, <3>3
    <2> HIDE DEF A, B, W
    <2>4. A \o B = Catalog
      <3> HIDE DEF Catalog
      <3>1. A \in Seq(W) /\ B \in Seq(W)
        BY <2>1, <2>2
      <3>2. /\ A \o B \in Seq(W) /\ Len(A \o B) = Len(A) + Len(B)
            /\ \A i \in 1 .. Len(A) + Len(B) : (A \o B)[i] = IF i <= Len(A) THEN A[i] ELSE B[i - Len(A)]
        BY <3>1, ConcatProperties
      <3>3. \A i \in 1 .. 11 : (A \o B)[i] = Catalog[i]
        <4>1. Len(A) = 7 /\ Len(B) = 4 /\ Len(A) + Len(B) = 11
          BY <2>1, <2>2
        <4>2. \A i \in 1 .. 11 : (A \o B)[i] = IF i <= 7 THEN A[i] ELSE B[i - 7]
          BY <3>2, <4>1
        <4>3. ASSUME NEW i \in 1 .. 11, i <= 7 PROVE (A \o B)[i] = Catalog[i]
          <5>1. i \in 1 .. 7
            BY <4>3
          <5>2. Catalog[i] = A[i]
            BY <2>3, <5>1
          <5>3. (A \o B)[i] = A[i]
            BY <4>2, <4>3
          <5> QED
            BY <5>2, <5>3
        <4>4. ASSUME NEW i \in 1 .. 11, ~(i <= 7) PROVE (A \o B)[i] = Catalog[i]
          <5>1. i \in 8 .. 11
            BY <4>4
          <5> QED
            BY <2>3, <4>2, <4>4, <5>1
        <4> QED
          BY <4>3, <4>4
      <3>4. Len(A \o B) = Len(Catalog) /\ Len(Catalog) = 11
        BY <2>1, <2>2, <2>3, <3>2
      <3> QED
        BY <2>3, <3>2, <3>3, <3>4, SeqEqual
    <2> QED
      BY <2>4 DEF A, B
  <1> QED
    BY <1>1 DEF G!Kinds, G!Plan, ReportKinds

LEMMA PlanHas ==
    /\ \A k \in ReportKinds : {"events", "corrections", "presentation"} \subseteq G!ToSet(G!Plan[k])
    /\ SectionNames \cup {"overlays"} \subseteq G!ToSet(G!Plan["EXPORT"])
    /\ \A k \in ReportKinds : k # "EXPORT" => SectionNames \cap G!ToSet(G!Plan[k]) = {}
    /\ DOMAIN G!Named = SectionNames
    /\ G!ToSet(G!Sections) = SectionNames
  <1>5. \A k \in ReportKinds : k # "EXPORT" => SectionNames \cap G!ToSet(G!Plan[k]) = {}
    BY PlanIs DEF G!ToSet, ReportKinds, SectionNames
  <1>1. \A k \in ReportKinds : {"events", "corrections", "presentation"} \subseteq G!ToSet(G!Plan[k])
    BY PlanIs DEF G!ToSet, ReportKinds, Catalog
  <1>2. SectionNames \cup {"overlays"} \subseteq G!ToSet(G!Plan["EXPORT"])
    BY PlanIs DEF G!ToSet, SectionNames, Catalog
  <1>3. DOMAIN G!Named = SectionNames
    BY DEF G!Named, SectionNames
  <1>4. G!ToSet(G!Sections) = SectionNames
    BY DEF G!ToSet, G!Sections, SectionNames
  <1> QED
    BY <1>1, <1>2, <1>3, <1>4, <1>5

LEMMA PlanOrders ==
    /\ \A k \in ReportKinds : G!Precedes(k, "events", "corrections")
    /\ G!Precedes("SEASON", "presentation", "events")
    /\ G!Precedes("EXPORT", "games", "events")
    /\ G!Precedes("EXPORT", "overlays", "presentation")
    /\ G!Precedes("BOX", "presentation", "checkpoint")
  <1>1. G!Precedes("SEASON", "presentation", "events") /\ G!Precedes("SEASON", "events", "corrections")
    BY PlanIs DEF G!Precedes
  <1>2. G!Precedes("BOX", "events", "corrections") /\ G!Precedes("BOX", "presentation", "checkpoint")
    BY PlanIs DEF G!Precedes
  <1>3. G!Precedes("RECONCILE", "events", "corrections")
    BY DEF G!Precedes
  <1>4. /\ DOMAIN Catalog = 1 .. 11 /\ Catalog[7] = "games" /\ Catalog[8] = "overlays" /\ Catalog[9] = "events"
        /\ Catalog[10] = "corrections" /\ Catalog[11] = "presentation"
    BY DEF Catalog
  <1>5. \A x, y : (\E i, j \in DOMAIN Catalog : i < j /\ Catalog[i] = x /\ Catalog[j] = y)
                     => G!Precedes("EXPORT", x, y)
    BY PlanIs DEF G!Precedes
  <1>6. /\ G!Precedes("EXPORT", "games", "events")
        /\ G!Precedes("EXPORT", "overlays", "presentation")
        /\ G!Precedes("EXPORT", "events", "corrections")
    <2> HIDE DEF Catalog
    <2>1. 7 < 9 /\ 8 < 11 /\ 9 < 10 /\ {7, 8, 9, 10, 11} \subseteq 1 .. 11
      OBVIOUS
    <2> QED
      BY <1>4, <1>5, <2>1
  <1> QED
    BY <1>1, <1>2, <1>3, <1>6 DEF ReportKinds

-----------------------------------------------------------------------------
(* Reports: what has been read *)

PartOf(p, h) == SoundHistory(p) /\ Len(p) <= Len(h) /\ \A i \in 1 .. Len(p) : p[i] = h[i]
Unmoved(r)  == r.attempt \notin r.moved
RowsRead(r) == IF r.kind = "EXPORT" THEN "games" \notin r.left ELSE "presentation" \notin r.left

Shape(r) ==
    r \in [kind : ReportKinds, phase : {"reading", "returned", "stale", "failed"}, attempt : {1, 2},
           left : SUBSET G!ToSet(G!Plan[r.kind]), wanted : {r.wanted}, records : {r.records},
           row : {r.row}, events : {r.events}, names : {r.names}, overlay : {r.overlay},
           checkpoint : {r.checkpoint}, grown : BOOLEAN, moved : SUBSET {1, 2}, corrected : BOOLEAN,
           since : Nat, moments : {r.moments}]
\* The games asked for were ready; an attempt before this one was disturbed.
WantedFit(r, rdy) ==
    /\ r.wanted \subseteq rdy
    /\ rdy # {}
    /\ r.kind \in {"BOX", "RECONCILE"} => \E g : r.wanted = {g}
    /\ r.attempt = 2 => 1 \in r.moved
\* A row is of a history that was once the game's.
RowsFit(r, hist) ==
    RowsRead(r) => \A g \in r.wanted : \E p :
        /\ PartOf(p, hist[g]) /\ r.row[g] = [revision |-> Len(p), status |-> G!StatusOf(p)]
        /\ Unmoved(r) => p = hist[g]
\* So is the history that was read, and all of them are of one moment.
EventsFit(r, hist) ==
    "events" \notin r.left =>
        /\ DOMAIN r.events = r.wanted
        /\ \A g \in r.wanted :
              /\ PartOf(r.events[g], hist[g]) /\ (Unmoved(r) => r.events[g] = hist[g])
              /\ ~r.corrected => G!Corrections(r.events[g]) = G!Corrections(hist[g])
        /\ \E m \in r.moments : \A g \in r.wanted : Len(r.events[g]) = m[g]
        /\ r.kind \in {"SEASON", "EXPORT"} => RowsRead(r)
MomentsFit(r, hist) == G!Revisions(hist) \in r.moments
OverlaysFit(r, ov) ==
    /\ r.since <= ov
    /\ "presentation" \notin r.left => r.overlay \in Nat /\ r.since <= r.overlay /\ r.overlay <= ov
    /\ r.kind = "EXPORT" /\ "overlays" \notin r.left =>
          r.names \in Nat /\ r.since <= r.names /\ r.names <= ov
    /\ r.kind = "EXPORT" /\ "presentation" \notin r.left => "overlays" \notin r.left /\ r.names <= r.overlay
\* Unless records were added, a section that was read is complete.
CatalogFits(r, recs, rdy) ==
    r.kind = "EXPORT" =>
        /\ rdy # {} /\ r.records \subseteq recs
        /\ r.grown \/ \A x \in recs : x[1] \in r.left \/ x \in r.records
        /\ "games" \notin r.left => \E g \in Games : <<"games", g>> \in r.records
CheckpointFits(r) ==
    r.kind = "BOX" /\ r.checkpoint # None =>
        "presentation" \notin r.left /\ \A g \in r.wanted : r.checkpoint.revision = r.row[g].revision
ResultFits(r) ==
    /\ r.phase = "returned" =>
          r.left = {} /\ \A g \in r.wanted : Len(r.events[g]) = r.row[g].revision
    /\ r.phase = "stale" => r.moved = {1, 2}
    /\ r.phase = "failed" => r.corrected

ReadingSound(r, recs, rdy, hist, ov) ==
    /\ Shape(r) /\ WantedFit(r, rdy) /\ RowsFit(r, hist) /\ EventsFit(r, hist)
    /\ MomentsFit(r, hist) /\ OverlaysFit(r, ov) /\ CatalogFits(r, recs, rdy)
    /\ CheckpointFits(r) /\ ResultFits(r)

AccountSound ==
    /\ Whole(records, ready)
    /\ DOMAIN history = Games
    /\ \A g \in Games : SoundHistory(history[g]) /\ Len(history[g]) <= Bounds[reader.kind].events[g]
    /\ overlay \in Nat

ReportInv ==
    /\ reader.kind \in ReportKinds /\ AccountSound
    /\ \/ reader = G!Asked(reader.kind)
       \/ ReadingSound(reader, records, ready, history, overlay)

LEMMA ReportInitial ==
    ASSUME ReportAssumption, G!ReportInit
    PROVE  ReportInv
  <1>1. PICK kind \in ReportKinds :
           reader = G!Asked(kind) /\ ready = Bounds[kind].ready /\ records = Bounds[kind].records
    BY PlanIs DEF G!ReportInit
  <1>2. reader.kind = kind /\ reader = G!Asked(reader.kind)
    BY <1>1 DEF G!Asked
  <1>3. Whole(records, ready)
    BY <1>1 DEF ReportAssumption
  <1>4. /\ DOMAIN history = Games /\ \A g \in Games : history[g] = <<>>
        /\ overlay \in Nat
    BY DEF G!ReportInit
  <1>5. \A g \in Games : SoundHistory(history[g]) /\ Len(history[g]) <= Bounds[reader.kind].events[g]
    <2>1. Len(<<>>) = 0 /\ \A g \in Games : Bounds[kind].events[g] \in Nat
      BY <1>1 DEF ReportAssumption
    <2> QED
      BY <1>2, <1>4, <2>1, HistoriesStaySound
  <1> QED
    BY <1>1, <1>2, <1>3, <1>4, <1>5 DEF ReportInv, AccountSound

-----------------------------------------------------------------------------
(* Reports: what a returned report says *)

\* Two prefixes of a history are the same when they are of the same length.
LEMMA SamePart ==
    ASSUME NEW p, NEW q, NEW h, PartOf(p, h), PartOf(q, h), Len(p) = Len(q)
    PROVE  p = q
  <1>1. p \in Seq(GameEvents) /\ q \in Seq(GameEvents)
    BY DEF PartOf, SoundHistory
  <1>2. \A i \in 1 .. Len(p) : p[i] = q[i]
    BY DEF PartOf
  <1> QED
    BY <1>1, <1>2, SeqEqual

LEMMA PartIsPrefix ==
    ASSUME NEW p, NEW h, h \in Seq(GameEvents), PartOf(p, h)
    PROVE  G!IsPrefix(p, h)
  <1>1. p \in Seq(GameEvents) /\ Len(p) \in Nat /\ Len(p) <= Len(h) /\ \A i \in 1 .. Len(p) : p[i] = h[i]
    BY DEF PartOf, SoundHistory
  <1>2. SubSeq(p, 1, Len(p)) = SubSeq(h, 1, Len(p))
    BY <1>1
  <1> QED
    BY <1>1, <1>2 DEF G!IsPrefix

\* What is known of a report that is returned.
LEMMA ReturnedIs ==
    ASSUME ReportAssumption, ReportInv, reader.phase = "returned"
    PROVE  /\ Shape(reader) /\ reader.left = {} /\ DOMAIN reader.events = reader.wanted /\ reader.wanted \subseteq ready
           /\ \A g \in reader.wanted :
                 /\ g \in Games /\ PartOf(reader.events[g], history[g])
                 /\ reader.row[g] = [revision |-> Len(reader.events[g]), status |-> G!StatusOf(reader.events[g])]
  <1>1. ReadingSound(reader, records, ready, history, overlay)
    BY DEF ReportInv, G!Asked
  <1>2. Shape(reader) /\ reader.left = {} /\ DOMAIN reader.events = reader.wanted /\ reader.wanted \subseteq ready
    BY <1>1 DEF ReadingSound, ResultFits, EventsFit, WantedFit
  <1>3. ASSUME NEW g \in reader.wanted
        PROVE  /\ g \in Games /\ PartOf(reader.events[g], history[g])
               /\ reader.row[g] = [revision |-> Len(reader.events[g]), status |-> G!StatusOf(reader.events[g])]
    <2>1. g \in Games
      BY <1>2 DEF ReportInv, AccountSound, Whole
    <2>2. PartOf(reader.events[g], history[g])
      BY <1>1, <1>2 DEF ReadingSound, EventsFit
    <2>3. RowsRead(reader)
      BY <1>2 DEF RowsRead
    <2>4. PICK p : PartOf(p, history[g]) /\ reader.row[g] = [revision |-> Len(p), status |-> G!StatusOf(p)]
      BY <1>1, <2>3 DEF ReadingSound, RowsFit
    <2>5. Len(reader.events[g]) = reader.row[g].revision
      BY <1>1 DEF ReadingSound, ResultFits
    <2>6. Len(p) = Len(reader.events[g])
      BY <2>4, <2>5
    <2>7. p = reader.events[g]
      BY <2>2, <2>4, <2>6, SamePart
    <2> QED
      BY <2>1, <2>2, <2>4, <2>7
  <1> QED
    BY <1>2, <1>3

LEMMA SummariesAgree ==
    ASSUME ReportAssumption, ReportInv, reader.phase = "returned"
    PROVE  G!SummariesMatch(reader)
  <1>1. \A g \in reader.wanted :
           reader.row[g] = [revision |-> Len(reader.events[g]), status |-> G!StatusOf(reader.events[g])]
    BY ReturnedIs
  <1>2. \A row, h : /\ G!ExportedGame(row, h).status = row.status
                    /\ G!ExportedGame(row, h).revision = row.revision
                    /\ G!ExportedGame(row, h).summary.status = G!StatusOf(h)
                    /\ G!ExportedGame(row, h).summary.revision = Len(h)
    BY DEF G!ExportedGame
  <1>3. ASSUME NEW g \in reader.wanted
        PROVE  /\ reader.row[g].revision = Len(reader.events[g])
               /\ reader.row[g].status = G!StatusOf(reader.events[g])
    <2>1. PICK n, s : n = Len(reader.events[g]) /\ s = G!StatusOf(reader.events[g])
      OBVIOUS
    <2>2. reader.row[g] = [revision |-> n, status |-> s]
      BY <1>1, <2>1
    <2> QED
      BY <2>1, <2>2
  <1> QED
    BY <1>2, <1>3 DEF G!SummariesMatch

LEMMA OneMomentShown ==
    ASSUME ReportAssumption, ReportInv
    PROVE  G!ShowsOneMoment
  <1> SUFFICES ASSUME reader.phase = "returned"
               PROVE  /\ G!SummariesMatch(reader)
                      /\ \E m \in reader.moments : \A g \in reader.wanted :
                            Len(reader.events[g]) = m[g] /\ G!IsPrefix(reader.events[g], history[g])
    BY DEF G!ShowsOneMoment, G!Returned
  <1>1. ReadingSound(reader, records, ready, history, overlay)
    BY DEF ReportInv, G!Asked
  <1>2. PICK m \in reader.moments : \A g \in reader.wanted : Len(reader.events[g]) = m[g]
    BY <1>1, ReturnedIs DEF ReadingSound, EventsFit
  <1>3. ASSUME NEW g \in reader.wanted PROVE G!IsPrefix(reader.events[g], history[g])
    <2>1. g \in Games /\ PartOf(reader.events[g], history[g])
      BY ReturnedIs
    <2>2. history[g] \in Seq(GameEvents)
      BY <2>1 DEF ReportInv, AccountSound, SoundHistory
    <2> QED
      BY <2>1, <2>2, PartIsPrefix
  <1> QED
    BY <1>2, <1>3, SummariesAgree

LEMMA GivenUpForChange ==
    ASSUME ReportInv
    PROVE  G!GivesUpOnlyForChange
  <1>1. reader.phase = "asked" \/ ReadingSound(reader, records, ready, history, overlay)
    BY DEF ReportInv, G!Asked
  <1> QED
    BY <1>1 DEF G!GivesUpOnlyForChange, ReadingSound, ResultFits

LEMMA ErasedNames ==
    ASSUME ReportInv
    PROVE  G!ErasedNamesAreGone
  <1> SUFFICES ASSUME reader.phase = "returned" PROVE G!ErasedNamesAreGone
    BY DEF G!ErasedNamesAreGone, G!Returned
  <1>1. ReadingSound(reader, records, ready, history, overlay)
    BY DEF ReportInv, G!Asked
  <1>2. reader.left = {}
    BY <1>1 DEF ReadingSound, ResultFits
  <1> QED
    BY <1>1, <1>2 DEF ReadingSound, OverlaysFit, G!ErasedNamesAreGone

LEMMA ImportsElsewhere ==
    ASSUME ReportAssumption, ReportInv
    PROVE  G!ExportCanBeImported
  <1> SUFFICES ASSUME reader.phase = "returned", reader.kind = "EXPORT" PROVE G!ExportCanBeImported
    BY DEF G!ExportCanBeImported, G!Returned
  <1>1. ReadingSound(reader, records, ready, history, overlay)
    BY DEF ReportInv, G!Asked
  <1>2. /\ reader.left = {} /\ reader.wanted \subseteq ready /\ reader.records \subseteq records
        /\ reader.grown \/ records \subseteq reader.records
        /\ \E g \in Games : <<"games", g>> \in reader.records
    BY <1>1, ReturnedIs DEF ReadingSound, CatalogFits
  <1>3. G!SummariesMatch(reader)
    BY SummariesAgree
  <1>4. G!ImportVerdict(reader, records) = "EXISTING_RECORD_CONFLICT"
    <2>1. reader.records \cap records # {}
      BY <1>2
    <2> QED
      BY <2>1 DEF G!ImportVerdict
  <1>5. ASSUME ~reader.grown PROVE G!ReferencesHold(reader)
    <2>1. reader.records = records
      BY <1>2, <1>5
    <2>2. \A x \in records : \A s \in G!Named[x[1]] : <<s, x[2]>> \in records
      <3>1. ASSUME NEW x \in records, NEW s \in G!Named[x[1]] PROVE <<s, x[2]>> \in records
        <4>1. PICK t \in SectionNames, g \in Games : x = <<t, g>>
          BY DEF ReportInv, AccountSound, Whole
        <4> QED
          BY <3>1, <4>1 DEF ReportInv, AccountSound, Whole
      <3> QED
        BY <3>1
    <2>3. \A g \in reader.wanted : <<"rulesets", g>> \in records
      BY <1>2 DEF ReportInv, AccountSound, Whole
    <2> QED
      BY <2>1, <2>2, <2>3 DEF G!ReferencesHold
  <1>6. ~reader.grown => G!ImportVerdict(reader, {}) = "DRY_RUN_ONLY"
    BY <1>3, <1>5 DEF G!ImportVerdict
  <1> QED
    BY <1>4, <1>6 DEF G!ExportCanBeImported

\* Box score and export differ only over games corrected before they ended and games
\* reopened but not corrected.
LEMMA ConfidencesDiffer ==
    ASSUME NEW h, SoundHistory(h)
    PROVE  /\ G!PortableConfidence(h) = G!GameConfidence(h)
           /\ G!BoxConfidence(h) # G!PortableConfidence(h) =>
                 \/ G!Corrections(h) > 0 /\ G!StatusOf(h) \in {"COMPLETED", "ABANDONED"}
                 \/ G!Corrections(h) = 0 /\ G!StatusOf(h) = "CORRECTED"
           /\ G!BoxConfidence(h) = "VERIFIED" => G!StatusOf(h) = "VERIFIED" /\ G!ScoreKind(G!ReportState(h)) = "FINAL"
  <1> DEFINE s == G!StatusOf(h)
             n == G!Corrections(h)
  <1>1. s \in GameStatuses /\ n \in Nat /\ (s \in {"READY", "CANCELLED"} => n = 0)
    BY DEF SoundHistory
  <1>2. /\ G!PortableConfidence(h) = (CASE s = "VERIFIED" -> "VERIFIED"
                                       [] s \in {"READY", "IN_PROGRESS"} -> "INCOMPLETE"
                                       [] s = "CORRECTED" -> "CORRECTED"
                                       [] s \in {"COMPLETED", "ABANDONED", "CANCELLED"} -> "CURRENT")
        /\ G!GameConfidence(h) = G!PortableConfidence(h)
    <2>1. s \in GameStatuses
      BY <1>1
    <2> HIDE DEF s
    <2> QED
      BY <2>1 DEF G!PortableConfidence, G!GameConfidence, G!Unfinished, GameStatuses, s
  <1>3. /\ s = "READY" => G!ReportState(h) = "DRAFT"
        /\ s = "CORRECTED" => G!ReportState(h) \in {"AWAITING_REVERIFICATION", "CORRECTED"}
        /\ s \notin {"READY", "CORRECTED"} => G!ReportState(h) = s
    BY DEF G!ReportState
  <1>4. G!BoxConfidence(h) = (CASE s = "VERIFIED" -> "VERIFIED"
                                [] s \in {"READY", "IN_PROGRESS"} -> "INCOMPLETE"
                                [] s \in {"CORRECTED", "COMPLETED", "ABANDONED", "CANCELLED"} ->
                                     IF n > 0 THEN "CORRECTED" ELSE "CURRENT")
    <2>1. s \in GameStatuses
      BY <1>1
    <2>2. DEFINE state == G!ReportState(h)
    <2>3. G!BoxConfidence(h) = (CASE state = "VERIFIED" -> "VERIFIED"
                                  [] state \in {"DRAFT", "IN_PROGRESS", "SUSPENDED"} -> "INCOMPLETE"
                                  [] OTHER -> IF n > 0 THEN "CORRECTED" ELSE "CURRENT")
      BY DEF G!BoxConfidence
    <2> HIDE DEF s, n, state
    <2> QED
      BY <1>3, <2>1, <2>3 DEF GameStatuses, state
  <1>5. s = "VERIFIED" => G!ScoreKind(G!ReportState(h)) = "FINAL"
    BY <1>3 DEF G!ScoreKind
  <1> HIDE DEF s, n
  <1>6. G!BoxConfidence(h) = "VERIFIED" => s = "VERIFIED"
    BY <1>1, <1>4 DEF GameStatuses
  <1>7. G!BoxConfidence(h) # G!PortableConfidence(h) =>
           (n > 0 /\ s \in {"COMPLETED", "ABANDONED"}) \/ (n = 0 /\ s = "CORRECTED")
    BY <1>1, <1>2, <1>4 DEF GameStatuses
  <1> QED
    BY <1>2, <1>5, <1>6, <1>7 DEF s, n

\* A reconciliation calls verified what the box score calls so, with a projection of it.
LEMMA VerifiedWithProjection ==
    ASSUME NEW h, NEW c, NEW o, G!ConfidenceFor(h, G!Findings(h, c, o)) = "VERIFIED"
    PROVE  G!BoxConfidence(h) = "VERIFIED" /\ c # None /\ c.current /\ c.revision = Len(h)
  <1>1. G!ConfidenceFor(h, G!Findings(h, c, o)) =
           (CASE "PROJECTION_STALE" \in G!Findings(h, c, o) -> "STALE"
              [] /\ "PROJECTION_STALE" \notin G!Findings(h, c, o)
                 /\ G!StatusOf(h) \in G!Unfinished \/ "PROJECTION_MISSING" \in G!Findings(h, c, o) -> "INCOMPLETE"
              [] OTHER -> G!BoxConfidence(h))
    BY DEF G!ConfidenceFor
  <1>2. /\ "PROJECTION_STALE" \notin G!Findings(h, c, o) /\ "PROJECTION_MISSING" \notin G!Findings(h, c, o)
        /\ G!BoxConfidence(h) = "VERIFIED"
    BY <1>1
  <1>3. "PROJECTION_STALE" \notin G!ProjectionFinding(h, c, o) /\ "PROJECTION_MISSING" \notin G!ProjectionFinding(h, c, o)
    BY <1>2 DEF G!Findings
  <1> QED
    BY <1>2, <1>3 DEF G!ProjectionFinding

LEMMA ConfidencesAgree ==
    ASSUME ReportAssumption, ReportInv
    PROVE  G!ConfidenceAgrees
  <1> SUFFICES ASSUME reader.phase = "returned", NEW g \in reader.wanted
      PROVE  LET h == reader.events[g]
                 box == G!BoxScoreOf(h, reader.checkpoint)
                 exported == G!ExportedGame(reader.row[g], h).summary
                 reconciled == G!ReconciliationOf(h, reader.checkpoint, reader.overlay)
             IN  /\ exported.confidence = G!DashboardOf(reader.events).games[g].confidence
                 /\ box.confidence # exported.confidence =>
                        \/ box.corrections > 0 /\ exported.status \in {"COMPLETED", "ABANDONED"}
                        \/ box.corrections = 0 /\ exported.status = "CORRECTED"
                 /\ box.confidence = "VERIFIED" => box.score = "FINAL"
                 /\ reader.kind = "RECONCILE" /\ reconciled.confidence = "VERIFIED" =>
                        /\ box.confidence = "VERIFIED"
                        /\ reader.checkpoint # None /\ reader.checkpoint.current
                        /\ reader.checkpoint.revision = Len(h)
    BY DEF G!ConfidenceAgrees, G!Returned
  <1> DEFINE h == reader.events[g]
  <1>1. SoundHistory(h) /\ g \in DOMAIN reader.events
    BY ReturnedIs DEF PartOf
  <1>2. /\ G!BoxScoreOf(h, reader.checkpoint).confidence = G!BoxConfidence(h)
        /\ G!BoxScoreOf(h, reader.checkpoint).corrections = G!Corrections(h)
        /\ G!BoxScoreOf(h, reader.checkpoint).score = G!ScoreKind(G!ReportState(h))
    BY DEF G!BoxScoreOf
  <1>3. /\ G!ExportedGame(reader.row[g], h).summary.confidence = G!PortableConfidence(h)
        /\ G!ExportedGame(reader.row[g], h).summary.status = G!StatusOf(h)
    BY DEF G!ExportedGame
  <1>4. G!ReconciliationOf(h, reader.checkpoint, reader.overlay).confidence
           = G!ConfidenceFor(h, G!Findings(h, reader.checkpoint, reader.overlay))
    BY DEF G!ReconciliationOf
  <1>5. G!DashboardOf(reader.events).games[g].confidence = G!GameConfidence(h)
    <2>1. G!DashboardOf(reader.events).games
             = [k \in DOMAIN reader.events |-> [revision |-> Len(reader.events[k]), confidence |-> G!GameConfidence(reader.events[k])]]
      BY DEF G!DashboardOf
    <2>2. PICK n, s : n = Len(reader.events[g]) /\ s = G!GameConfidence(reader.events[g])
      OBVIOUS
    <2>3. G!DashboardOf(reader.events).games[g] = [revision |-> n, confidence |-> s]
      BY <1>1, <2>1, <2>2
    <2> QED
      BY <2>2, <2>3
  <1> HIDE DEF h
  <1>6. /\ G!PortableConfidence(h) = G!GameConfidence(h)
        /\ G!BoxConfidence(h) # G!PortableConfidence(h) =>
                 \/ G!Corrections(h) > 0 /\ G!StatusOf(h) \in {"COMPLETED", "ABANDONED"}
                 \/ G!Corrections(h) = 0 /\ G!StatusOf(h) = "CORRECTED"
        /\ G!BoxConfidence(h) = "VERIFIED" => G!ScoreKind(G!ReportState(h)) = "FINAL"
    BY <1>1, ConfidencesDiffer
  <1>7. G!ConfidenceFor(h, G!Findings(h, reader.checkpoint, reader.overlay)) = "VERIFIED" =>
           /\ G!BoxConfidence(h) = "VERIFIED" /\ reader.checkpoint # None
           /\ reader.checkpoint.current /\ reader.checkpoint.revision = Len(h)
    BY VerifiedWithProjection
  <1> QED
    BY <1>2, <1>3, <1>4, <1>5, <1>6, <1>7 DEF h

LEMMA GamesCountedOnce ==
    ASSUME ReportAssumption, ReportInv
    PROVE  G!DashboardCountsOnce
  <1> SUFFICES ASSUME reader.phase = "returned" PROVE G!DashboardCountsOnce
    BY DEF G!DashboardCountsOnce, G!Returned
  <1> DEFINE hs == reader.events
             R0 == G!DashboardRecord(hs)
  <1>1. DOMAIN hs = reader.wanted /\ \A g \in DOMAIN hs : G!StatusOf(hs[g]) \in GameStatuses
    BY ReturnedIs DEF PartOf, SoundHistory
  <1>2. G!DashboardOf(hs).record = R0 /\ G!DashboardOf(hs).included = G!IncludedGames(hs)
    BY DEF G!DashboardOf
  <1> HIDE DEF hs
  <1>3. /\ DOMAIN R0 = {"decided", "incomplete", "abandoned", "cancelled", "corrected"}
        /\ R0["decided"]    = {g \in DOMAIN hs : G!StatusOf(hs[g]) \in {"VERIFIED"}}
        /\ R0["incomplete"] = {g \in DOMAIN hs : G!StatusOf(hs[g]) \in G!Unfinished \cup {"COMPLETED"}}
        /\ R0["abandoned"]  = {g \in DOMAIN hs : G!StatusOf(hs[g]) \in {"ABANDONED"}}
        /\ R0["cancelled"]  = {g \in DOMAIN hs : G!StatusOf(hs[g]) \in {"CANCELLED"}}
        /\ R0["corrected"]  = {g \in DOMAIN hs : G!StatusOf(hs[g]) \in {"CORRECTED"}}
        /\ R0.decided = R0["decided"]
    BY DEF G!DashboardRecord
  <1> HIDE DEF R0
  <1>4. R0.decided = G!IncludedGames(hs)
    BY <1>3 DEF G!IncludedGames
  <1>5. UNION {R0[c] : c \in DOMAIN R0} = DOMAIN hs
    <2>1. \A c \in DOMAIN R0 : R0[c] \subseteq DOMAIN hs
      BY <1>3
    <2>2. ASSUME NEW g \in DOMAIN hs PROVE \E c \in DOMAIN R0 : g \in R0[c]
      BY <1>1, <1>3 DEF GameStatuses, G!Unfinished
    <2> QED
      BY <2>1, <2>2
  <1>6. \A c, d \in DOMAIN R0 : c # d => R0[c] \cap R0[d] = {}
    <2> DEFINE Of == [decided |-> {"VERIFIED"}, incomplete |-> G!Unfinished \cup {"COMPLETED"}, abandoned |-> {"ABANDONED"},
                      cancelled |-> {"CANCELLED"}, corrected |-> {"CORRECTED"}]
    <2>1. \A c \in DOMAIN R0 : \A g \in R0[c] : G!StatusOf(hs[g]) \in Of[c]
      BY <1>3
    <2>2. \A c, d \in DOMAIN R0 : c # d => Of[c] \cap Of[d] = {}
      BY <1>3 DEF G!Unfinished
    <2> HIDE DEF Of
    <2> QED
      BY <2>1, <2>2
  <1> QED
    BY <1>1, <1>2, <1>4, <1>5, <1>6 DEF G!DashboardCountsOnce, G!Returned, hs

LEMMA ReportTypes ==
    ASSUME ReportAssumption, ReportInv
    PROVE  G!ReportTypeOK
  <1>1. \A x \in records : \E i \in DOMAIN G!Sections, g \in Games : x = <<G!Sections[i], g>>
    <2>1. ASSUME NEW x \in records PROVE \E i \in DOMAIN G!Sections, g \in Games : x = <<G!Sections[i], g>>
      <3>1. PICK s \in SectionNames, g \in Games : x = <<s, g>>
        BY DEF ReportInv, AccountSound, Whole
      <3>2. PICK i \in DOMAIN G!Sections : s = G!Sections[i]
        BY PlanHas DEF G!ToSet
      <3> QED
        BY <3>1, <3>2
    <2> QED
      BY <2>1
  <1>2. ready \subseteq Games /\ reader.kind \in G!Kinds
    BY PlanIs DEF ReportInv, AccountSound, Whole
  <1>3. ASSUME NEW g \in Games PROVE Len(history[g]) \in 0 .. Bounds[reader.kind].events[g]
    <2>1. Len(history[g]) \in Nat /\ Len(history[g]) <= Bounds[reader.kind].events[g]
      BY DEF ReportInv, AccountSound, SoundHistory
    <2>2. Bounds[reader.kind].events[g] \in Nat
      BY DEF ReportInv, ReportAssumption
    <2> QED
      BY <2>1, <2>2
  <1>4. reader.phase # "asked" => reader.left \subseteq G!ToSet(G!Plan[reader.kind])
    BY DEF ReportInv, ReadingSound, Shape, G!Asked
  <1> QED
    BY <1>1, <1>2, <1>3, <1>4 DEF G!ReportTypeOK

\* Whatever is read and changed, the invariant gives what a returned report promises.
LEMMA ReportHoldsEach ==
    ASSUME ReportAssumption, ReportInv
    PROVE  G!ReportsHold
  BY ReportTypes, OneMomentShown, GivenUpForChange, ErasedNames, ImportsElsewhere, ConfidencesAgree, GamesCountedOnce
     DEF G!ReportsHold

-----------------------------------------------------------------------------
(* Reports: the account changes meanwhile *)

LEMMA PartsGrow ==
    ASSUME NEW h, SoundHistory(h), NEW e \in GameEvents
    PROVE  PartOf(h, h) /\ \A p : PartOf(p, h) => PartOf(p, Append(h, e))
  <1>1. h \in Seq(GameEvents)
    BY DEF SoundHistory
  <1>2. Len(h) \in Nat /\ Len(Append(h, e)) = Len(h) + 1 /\ \A i \in 1 .. Len(h) : Append(h, e)[i] = h[i]
    BY <1>1
  <1>3. ASSUME NEW p, PartOf(p, h) PROVE PartOf(p, Append(h, e))
    <2>1. SoundHistory(p) /\ Len(p) \in Nat /\ Len(p) <= Len(h) /\ \A i \in 1 .. Len(p) : p[i] = h[i]
      BY <1>3 DEF PartOf, SoundHistory
    <2>2. Len(p) <= Len(Append(h, e)) /\ \A i \in 1 .. Len(p) : p[i] = Append(h, e)[i]
      BY <1>2, <2>1
    <2> QED
      BY <2>1, <2>2 DEF PartOf
  <1> QED
    BY <1>2, <1>3 DEF PartOf

\* Records added while a report is read.
LEMMA RecordsGrow ==
    ASSUME NEW r, NEW recs, NEW rdy, NEW hist, NEW ov, ReadingSound(r, recs, rdy, hist, ov), r.phase = "reading",
           NEW recs2, NEW rdy2, recs \subseteq recs2, rdy \subseteq rdy2,
           NEW q, q = [r EXCEPT !.grown = TRUE]
    PROVE  ReadingSound(q, recs2, rdy2, hist, ov)
  <1>1. Shape(r)
    BY DEF ReadingSound
  <1>2. /\ q.kind = r.kind /\ q.phase = r.phase /\ q.attempt = r.attempt /\ q.left = r.left /\ q.wanted = r.wanted
        /\ q.records = r.records /\ q.row = r.row /\ q.events = r.events /\ q.names = r.names
        /\ q.overlay = r.overlay /\ q.checkpoint = r.checkpoint /\ q.moved = r.moved
        /\ q.corrected = r.corrected /\ q.since = r.since /\ q.moments = r.moments /\ q.grown = TRUE
    BY <1>1 DEF Shape
  <1>3. Shape(q)
    BY <1>1, <1>2 DEF Shape
  <1>4. WantedFit(q, rdy2) /\ OverlaysFit(q, ov) /\ CheckpointFits(q) /\ ResultFits(q) /\ MomentsFit(q, hist)
    <2>1. WantedFit(q, rdy2)
      BY <1>2 DEF ReadingSound, WantedFit
    <2>2. OverlaysFit(q, ov)
      BY <1>2 DEF ReadingSound, OverlaysFit
    <2>3. CheckpointFits(q)
      BY <1>2 DEF ReadingSound, CheckpointFits
    <2>4. ResultFits(q)
      BY <1>2 DEF ReadingSound, ResultFits
    <2>5. MomentsFit(q, hist)
      BY <1>2 DEF ReadingSound, MomentsFit
    <2> QED
      BY <2>1, <2>2, <2>3, <2>4, <2>5
  <1>5. CatalogFits(q, recs2, rdy2)
    BY <1>2 DEF ReadingSound, CatalogFits
  <1>6. RowsFit(q, hist) /\ EventsFit(q, hist)
    <2>1. (RowsRead(q) <=> RowsRead(r)) /\ (Unmoved(q) <=> Unmoved(r))
      BY <1>2 DEF RowsRead, Unmoved
    <2>2. RowsFit(q, hist)
      BY <1>2, <2>1 DEF ReadingSound, RowsFit
    <2>3. EventsFit(q, hist)
      BY <1>2, <2>1 DEF ReadingSound, EventsFit
    <2> QED
      BY <2>2, <2>3
  <1> QED
    BY <1>3, <1>4, <1>5, <1>6 DEF ReadingSound

\* Names erased while a report is read.
LEMMA OverlayGrows ==
    ASSUME NEW r, NEW recs, NEW rdy, NEW hist, NEW ov \in Nat, ReadingSound(r, recs, rdy, hist, ov)
    PROVE  ReadingSound(r, recs, rdy, hist, ov + 1)
  <1>1. OverlaysFit(r, ov + 1)
    <2>1. r.since \in Nat
      BY DEF ReadingSound, Shape
    <2> QED
      BY <2>1 DEF ReadingSound, OverlaysFit
  <1> QED
    BY <1>1 DEF ReadingSound

\* An event accepted while a report is read.
LEMMA AcceptedMeanwhile ==
    ASSUME NEW r, NEW recs, NEW rdy, NEW hist, NEW ov, ReadingSound(r, recs, rdy, hist, ov), r.phase = "reading",
           DOMAIN hist = Games, \A g \in Games : SoundHistory(hist[g]), rdy \subseteq Games,
           NEW a \in Games, NEW e \in GameEvents, NEW hist2, hist2 = [hist EXCEPT ![a] = Append(@, e)],
           NEW q, q = [r EXCEPT !.moved = @ \cup {r.attempt}, !.corrected = @ \/ e = "Correct",
                                !.moments = @ \cup {G!Revisions(hist2)}]
    PROVE  ReadingSound(q, recs, rdy, hist2, ov)
  <1>1. Shape(r)
    BY DEF ReadingSound
  <1>2. /\ q.kind = r.kind /\ q.phase = r.phase /\ q.attempt = r.attempt /\ q.left = r.left /\ q.wanted = r.wanted
        /\ q.records = r.records /\ q.row = r.row /\ q.events = r.events /\ q.names = r.names
        /\ q.overlay = r.overlay /\ q.checkpoint = r.checkpoint /\ q.moved = r.moved \cup {r.attempt}
        /\ q.since = r.since /\ q.moments = r.moments \cup {G!Revisions(hist2)} /\ q.grown = r.grown
    BY <1>1 DEF Shape
  <1>3. q.corrected \in BOOLEAN /\ (q.corrected <=> (r.corrected \/ e = "Correct"))
    <2>1. q.corrected = (r.corrected \/ e = "Correct")
      BY <1>1 DEF Shape
    <2>2. (r.corrected \/ e = "Correct") \in BOOLEAN
      OBVIOUS
    <2> QED
      BY Zenon, <2>1, <2>2
  <1>4. Shape(q)
    <2>1. DOMAIN q = DOMAIN r /\ q = [x \in DOMAIN r |-> q[x]]
      OBVIOUS
    <2>2. r.attempt \in {1, 2} /\ r.moved \in SUBSET {1, 2}
      BY <1>1 DEF Shape
    <2> QED
      BY <1>1, <1>2, <1>3, <2>1, <2>2 DEF Shape
  <1>5. /\ WantedFit(q, rdy) /\ OverlaysFit(q, ov) /\ CheckpointFits(q) /\ ResultFits(q)
        /\ CatalogFits(q, recs, rdy) /\ MomentsFit(q, hist2)
    <2>1. WantedFit(q, rdy)
      BY <1>2 DEF ReadingSound, WantedFit
    <2>2. OverlaysFit(q, ov)
      BY <1>2 DEF ReadingSound, OverlaysFit
    <2>3. CheckpointFits(q)
      BY <1>2 DEF ReadingSound, CheckpointFits
    <2>4. ResultFits(q)
      BY <1>2 DEF ReadingSound, ResultFits
    <2>5. CatalogFits(q, recs, rdy)
      BY <1>2 DEF ReadingSound, CatalogFits
    <2>6. MomentsFit(q, hist2)
      BY <1>2 DEF ReadingSound, MomentsFit
    <2> QED
      BY <2>1, <2>2, <2>3, <2>4, <2>5, <2>6
  <1>6. ~Unmoved(q) /\ RowsRead(q) = RowsRead(r)
    BY <1>2 DEF Unmoved, RowsRead
  <1>7. /\ \A g \in r.wanted : \A p : PartOf(p, hist[g]) => PartOf(p, hist2[g])
        /\ \A g \in r.wanted : e # "Correct" => G!Corrections(hist2[g]) = G!Corrections(hist[g])
    <2>1. ASSUME NEW g \in r.wanted
          PROVE  /\ \A p : PartOf(p, hist[g]) => PartOf(p, hist2[g])
                 /\ e # "Correct" => G!Corrections(hist2[g]) = G!Corrections(hist[g])
      <3>1. g \in Games /\ SoundHistory(hist[g])
        BY DEF ReadingSound, WantedFit
      <3>2. CASE g = a
        <4>1. hist2[g] = Append(hist[g], e) /\ hist[g] \in Seq(GameEvents)
          BY <3>1, <3>2 DEF SoundHistory
        <4> QED
          BY <3>1, <4>1, PartsGrow, CorrectionsCount
      <3>3. CASE g # a
        BY <3>1, <3>3
      <3> QED
        BY <3>2, <3>3
    <2> QED
      BY <2>1
  <1>8. RowsFit(q, hist2)
    BY <1>2, <1>6, <1>7, ZenonT(30) DEF ReadingSound, RowsFit
  <1>9. EventsFit(q, hist2)
    BY <1>2, <1>3, <1>6, <1>7 DEF ReadingSound, EventsFit
  <1> QED
    BY <1>4, <1>5, <1>8, <1>9 DEF ReadingSound

LEMMA ReportGoesOn ==
    ASSUME ReportInv, ~G!Ended
    PROVE  \/ reader = G!Asked(reader.kind) /\ ~G!Reading
           \/ ReadingSound(reader, records, ready, history, overlay) /\ reader.phase = "reading" /\ G!Reading
  <1>1. CASE reader = G!Asked(reader.kind)
    <2>1. reader.phase = "asked"
      BY <1>1 DEF G!Asked
    <2> QED
      BY <1>1, <2>1 DEF G!Reading
  <1>2. CASE ReadingSound(reader, records, ready, history, overlay)
    <2>1. reader.phase \in {"reading", "returned", "stale", "failed"}
      BY <1>2 DEF ReadingSound, Shape
    <2> QED
      BY <1>2, <2>1 DEF G!Ended, G!Reading
  <1> QED
    BY <1>1, <1>2 DEF ReportInv

LEMMA RecordsMove ==
    ASSUME ReportInv, NEW g \in Games,
           (\E s \in DOMAIN G!Named : G!CreateRecord(s, g)) \/ G!AcceptSetup(g)
    PROVE  ReportInv'
  <1>1. /\ ~G!Ended /\ UNCHANGED <<history, overlay>>
        /\ reader' = G!Noting([reader EXCEPT !.grown = TRUE])
    BY DEF G!CreateRecord, G!AcceptSetup, G!ChangesFor
  <1>2. Whole(records, ready) /\ DOMAIN G!Named = SectionNames
    BY PlanHas DEF ReportInv, AccountSound
  <1>3. records \subseteq records' /\ ready \subseteq ready' /\ Whole(records', ready')
    <2>1. CASE G!AcceptSetup(g)
      <3>1. /\ records' = records /\ ready' = ready \cup {g}
            /\ <<"games", g>> \in records /\ <<"rulesets", g>> \in records
        BY <2>1 DEF G!AcceptSetup
      <3> QED
        BY <1>2, <3>1 DEF Whole
    <2>2. ASSUME NEW s \in SectionNames, G!CreateRecord(s, g)
          PROVE  records \subseteq records' /\ ready \subseteq ready' /\ Whole(records', ready')
      <3>1. /\ records' = records \cup {<<s, g>>} /\ ready' = ready
            /\ \A t \in G!Named[s] : <<t, g>> \in records
        BY <2>2 DEF G!CreateRecord
      <3>2. /\ records' \subseteq SectionNames \X Games
            /\ \A k \in ready' : <<"games", k>> \in records' /\ <<"rulesets", k>> \in records'
        BY <1>2, <3>1 DEF Whole
      <3>3. ASSUME NEW t \in SectionNames, NEW k \in Games, <<t, k>> \in records', NEW u \in G!Named[t]
            PROVE  <<u, k>> \in records'
        <4>1. CASE <<t, k>> \in records
          BY <1>2, <3>1, <3>3, <4>1 DEF Whole
        <4>2. CASE t = s /\ k = g
          BY <3>1, <3>3, <4>2
        <4> QED
          BY <3>1, <3>3, <4>1, <4>2
      <3> QED
        BY <1>2, <3>1, <3>2, <3>3 DEF Whole
    <2> QED
      BY <1>2, <2>1, <2>2
  <1>4. reader'.kind = reader.kind /\
           \/ reader' = G!Asked(reader'.kind)
           \/ ReadingSound(reader', records', ready', history', overlay')
    <2>1. CASE reader = G!Asked(reader.kind) /\ ~G!Reading
      BY <1>1, <2>1 DEF G!Noting
    <2>2. CASE ReadingSound(reader, records, ready, history, overlay) /\ reader.phase = "reading" /\ G!Reading
      <3>1. reader' = [reader EXCEPT !.grown = TRUE]
        BY <1>1, <2>2 DEF G!Noting
      <3>2. reader'.kind = reader.kind
        BY <2>2, <3>1 DEF ReadingSound, Shape
      <3>3. ReadingSound(reader', records', ready', history, overlay)
        BY <1>3, <2>2, <3>1, RecordsGrow
      <3> QED
        BY <1>1, <3>2, <3>3
    <2> QED
      BY <1>1, <2>1, <2>2, ReportGoesOn
  <1> QED
    BY <1>1, <1>3, <1>4 DEF ReportInv, AccountSound

LEMMA EventsMove ==
    ASSUME ReportAssumption, ReportInv, NEW g \in Games, NEW e \in DOMAIN G!AcceptedIn, G!AcceptEvent(g, e)
    PROVE  ReportInv'
  <1>1. /\ ~G!Ended /\ UNCHANGED <<records, ready, overlay>>
        /\ Len(history[g]) < Bounds[reader.kind].events[g]
        /\ G!StatusOf(history[g]) \in G!AcceptedIn[e]
        /\ history' = [history EXCEPT ![g] = Append(@, e)]
        /\ reader' = G!Noting([reader EXCEPT !.moved = @ \cup {reader.attempt},
                                             !.corrected = @ \/ e = "Correct",
                                             !.moments = @ \cup {G!Revisions(history')}])
    BY DEF G!AcceptEvent
  <1>2. e \in GameEvents
    BY DEF G!AcceptedIn, GameEvents
  <1>3. DOMAIN history = Games /\ \A k \in Games : SoundHistory(history[k]) /\ Len(history[k]) <= Bounds[reader.kind].events[k]
    BY DEF ReportInv, AccountSound
  <1>4. DOMAIN history' = Games /\ \A k \in Games : SoundHistory(history'[k]) /\ Len(history'[k]) <= Bounds[reader.kind].events[k]
    <2>1. DOMAIN history' = Games /\ history'[g] = Append(history[g], e) /\ \A k \in Games : k # g => history'[k] = history[k]
      BY <1>1, <1>3
    <2>2. SoundHistory(history'[g])
      BY <1>1, <1>2, <1>3, <2>1, HistoriesStaySound
    <2>3. Len(history'[g]) <= Bounds[reader.kind].events[g]
      <3>1. history[g] \in Seq(GameEvents) /\ Bounds[reader.kind].events[g] \in Nat
        BY <1>3 DEF SoundHistory, ReportInv, ReportAssumption
      <3> QED
        BY <1>1, <2>1, <3>1
    <2> QED
      BY <1>3, <2>1, <2>2, <2>3
  <1>5. reader'.kind = reader.kind /\
           \/ reader' = G!Asked(reader'.kind)
           \/ ReadingSound(reader', records', ready', history', overlay')
    <2>1. CASE reader = G!Asked(reader.kind) /\ ~G!Reading
      BY <1>1, <2>1 DEF G!Noting
    <2>2. CASE ReadingSound(reader, records, ready, history, overlay) /\ reader.phase = "reading" /\ G!Reading
      <3>1. reader' = [reader EXCEPT !.moved = @ \cup {reader.attempt}, !.corrected = @ \/ e = "Correct",
                                     !.moments = @ \cup {G!Revisions(history')}]
        BY <1>1, <2>2 DEF G!Noting
      <3>2. reader'.kind = reader.kind
        BY <2>2, <3>1 DEF ReadingSound, Shape
      <3>3. ReadingSound(reader', records, ready, history', overlay)
        <4>1. ready \subseteq Games
          BY DEF ReportInv, AccountSound, Whole
        <4>2. \A k \in Games : SoundHistory(history[k])
          BY <1>3
        <4>3. PICK q, hist2 : q = reader' /\ hist2 = history'
          OBVIOUS
        <4>4. hist2 = [history EXCEPT ![g] = Append(@, e)]
          BY <1>1, <4>3
        <4>5. q = [reader EXCEPT !.moved = @ \cup {reader.attempt}, !.corrected = @ \/ e = "Correct",
                                 !.moments = @ \cup {G!Revisions(hist2)}]
          BY <3>1, <4>3
        <4>6. ReadingSound(q, records, ready, hist2, overlay)
          BY <1>2, <1>3, <2>2, <4>1, <4>2, <4>4, <4>5, AcceptedMeanwhile
        <4> QED
          BY <4>3, <4>6
      <3> QED
        BY <1>1, <3>2, <3>3
    <2> QED
      BY <1>1, <2>1, <2>2, ReportGoesOn
  <1> QED
    BY <1>1, <1>4, <1>5 DEF ReportInv, AccountSound

LEMMA ProjectionsMove ==
    ASSUME ReportInv, G!EraseNames \/ \E g \in Games : G!PublishProjection(g)
    PROVE  ReportInv'
  <1>1. CASE \E g \in Games : G!PublishProjection(g)
    <2>1. UNCHANGED <<records, ready, history, overlay, reader>>
      BY <1>1 DEF G!PublishProjection
    <2> QED
      BY <2>1 DEF ReportInv, AccountSound
  <1>2. CASE G!EraseNames
    <2>1. UNCHANGED <<records, ready, history, reader>> /\ overlay' = overlay + 1
      BY <1>2 DEF G!EraseNames
    <2>2. overlay \in Nat /\ overlay' \in Nat
      BY <2>1 DEF ReportInv, AccountSound
    <2>3. ReadingSound(reader, records, ready, history, overlay) => ReadingSound(reader, records, ready, history, overlay')
      BY <2>1, <2>2, OverlayGrows
    <2> QED
      BY <2>1, <2>2, <2>3 DEF ReportInv, AccountSound
  <1> QED
    BY <1>1, <1>2

-----------------------------------------------------------------------------
(* Reports: a report reads *)

MayWant(kind, wanted) ==
    wanted \subseteq ready /\ ready # {} /\ (kind \in {"BOX", "RECONCILE"} => \E g : wanted = {g})
Before(n, r) ==
    /\ n \in {1, 2} /\ (n = 2 => 1 \in r.moved) /\ r.moved \in SUBSET {1, 2}
    /\ r.since \in Nat /\ r.since <= overlay

\* An attempt begins with nothing read.
LEMMA Attempting ==
    ASSUME ReportInv, NEW kind \in ReportKinds, NEW wanted, MayWant(kind, wanted), NEW n, NEW r, Before(n, r),
           NEW q, q = G!Attempt(kind, wanted, n, r)
    PROVE  ReadingSound(q, records, ready, history, overlay) /\ q.kind = kind
  <1> USE DEF MayWant, Before
  <1>1. /\ q.kind = kind /\ q.phase = "reading" /\ q.attempt = n /\ q.left = G!ToSet(G!Plan[kind]) /\ q.wanted = wanted
        /\ q.records = {} /\ q.checkpoint = None /\ q.grown = FALSE /\ q.moved = r.moved
        /\ q.corrected = FALSE /\ q.since = r.since /\ q.moments = {G!Revisions(history)}
    BY DEF G!Attempt
  <1>2. Shape(q)
    <2>1. q = [kind |-> q.kind, phase |-> q.phase, attempt |-> q.attempt, left |-> q.left,
               wanted |-> q.wanted, records |-> q.records, row |-> q.row, events |-> q.events,
               names |-> q.names, overlay |-> q.overlay, checkpoint |-> q.checkpoint, grown |-> q.grown,
               moved |-> q.moved, corrected |-> q.corrected, since |-> q.since, moments |-> q.moments]
      BY DEF G!Attempt
    <2> QED
      BY <1>1, <2>1, ZenonT(30) DEF Shape
  <1>3. /\ {"events", "corrections", "presentation"} \subseteq q.left
        /\ kind = "EXPORT" => SectionNames \cup {"overlays"} \subseteq q.left
    BY <1>1, PlanHas
  <1>4. ~RowsRead(q)
    BY <1>1, <1>3 DEF RowsRead, SectionNames
  <1>5. WantedFit(q, ready) /\ RowsFit(q, history) /\ EventsFit(q, history) /\ MomentsFit(q, history)
    BY <1>1, <1>3, <1>4 DEF WantedFit, RowsFit, EventsFit, MomentsFit
  <1>6. OverlaysFit(q, overlay) /\ CheckpointFits(q) /\ ResultFits(q)
    BY <1>1, <1>3 DEF OverlaysFit, CheckpointFits, ResultFits, SectionNames
  <1>7. CatalogFits(q, records, ready)
    <2>1. \A x \in records : x[1] \in SectionNames
      BY DEF ReportInv, AccountSound, Whole
    <2>2. "games" \in SectionNames
      BY DEF SectionNames
    <2> QED
      BY <1>1, <1>3, <2>1, <2>2 DEF CatalogFits
  <1> QED
    BY <1>1, <1>2, <1>5, <1>6, <1>7 DEF ReadingSound

LEMMA ReportBegins ==
    ASSUME ReportAssumption, ReportInv, G!Begin
    PROVE  ReportInv'
  <1>1. PICK g \in ready :
           reader' = G!Attempt(reader.kind, IF reader.kind \in {"BOX", "RECONCILE"} THEN {g} ELSE {}, 1,
                               [moved |-> {}, since |-> overlay])
    BY DEF G!Begin
  <1>2. UNCHANGED <<records, ready, history, checkpoint, overlay>>
    BY DEF G!Begin
  <1>3. PICK wanted : wanted = IF reader.kind \in {"BOX", "RECONCILE"} THEN {g} ELSE {}
    OBVIOUS
  <1>4. PICK r : r = [moved |-> {}, since |-> overlay]
    OBVIOUS
  <1>5. PICK q, kind : q = reader' /\ kind = reader.kind
    OBVIOUS
  <1>6. q = G!Attempt(kind, wanted, 1, r)
    BY <1>1, <1>3, <1>4, <1>5
  <1>7. Before(1, r)
    BY <1>4 DEF ReportInv, AccountSound, Before
  <1>8. kind \in ReportKinds /\ MayWant(kind, wanted)
    BY <1>3, <1>5 DEF ReportInv, MayWant
  <1>9. ReadingSound(q, records, ready, history, overlay) /\ q.kind = kind
    BY <1>6, <1>7, <1>8, Attempting
  <1> QED
    BY <1>2, <1>5, <1>9 DEF ReportInv, AccountSound

\* What a report that reads looks like, and what a read leaves of it.
LEMMA MayReadIs ==
    ASSUME ReportInv, NEW x, G!MayRead(x)
    PROVE  /\ ReadingSound(reader, records, ready, history, overlay) /\ reader.phase = "reading"
           /\ x \in reader.left /\ \A y \in reader.left : ~G!Precedes(reader.kind, y, x)
  BY DEF ReportInv, G!MayRead, G!Reading, G!Asked

LEMMA ReaderMoves ==
    ASSUME ReportInv, G!ReaderOnly, NEW q, q = reader', q.kind = reader.kind,
           ReadingSound(q, records, ready, history, overlay)
    PROVE  ReportInv'
  BY DEF ReportInv, AccountSound, G!ReaderOnly
LEMMA OverlaysRead ==
    ASSUME ReportAssumption, ReportInv, G!ReadOverlays
    PROVE  ReportInv'
  <1>1. /\ ReadingSound(reader, records, ready, history, overlay) /\ reader.phase = "reading"
        /\ "overlays" \in reader.left /\ \A y \in reader.left : ~G!Precedes(reader.kind, y, "overlays")
    BY MayReadIs DEF G!ReadOverlays
  <1>2. G!ReaderOnly /\ reader' = [[reader EXCEPT !.names = overlay] EXCEPT !.left = @ \ {"overlays"}]
    BY DEF G!ReadOverlays, G!Took
  <1>3. PICK q : q = reader'
    OBVIOUS
  <1>4. q = [[reader EXCEPT !.names = overlay] EXCEPT !.left = @ \ {"overlays"}]
    BY <1>2, <1>3
  <1>5. /\ q.kind = reader.kind /\ q.phase = reader.phase /\ q.attempt = reader.attempt
        /\ q.left = reader.left \ {"overlays"} /\ q.wanted = reader.wanted
        /\ q.records = reader.records /\ q.row = reader.row /\ q.events = reader.events
        /\ q.names = overlay /\ q.overlay = reader.overlay /\ q.checkpoint = reader.checkpoint
        /\ q.grown = reader.grown /\ q.moved = reader.moved /\ q.corrected = reader.corrected
        /\ q.since = reader.since /\ q.moments = reader.moments
    BY <1>1, <1>4 DEF ReadingSound, Shape
  <1>6. Shape(q)
    BY <1>1, <1>4, <1>5 DEF ReadingSound, Shape
  <1>7. (RowsRead(q) <=> RowsRead(reader)) /\ (Unmoved(q) <=> Unmoved(reader))
    BY <1>1, <1>5 DEF RowsRead, Unmoved
  <1>8. WantedFit(q, ready)
    BY <1>1, <1>5 DEF ReadingSound, WantedFit
  <1>9. RowsFit(q, history)
    BY <1>1, <1>5, <1>7 DEF ReadingSound, RowsFit
  <1>10. EventsFit(q, history)
    BY <1>1, <1>5, <1>7 DEF ReadingSound, EventsFit
  <1>11. MomentsFit(q, history)
    BY <1>1, <1>5 DEF ReadingSound, MomentsFit
  <1>12. OverlaysFit(q, overlay)
    BY <1>1, <1>5 DEF ReadingSound, OverlaysFit, ReportInv, AccountSound
  <1>13. CatalogFits(q, records, ready)
    BY <1>1, <1>5 DEF ReadingSound, CatalogFits, ReportInv, AccountSound, Whole, SectionNames
  <1>14. CheckpointFits(q)
    BY <1>1, <1>5 DEF ReadingSound, CheckpointFits
  <1>15. ResultFits(q)
    BY <1>1, <1>5 DEF ReadingSound, ResultFits
  <1>16. ReadingSound(q, records, ready, history, overlay)
    BY <1>6, <1>8, <1>9, <1>10, <1>11, <1>12, <1>13, <1>14, <1>15 DEF ReadingSound
  <1> QED
    BY <1>2, <1>3, <1>5, <1>16, ReaderMoves

LEMMA EventsRead ==
    ASSUME ReportAssumption, ReportInv, G!ReadEvents
    PROVE  ReportInv'
  <1>1. /\ ReadingSound(reader, records, ready, history, overlay) /\ reader.phase = "reading"
        /\ "events" \in reader.left /\ \A y \in reader.left : ~G!Precedes(reader.kind, y, "events")
    BY MayReadIs DEF G!ReadEvents
  <1>2. /\ G!ReaderOnly
        /\ reader' = [[reader EXCEPT !.events = [g \in reader.wanted |-> history[g]]] EXCEPT !.left = @ \ {"events"}]
    BY DEF G!ReadEvents, G!Took
  <1>3. PICK q : q = reader'
    OBVIOUS
  <1>4. q = [[reader EXCEPT !.events = [g \in reader.wanted |-> history[g]]] EXCEPT !.left = @ \ {"events"}]
    BY <1>2, <1>3
  <1>5. /\ q.kind = reader.kind /\ q.phase = reader.phase /\ q.attempt = reader.attempt
        /\ q.left = reader.left \ {"events"} /\ q.wanted = reader.wanted
        /\ q.records = reader.records /\ q.row = reader.row
        /\ q.events = [g \in reader.wanted |-> history[g]] /\ q.names = reader.names
        /\ q.overlay = reader.overlay /\ q.checkpoint = reader.checkpoint /\ q.grown = reader.grown
        /\ q.moved = reader.moved /\ q.corrected = reader.corrected /\ q.since = reader.since
        /\ q.moments = reader.moments
    BY <1>1, <1>4 DEF ReadingSound, Shape
  <1>6. Shape(q)
    BY <1>1, <1>4, <1>5 DEF ReadingSound, Shape
  <1>7. (RowsRead(q) <=> RowsRead(reader)) /\ (Unmoved(q) <=> Unmoved(reader))
    BY <1>1, <1>5 DEF RowsRead, Unmoved
  <1>8. WantedFit(q, ready)
    BY <1>1, <1>5 DEF ReadingSound, WantedFit
  <1>9. RowsFit(q, history)
    BY <1>1, <1>5, <1>7 DEF ReadingSound, RowsFit
  <1>10. EventsFit(q, history)
    <2>1. reader.kind \in {"SEASON", "EXPORT"} => RowsRead(reader)
      BY <1>1, PlanOrders DEF RowsRead
    <2>2. \A g \in reader.wanted : g \in Games /\ SoundHistory(history[g])
      BY <1>1 DEF ReadingSound, WantedFit, ReportInv, AccountSound, Whole
    <2>3. \A g \in reader.wanted : PartOf(history[g], history[g])
      BY <2>2 DEF PartOf, SoundHistory
    <2>4. G!Revisions(history) \in reader.moments /\ \A g \in reader.wanted : Len(history[g]) = G!Revisions(history)[g]
      BY <1>1, <2>2 DEF ReadingSound, MomentsFit, G!Revisions, ReportInv, AccountSound
    <2> QED
      BY <1>5, <1>7, <2>1, <2>3, <2>4 DEF EventsFit
  <1>11. MomentsFit(q, history)
    BY <1>1, <1>5 DEF ReadingSound, MomentsFit
  <1>12. OverlaysFit(q, overlay)
    BY <1>1, <1>5 DEF ReadingSound, OverlaysFit
  <1>13. CatalogFits(q, records, ready)
    BY <1>1, <1>5 DEF ReadingSound, CatalogFits, ReportInv, AccountSound, Whole, SectionNames
  <1>14. CheckpointFits(q)
    BY <1>1, <1>5 DEF ReadingSound, CheckpointFits
  <1>15. ResultFits(q)
    BY <1>1, <1>5 DEF ReadingSound, ResultFits
  <1>16. ReadingSound(q, records, ready, history, overlay)
    BY <1>6, <1>8, <1>9, <1>10, <1>11, <1>12, <1>13, <1>14, <1>15 DEF ReadingSound
  <1> QED
    BY <1>2, <1>3, <1>5, <1>16, ReaderMoves
LEMMA SectionRead ==
    ASSUME ReportAssumption, ReportInv, NEW x, x # "games", G!ReadSection(x)
    PROVE  ReportInv'
  <1>1. /\ ReadingSound(reader, records, ready, history, overlay) /\ reader.phase = "reading"
        /\ x \in reader.left /\ x \in SectionNames /\ reader.kind = "EXPORT" /\ x # "games"
    <2>1. /\ ReadingSound(reader, records, ready, history, overlay) /\ reader.phase = "reading"
          /\ x \in reader.left /\ x \in SectionNames
      BY MayReadIs, PlanHas DEF G!ReadSection
    <2>2. reader.kind = "EXPORT"
      BY <2>1, PlanHas DEF ReadingSound, Shape, ReportInv
    <2> QED
      BY <2>1, <2>2
  <1>2. /\ G!ReaderOnly
        /\ reader' = [[reader EXCEPT !.records = @ \cup {r \in records : r[1] = x},
                                     !.wanted = @, !.row = @] EXCEPT !.left = @ \ {x}]
    BY DEF G!ReadSection, G!Took
  <1>3. PICK q : q = reader'
    OBVIOUS
  <1>4. q = [[reader EXCEPT !.records = @ \cup {r \in records : r[1] = x},
                           !.wanted = @, !.row = @] EXCEPT !.left = @ \ {x}]
    BY <1>2, <1>3
  <1>5. /\ q.kind = reader.kind /\ q.phase = reader.phase /\ q.attempt = reader.attempt
        /\ q.left = reader.left \ {x} /\ q.wanted = reader.wanted
        /\ q.records = reader.records \cup {r \in records : r[1] = x} /\ q.row = reader.row
        /\ q.events = reader.events /\ q.names = reader.names /\ q.overlay = reader.overlay
        /\ q.checkpoint = reader.checkpoint /\ q.grown = reader.grown /\ q.moved = reader.moved
        /\ q.corrected = reader.corrected /\ q.since = reader.since /\ q.moments = reader.moments
    BY <1>1, <1>4 DEF ReadingSound, Shape
  <1>6. Shape(q)
    BY <1>1, <1>4, <1>5 DEF ReadingSound, Shape
  <1>7. (RowsRead(q) <=> RowsRead(reader)) /\ (Unmoved(q) <=> Unmoved(reader))
    BY <1>1, <1>5 DEF RowsRead, Unmoved
  <1>8. WantedFit(q, ready)
    BY <1>1, <1>5 DEF ReadingSound, WantedFit
  <1>9. RowsFit(q, history)
    BY <1>1, <1>5, <1>7 DEF ReadingSound, RowsFit
  <1>10. EventsFit(q, history)
    BY <1>1, <1>5, <1>7 DEF ReadingSound, EventsFit, SectionNames
  <1>11. MomentsFit(q, history)
    BY <1>1, <1>5 DEF ReadingSound, MomentsFit
  <1>12. OverlaysFit(q, overlay)
    BY <1>1, <1>5 DEF ReadingSound, OverlaysFit, SectionNames
  <1>13. CatalogFits(q, records, ready)
    <2>1. q.records \subseteq records /\ reader.records \subseteq q.records
      BY <1>1, <1>5 DEF ReadingSound, CatalogFits
    <2>2. q.grown \/ \A y \in records : y[1] \in q.left \/ y \in q.records
      BY <1>1, <1>5 DEF ReadingSound, CatalogFits
    <2>3. "games" \notin q.left => "games" \notin reader.left
      BY <1>1, <1>5
    <2> QED
      BY <1>1, <1>5, <2>1, <2>2, <2>3 DEF ReadingSound, CatalogFits
  <1>14. CheckpointFits(q)
    BY <1>1, <1>5 DEF ReadingSound, CheckpointFits
  <1>15. ResultFits(q)
    BY <1>1, <1>5 DEF ReadingSound, ResultFits
  <1>16. ReadingSound(q, records, ready, history, overlay)
    BY <1>6, <1>8, <1>9, <1>10, <1>11, <1>12, <1>13, <1>14, <1>15 DEF ReadingSound
  <1> QED
    BY <1>2, <1>3, <1>5, <1>16, ReaderMoves

\* The game rows are of the histories there are now.
LEMMA RowsOfNow ==
    ASSUME ReportInv, NEW gs \in SUBSET ready
    PROVE  \A g \in gs : /\ PartOf(history[g], history[g])
                         /\ G!Rows(gs)[g] = [revision |-> Len(history[g]), status |-> G!StatusOf(history[g])]
  <1>1. ASSUME NEW g \in gs PROVE PartOf(history[g], history[g])
    <2>1. SoundHistory(history[g]) /\ Len(history[g]) \in Nat
      BY DEF ReportInv, AccountSound, Whole, SoundHistory
    <2> QED
      BY <2>1 DEF PartOf
  <1>2. \A g \in gs : G!Rows(gs)[g] = [revision |-> Len(history[g]), status |-> G!StatusOf(history[g])]
    BY DEF G!Rows, G!RowOf
  <1> QED
    BY <1>1, <1>2

LEMMA GamesRead ==
    ASSUME ReportAssumption, ReportInv, G!ReadSection("games")
    PROVE  ReportInv'
  <1>1. /\ ReadingSound(reader, records, ready, history, overlay) /\ reader.phase = "reading"
        /\ "games" \in reader.left /\ reader.kind = "EXPORT" /\ "events" \in reader.left
    <2>1. /\ ReadingSound(reader, records, ready, history, overlay) /\ reader.phase = "reading"
          /\ "games" \in reader.left /\ "games" \in SectionNames
      BY MayReadIs DEF G!ReadSection, SectionNames
    <2>2. reader.kind = "EXPORT"
      BY <2>1, PlanHas DEF ReadingSound, Shape, ReportInv
    <2>3. "events" \in reader.left
      BY <2>1, <2>2 DEF ReadingSound, EventsFit, RowsRead
    <2> QED
      BY <2>1, <2>2, <2>3
  <1>2. /\ G!ReaderOnly
        /\ reader' = [[reader EXCEPT !.records = @ \cup {r \in records : r[1] = "games"},
                                     !.wanted = ready, !.row = G!Rows(ready)] EXCEPT !.left = @ \ {"games"}]
    BY DEF G!ReadSection, G!Took
  <1>3. PICK q : q = reader'
    OBVIOUS
  <1>4. q = [[reader EXCEPT !.records = @ \cup {r \in records : r[1] = "games"},
                           !.wanted = ready, !.row = G!Rows(ready)] EXCEPT !.left = @ \ {"games"}]
    BY <1>2, <1>3
  <1>5. /\ q.kind = reader.kind /\ q.phase = reader.phase /\ q.attempt = reader.attempt
        /\ q.left = reader.left \ {"games"} /\ q.wanted = ready
        /\ q.records = reader.records \cup {r \in records : r[1] = "games"} /\ q.row = G!Rows(ready)
        /\ q.events = reader.events /\ q.names = reader.names /\ q.overlay = reader.overlay
        /\ q.checkpoint = reader.checkpoint /\ q.grown = reader.grown /\ q.moved = reader.moved
        /\ q.corrected = reader.corrected /\ q.since = reader.since /\ q.moments = reader.moments
    BY <1>1, <1>4 DEF ReadingSound, Shape
  <1>6. Shape(q)
    BY <1>1, <1>4, <1>5 DEF ReadingSound, Shape
  <1>7. (RowsRead(reader) => RowsRead(q)) /\ (Unmoved(q) <=> Unmoved(reader))
    BY <1>1, <1>5 DEF RowsRead, Unmoved
  <1>8. WantedFit(q, ready)
    BY <1>1, <1>5 DEF ReadingSound, WantedFit
  <1>9. RowsFit(q, history)
    <2>1. \A g \in ready : /\ PartOf(history[g], history[g])
                           /\ G!Rows(ready)[g] = [revision |-> Len(history[g]), status |-> G!StatusOf(history[g])]
      BY RowsOfNow
    <2> QED
      BY <1>5, <2>1 DEF RowsFit
  <1>10. EventsFit(q, history)
    BY <1>1, <1>5, <1>7 DEF ReadingSound, EventsFit
  <1>11. MomentsFit(q, history)
    BY <1>1, <1>5 DEF ReadingSound, MomentsFit
  <1>12. OverlaysFit(q, overlay)
    BY <1>1, <1>5 DEF ReadingSound, OverlaysFit
  <1>13. CatalogFits(q, records, ready)
    <2>1. q.records \subseteq records /\ ready # {}
      BY <1>1, <1>5 DEF ReadingSound, CatalogFits
    <2>2. q.grown \/ \A y \in records : y[1] \in q.left \/ y \in q.records
      BY <1>1, <1>5 DEF ReadingSound, CatalogFits
    <2>3. PICK g \in Games : <<"games", g>> \in records
      BY <2>1 DEF ReportInv, AccountSound, Whole
    <2>4. <<"games", g>> \in q.records
      BY <1>5, <2>3
    <2> QED
      BY <2>1, <2>2, <2>4 DEF CatalogFits
  <1>14. CheckpointFits(q)
    BY <1>1, <1>5 DEF ReadingSound, CheckpointFits
  <1>15. ResultFits(q)
    BY <1>1, <1>5 DEF ReadingSound, ResultFits
  <1>16. ReadingSound(q, records, ready, history, overlay)
    BY <1>6, <1>8, <1>9, <1>10, <1>11, <1>12, <1>13, <1>14, <1>15 DEF ReadingSound
  <1> QED
    BY <1>2, <1>3, <1>5, <1>16, ReaderMoves

LEMMA PresentationRead ==
    ASSUME ReportAssumption, ReportInv, G!ReadPresentation
    PROVE  ReportInv'
  <1>1. /\ ReadingSound(reader, records, ready, history, overlay) /\ reader.phase = "reading"
        /\ "presentation" \in reader.left /\ \A y \in reader.left : ~G!Precedes(reader.kind, y, "presentation")
    BY MayReadIs DEF G!ReadPresentation
  <1>2. /\ G!ReaderOnly /\ reader.kind # "SEASON"
        /\ reader' = [[reader EXCEPT !.row = IF reader.kind = "EXPORT" THEN @ ELSE G!Rows(reader.wanted),
                                     !.overlay = overlay] EXCEPT !.left = @ \ {"presentation"}]
    BY DEF G!ReadPresentation, G!Took
  <1>3. PICK q : q = reader'
    OBVIOUS
  <1>4. q = [[reader EXCEPT !.row = IF reader.kind = "EXPORT" THEN @ ELSE G!Rows(reader.wanted),
                           !.overlay = overlay] EXCEPT !.left = @ \ {"presentation"}]
    BY <1>2, <1>3
  <1>5. /\ q.kind = reader.kind /\ q.phase = reader.phase /\ q.attempt = reader.attempt
        /\ q.left = reader.left \ {"presentation"} /\ q.wanted = reader.wanted
        /\ q.records = reader.records
        /\ q.row = (IF reader.kind = "EXPORT" THEN reader.row ELSE G!Rows(reader.wanted))
        /\ q.events = reader.events /\ q.names = reader.names /\ q.overlay = overlay
        /\ q.checkpoint = reader.checkpoint /\ q.grown = reader.grown /\ q.moved = reader.moved
        /\ q.corrected = reader.corrected /\ q.since = reader.since /\ q.moments = reader.moments
    BY <1>1, <1>4 DEF ReadingSound, Shape
  <1>6. Shape(q)
    BY <1>1, <1>4, <1>5, ZenonT(30) DEF ReadingSound, Shape
  <1>7. (RowsRead(reader) => RowsRead(q)) /\ (Unmoved(q) <=> Unmoved(reader))
    BY <1>1, <1>5 DEF RowsRead, Unmoved
  <1>8. WantedFit(q, ready)
    BY <1>1, <1>5 DEF ReadingSound, WantedFit
  <1>9. RowsFit(q, history)
    <2>1. CASE reader.kind = "EXPORT"
      BY <1>1, <1>5, <1>7, <2>1 DEF ReadingSound, RowsFit, RowsRead
    <2>2. CASE reader.kind # "EXPORT"
      <3>1. PICK gs \in SUBSET ready : gs = reader.wanted
        BY <1>1 DEF ReadingSound, WantedFit
      <3>2. q.row = G!Rows(gs) /\ q.wanted = gs
        BY <1>5, <2>2, <3>1
      <3> QED
        BY <3>2, RowsOfNow DEF RowsFit
    <2> QED
      BY <2>1, <2>2
  <1>10. EventsFit(q, history)
    BY <1>1, <1>2, <1>5, <1>7 DEF ReadingSound, EventsFit
  <1>11. MomentsFit(q, history)
    BY <1>1, <1>5 DEF ReadingSound, MomentsFit
  <1>12. OverlaysFit(q, overlay)
    <2>1. overlay \in Nat /\ reader.since <= overlay
      BY <1>1 DEF ReadingSound, OverlaysFit, ReportInv, AccountSound
    <2>2. reader.kind = "EXPORT" => "overlays" \notin reader.left
      BY <1>1, PlanOrders
    <2> QED
      BY <1>1, <1>5, <2>1, <2>2 DEF ReadingSound, OverlaysFit
  <1>13. CatalogFits(q, records, ready)
    BY <1>1, <1>5 DEF ReadingSound, CatalogFits, ReportInv, AccountSound, Whole, SectionNames
  <1>14. CheckpointFits(q)
    BY <1>1, <1>5 DEF ReadingSound, CheckpointFits
  <1>15. ResultFits(q)
    BY <1>1, <1>5 DEF ReadingSound, ResultFits
  <1>16. ReadingSound(q, records, ready, history, overlay)
    BY <1>6, <1>8, <1>9, <1>10, <1>11, <1>12, <1>13, <1>14, <1>15 DEF ReadingSound
  <1> QED
    BY <1>2, <1>3, <1>5, <1>16, ReaderMoves

LEMMA GameSourcesRead ==
    ASSUME ReportAssumption, ReportInv, G!ReadGameSources
    PROVE  ReportInv'
  <1>1. /\ ReadingSound(reader, records, ready, history, overlay) /\ reader.phase = "reading"
        /\ "presentation" \in reader.left /\ \A y \in reader.left : ~G!Precedes(reader.kind, y, "presentation")
    BY MayReadIs DEF G!ReadGameSources
  <1>2. /\ G!ReaderOnly /\ reader.kind = "SEASON"
        /\ reader' = [[reader EXCEPT !.wanted = ready, !.row = G!Rows(ready), !.overlay = overlay]
                         EXCEPT !.left = @ \ {"presentation"}]
    BY DEF G!ReadGameSources, G!Took
  <1>3. PICK q : q = reader'
    OBVIOUS
  <1>4. q = [[reader EXCEPT !.wanted = ready, !.row = G!Rows(ready), !.overlay = overlay]
               EXCEPT !.left = @ \ {"presentation"}]
    BY <1>2, <1>3
  <1>5. /\ q.kind = reader.kind /\ q.phase = reader.phase /\ q.attempt = reader.attempt
        /\ q.left = reader.left \ {"presentation"} /\ q.wanted = ready /\ q.records = reader.records
        /\ q.row = G!Rows(ready) /\ q.events = reader.events /\ q.names = reader.names
        /\ q.overlay = overlay /\ q.checkpoint = reader.checkpoint /\ q.grown = reader.grown
        /\ q.moved = reader.moved /\ q.corrected = reader.corrected /\ q.since = reader.since
        /\ q.moments = reader.moments
    BY <1>1, <1>4 DEF ReadingSound, Shape
  <1>6. Shape(q)
    BY <1>1, <1>4, <1>5 DEF ReadingSound, Shape
  <1>7. (RowsRead(reader) => RowsRead(q)) /\ (Unmoved(q) <=> Unmoved(reader))
    BY <1>1, <1>5 DEF RowsRead, Unmoved
  <1>8. WantedFit(q, ready)
    BY <1>1, <1>2, <1>5 DEF ReadingSound, WantedFit
  <1>9. RowsFit(q, history)
    <2>1. \A g \in ready : /\ PartOf(history[g], history[g])
                           /\ G!Rows(ready)[g] = [revision |-> Len(history[g]), status |-> G!StatusOf(history[g])]
      BY RowsOfNow
    <2> QED
      BY <1>5, <2>1 DEF RowsFit
  <1>10. EventsFit(q, history)
    <2>1. "events" \in reader.left
      BY <1>1, <1>2 DEF ReadingSound, EventsFit, RowsRead
    <2> QED
      BY <1>5, <2>1 DEF EventsFit
  <1>11. MomentsFit(q, history)
    BY <1>1, <1>5 DEF ReadingSound, MomentsFit
  <1>12. OverlaysFit(q, overlay)
    BY <1>1, <1>2, <1>5 DEF ReadingSound, OverlaysFit, ReportInv, AccountSound
  <1>13. CatalogFits(q, records, ready)
    BY <1>2, <1>5 DEF CatalogFits
  <1>14. CheckpointFits(q)
    BY <1>2, <1>5 DEF CheckpointFits
  <1>15. ResultFits(q)
    BY <1>1, <1>5 DEF ReadingSound, ResultFits
  <1>16. ReadingSound(q, records, ready, history, overlay)
    BY <1>6, <1>8, <1>9, <1>10, <1>11, <1>12, <1>13, <1>14, <1>15 DEF ReadingSound
  <1> QED
    BY <1>2, <1>3, <1>5, <1>16, ReaderMoves

\* What a reader has read of records, rows, events and overlays stays; the checks of
\* corrections and of the checkpoint read nothing that the invariant is about.
SameReading(q, r) ==
    /\ q.kind = r.kind /\ q.attempt = r.attempt /\ q.wanted = r.wanted /\ q.records = r.records
    /\ q.row = r.row /\ q.events = r.events /\ q.names = r.names /\ q.overlay = r.overlay
    /\ q.grown = r.grown /\ q.moved = r.moved /\ q.corrected = r.corrected
    /\ q.since = r.since /\ q.moments = r.moments
    /\ q.left \subseteq r.left /\ r.left \ q.left \subseteq {"corrections", "checkpoint"}

LEMMA ReadingGoesOn ==
    ASSUME ReportAssumption, ReportInv, G!ReaderOnly,
           ReadingSound(reader, records, ready, history, overlay),
           NEW q, q = reader', SameReading(q, reader),
           Shape(q), CheckpointFits(q), ResultFits(q)
    PROVE  ReportInv'
  <1> USE DEF SameReading
  <1>1. (RowsRead(q) <=> RowsRead(reader)) /\ (Unmoved(q) <=> Unmoved(reader))
    BY DEF RowsRead, Unmoved
  <1>2. WantedFit(q, ready)
    BY DEF ReadingSound, WantedFit
  <1>3. RowsFit(q, history)
    BY <1>1 DEF ReadingSound, RowsFit
  <1>4. EventsFit(q, history)
    BY <1>1 DEF ReadingSound, EventsFit
  <1>5. MomentsFit(q, history)
    BY DEF ReadingSound, MomentsFit
  <1>6. OverlaysFit(q, overlay)
    BY DEF ReadingSound, OverlaysFit
  <1>7. CatalogFits(q, records, ready)
    <2>1. \A x \in records : x[1] \in SectionNames
      BY DEF ReportInv, AccountSound, Whole
    <2>2. "corrections" \notin SectionNames /\ "checkpoint" \notin SectionNames
      BY DEF SectionNames
    <2> QED
      BY <2>1, <2>2 DEF ReadingSound, CatalogFits
  <1> QED
    BY <1>2, <1>3, <1>4, <1>5, <1>6, <1>7, ReaderMoves DEF ReadingSound

LEMMA CorrectionsRead ==
    ASSUME ReportAssumption, ReportInv, G!ReadCorrections, G!CorrectionRelationshipsHold
    PROVE  ReportInv'
  <1>1. /\ ReadingSound(reader, records, ready, history, overlay) /\ reader.phase = "reading"
        /\ "corrections" \in reader.left /\ \A y \in reader.left : ~G!Precedes(reader.kind, y, "corrections")
    BY MayReadIs DEF G!ReadCorrections
  <1>2. G!ReaderOnly /\ reader' = [reader EXCEPT !.left = @ \ {"corrections"}]
    BY DEF G!ReadCorrections, G!Took
  <1>3. PICK q : q = reader'
    OBVIOUS
  <1>4. q = [reader EXCEPT !.left = @ \ {"corrections"}]
    BY <1>2, <1>3
  <1>5. /\ SameReading(q, reader) /\ q.phase = reader.phase
        /\ q.left = reader.left \ {"corrections"} /\ q.checkpoint = reader.checkpoint
    BY <1>1, <1>4 DEF ReadingSound, Shape, SameReading
  <1>6. Shape(q)
    BY <1>1, <1>4 DEF ReadingSound, Shape
  <1>7. CheckpointFits(q)
    BY <1>1, <1>5 DEF ReadingSound, CheckpointFits, SameReading
  <1>8. ResultFits(q)
    BY <1>1, <1>5 DEF ReadingSound, ResultFits, SameReading
  <1> QED
    BY <1>1, <1>2, <1>3, <1>5, <1>6, <1>7, <1>8, ReadingGoesOn

\* A correction without its event, or an event without its rows, was accepted meanwhile.
LEMMA CorrectionsRefused ==
    ASSUME ReportAssumption, ReportInv, G!ReadCorrections, ~G!CorrectionRelationshipsHold
    PROVE  ReportInv'
  <1>1. /\ ReadingSound(reader, records, ready, history, overlay) /\ reader.phase = "reading"
        /\ "corrections" \in reader.left /\ \A y \in reader.left : ~G!Precedes(reader.kind, y, "corrections")
    BY MayReadIs DEF G!ReadCorrections
  <1>2. G!ReaderOnly /\ reader' = [reader EXCEPT !.phase = "failed"]
    BY DEF G!ReadCorrections
  <1>3. PICK q : q = reader'
    OBVIOUS
  <1>4. q = [reader EXCEPT !.phase = "failed"]
    BY <1>2, <1>3
  <1>5. /\ SameReading(q, reader) /\ q.phase = "failed"
        /\ q.left = reader.left /\ q.checkpoint = reader.checkpoint
    BY <1>1, <1>4 DEF ReadingSound, Shape, SameReading
  <1>6. Shape(q)
    BY <1>1, <1>4 DEF ReadingSound, Shape
  <1>7. CheckpointFits(q)
    BY <1>1, <1>5 DEF ReadingSound, CheckpointFits, SameReading
  <1>8. ResultFits(q)
    <2>1. "events" \notin reader.left
      BY <1>1, PlanOrders DEF ReportInv
    <2>2. PICK g \in reader.wanted : G!Corrections(reader.events[g]) # G!Corrections(history[g])
      BY DEF G!CorrectionRelationshipsHold
    <2>3. reader.corrected
      BY <1>1, <2>1, <2>2 DEF ReadingSound, EventsFit
    <2> QED
      BY <1>5, <2>3 DEF ResultFits, SameReading
  <1> QED
    BY <1>1, <1>2, <1>3, <1>5, <1>6, <1>7, <1>8, ReadingGoesOn

LEMMA CheckpointRead ==
    ASSUME ReportAssumption, ReportInv, G!ReadCheckpoint, NEW c, c = reader'.checkpoint
    PROVE  ReportInv'
  <1>1. /\ ReadingSound(reader, records, ready, history, overlay) /\ reader.phase = "reading"
        /\ "checkpoint" \in reader.left /\ \A y \in reader.left : ~G!Precedes(reader.kind, y, "checkpoint")
    BY MayReadIs DEF G!ReadCheckpoint
  <1>2. /\ G!ReaderOnly /\ reader.kind = "BOX"
        /\ reader' = [[reader EXCEPT !.checkpoint = c] EXCEPT !.left = @ \ {"checkpoint"}]
        /\ c = None \/ \E g \in reader.wanted : c.revision = reader.row[g].revision
    <2>1. G!ReaderOnly /\ reader.kind = "BOX"
      BY DEF G!ReadCheckpoint
    <2>2. PICK b : \E g \in reader.wanted :
             /\ reader' = [[reader EXCEPT !.checkpoint = b] EXCEPT !.left = @ \ {"checkpoint"}]
             /\ b = None \/ b.revision = reader.row[g].revision
      BY DEF G!ReadCheckpoint, G!Took
    <2>3. reader'.checkpoint = b
      BY <1>1, <2>2 DEF ReadingSound, Shape
    <2> QED
      BY <2>1, <2>2, <2>3
  <1>3. PICK q : q = reader'
    OBVIOUS
  <1>4. q = [[reader EXCEPT !.checkpoint = c] EXCEPT !.left = @ \ {"checkpoint"}]
    BY <1>2, <1>3
  <1>5. /\ SameReading(q, reader) /\ q.phase = reader.phase
        /\ q.left = reader.left \ {"checkpoint"} /\ q.checkpoint = c
    BY <1>1, <1>4 DEF ReadingSound, Shape, SameReading
  <1>6. Shape(q)
    BY <1>1, <1>4 DEF ReadingSound, Shape
  <1>7. CheckpointFits(q)
    <2>1. "presentation" \notin reader.left
      BY <1>1, <1>2, PlanOrders
    <2>2. PICK g : reader.wanted = {g}
      BY <1>1, <1>2 DEF ReadingSound, WantedFit
    <2> QED
      BY <1>2, <1>5, <2>1, <2>2 DEF CheckpointFits, SameReading
  <1>8. ResultFits(q)
    BY <1>1, <1>5 DEF ReadingSound, ResultFits, SameReading
  <1> QED
    BY <1>1, <1>2, <1>3, <1>5, <1>6, <1>7, <1>8, ReadingGoesOn

LEMMA LatestProjectionRead ==
    ASSUME ReportAssumption, ReportInv, G!ReadLatestProjection, NEW c, c = reader'.checkpoint
    PROVE  ReportInv'
  <1>1. /\ ReadingSound(reader, records, ready, history, overlay) /\ reader.phase = "reading"
        /\ "checkpoint" \in reader.left /\ \A y \in reader.left : ~G!Precedes(reader.kind, y, "checkpoint")
    BY MayReadIs DEF G!ReadLatestProjection
  <1>2. /\ G!ReaderOnly /\ reader.kind = "RECONCILE"
        /\ reader' = [[reader EXCEPT !.checkpoint = c] EXCEPT !.left = @ \ {"checkpoint"}]
    <2>1. G!ReaderOnly /\ reader.kind = "RECONCILE"
      BY DEF G!ReadLatestProjection
    <2>2. PICK b : reader' = [[reader EXCEPT !.checkpoint = b] EXCEPT !.left = @ \ {"checkpoint"}]
      BY DEF G!ReadLatestProjection, G!Took
    <2>3. reader'.checkpoint = b
      BY <1>1, <2>2 DEF ReadingSound, Shape
    <2> QED
      BY <2>1, <2>2, <2>3
  <1>3. PICK q : q = reader'
    OBVIOUS
  <1>4. q = [[reader EXCEPT !.checkpoint = c] EXCEPT !.left = @ \ {"checkpoint"}]
    BY <1>2, <1>3
  <1>5. /\ SameReading(q, reader) /\ q.phase = reader.phase
        /\ q.left = reader.left \ {"checkpoint"} /\ q.checkpoint = c
    BY <1>1, <1>4 DEF ReadingSound, Shape, SameReading
  <1>6. Shape(q)
    BY <1>1, <1>4 DEF ReadingSound, Shape
  <1>7. CheckpointFits(q)
    BY <1>2, <1>5 DEF CheckpointFits, SameReading
  <1>8. ResultFits(q)
    BY <1>1, <1>5 DEF ReadingSound, ResultFits, SameReading
  <1> QED
    BY <1>1, <1>2, <1>3, <1>5, <1>6, <1>7, <1>8, ReadingGoesOn

\* A checkpoint that was taken is of the history it is shown with, so no report is stale when its histories match.
LEMMA ReportBuilt ==
    ASSUME ReportAssumption, ReportInv, G!Build
    PROVE  ReportInv'
  <1>1. /\ ReadingSound(reader, records, ready, history, overlay) /\ reader.phase = "reading"
        /\ reader.left = {}
    BY DEF G!Build, ReportInv, G!Reading, G!Asked
  <1>2. /\ G!ReaderOnly /\ reader' = [reader EXCEPT !.phase = "returned"]
        /\ \A g \in reader.wanted : Len(reader.events[g]) = reader.row[g].revision
    <2>1. /\ G!ReaderOnly /\ \A g \in reader.wanted : Len(reader.events[g]) = reader.row[g].revision
          /\ reader' = [reader EXCEPT !.phase = IF G!CheckpointIsCurrent THEN "returned" ELSE "stale"]
      BY DEF G!Build, G!HistoriesMatchRows
    <2>2. G!CheckpointIsCurrent
      BY <1>1, <2>1 DEF G!CheckpointIsCurrent, ReadingSound, CheckpointFits
    <2> QED
      BY <2>1, <2>2
  <1>3. PICK q : q = reader'
    OBVIOUS
  <1>4. q = [reader EXCEPT !.phase = "returned"]
    BY <1>2, <1>3
  <1>5. /\ SameReading(q, reader) /\ q.phase = "returned"
        /\ q.left = reader.left /\ q.checkpoint = reader.checkpoint
    BY <1>1, <1>4 DEF ReadingSound, Shape, SameReading
  <1>6. Shape(q)
    BY <1>1, <1>4 DEF ReadingSound, Shape
  <1>7. CheckpointFits(q)
    BY <1>1, <1>5 DEF ReadingSound, CheckpointFits, SameReading
  <1>8. ResultFits(q)
    BY <1>1, <1>2, <1>5 DEF ResultFits, SameReading
  <1> QED
    BY <1>1, <1>2, <1>3, <1>5, <1>6, <1>7, <1>8, ReadingGoesOn

\* A report that has not read the same of a game twice was disturbed while it read.
LEMMA MismatchMeansMoved ==
    ASSUME ReportInv, G!ReadAgain
    PROVE  /\ ReadingSound(reader, records, ready, history, overlay) /\ reader.left = {}
           /\ reader.attempt \in reader.moved
  <1>1. /\ ReadingSound(reader, records, ready, history, overlay) /\ reader.phase = "reading"
        /\ reader.left = {}
    BY DEF G!ReadAgain, ReportInv, G!Reading, G!Asked
  <1>2. PICK g \in reader.wanted : Len(reader.events[g]) # reader.row[g].revision
    BY DEF G!ReadAgain, G!HistoriesMatchRows
  <1>3. RowsRead(reader)
    BY <1>1 DEF RowsRead
  <1>4. PICK p : /\ PartOf(p, history[g]) /\ reader.row[g] = [revision |-> Len(p), status |-> G!StatusOf(p)]
                 /\ Unmoved(reader) => p = history[g]
    BY <1>1, <1>3 DEF ReadingSound, RowsFit
  <1>5. reader.row[g].revision = Len(p)
    BY <1>4
  <1>6. Unmoved(reader) => reader.events[g] = history[g]
    BY <1>1 DEF ReadingSound, EventsFit
  <1>7. ~Unmoved(reader)
    BY <1>2, <1>4, <1>5, <1>6
  <1> QED
    BY <1>1, <1>7 DEF Unmoved

LEMMA ReportGivenUp ==
    ASSUME ReportAssumption, ReportInv, G!ReadAgain, ~(reader.attempt < 2)
    PROVE  ReportInv'
  <1>1. /\ ReadingSound(reader, records, ready, history, overlay) /\ reader.phase = "reading"
        /\ reader.left = {}
    BY DEF G!ReadAgain, ReportInv, G!Reading, G!Asked
  <1>2. G!ReaderOnly /\ reader' = [reader EXCEPT !.phase = "stale"]
    BY DEF G!ReadAgain
  <1>3. PICK q : q = reader'
    OBVIOUS
  <1>4. q = [reader EXCEPT !.phase = "stale"]
    BY <1>2, <1>3
  <1>5. /\ SameReading(q, reader) /\ q.phase = "stale"
        /\ q.left = reader.left /\ q.checkpoint = reader.checkpoint
    BY <1>1, <1>4 DEF ReadingSound, Shape, SameReading
  <1>6. Shape(q)
    BY <1>1, <1>4 DEF ReadingSound, Shape
  <1>7. CheckpointFits(q)
    BY <1>1, <1>5 DEF ReadingSound, CheckpointFits, SameReading
  <1>8. ResultFits(q)
    <2>1. reader.attempt \in {1, 2} /\ reader.moved \in SUBSET {1, 2} /\ reader.attempt \in reader.moved
      BY <1>1, MismatchMeansMoved DEF ReadingSound, Shape
    <2>2. reader.attempt = 2
      BY <2>1
    <2>3. 1 \in reader.moved /\ 2 \in reader.moved
      BY <1>1, <2>1, <2>2 DEF ReadingSound, WantedFit
    <2> QED
      BY <1>5, <2>1, <2>3 DEF ResultFits, SameReading
  <1> QED
    BY <1>1, <1>2, <1>3, <1>5, <1>6, <1>7, <1>8, ReadingGoesOn

LEMMA ReportReadAgain ==
    ASSUME ReportAssumption, ReportInv, G!ReadAgain, reader.attempt < 2
    PROVE  ReportInv'
  <1>1. /\ ReadingSound(reader, records, ready, history, overlay) /\ reader.attempt \in reader.moved
        /\ reader.attempt \in {1, 2} /\ reader.moved \in SUBSET {1, 2} /\ reader.since \in Nat
    BY MismatchMeansMoved DEF ReadingSound, Shape
  <1>2. reader.attempt = 1 /\ reader.attempt + 1 = 2
    BY <1>1
  <1>3. PICK wanted : wanted = IF reader.kind \in {"BOX", "RECONCILE"} THEN reader.wanted ELSE {}
    OBVIOUS
  <1>4. PICK q, kind, r : q = reader' /\ kind = reader.kind /\ r = reader
    OBVIOUS
  <1>5. q = G!Attempt(kind, wanted, 2, r) /\ G!ReaderOnly
    BY <1>2, <1>3, <1>4 DEF G!ReadAgain
  <1>6. Before(2, r)
    BY <1>1, <1>2, <1>4 DEF Before, ReadingSound, OverlaysFit
  <1>7. ready # {}
    BY <1>1 DEF ReadingSound, WantedFit
  <1>8. kind \in ReportKinds /\ MayWant(kind, wanted)
    BY <1>1, <1>3, <1>4, <1>7 DEF ReportInv, MayWant, ReadingSound, WantedFit
  <1>9. ReadingSound(q, records, ready, history, overlay) /\ q.kind = kind
    BY <1>5, <1>6, <1>8, Attempting
  <1> QED
    BY <1>4, <1>5, <1>9, ReaderMoves

LEMMA ReportStep ==
    ASSUME ReportAssumption, ReportInv, G!ReportNext
    PROVE  ReportInv'
  <1>1. ASSUME NEW g \in Games, (\E s \in DOMAIN G!Named : G!CreateRecord(s, g)) \/ G!AcceptSetup(g)
        PROVE  ReportInv'
    BY <1>1, RecordsMove
  <1>2. ASSUME NEW g \in Games, NEW e \in DOMAIN G!AcceptedIn, G!AcceptEvent(g, e)
        PROVE  ReportInv'
    BY <1>2, EventsMove
  <1>3. CASE G!EraseNames \/ \E g \in Games : G!PublishProjection(g)
    BY <1>3, ProjectionsMove
  <1>4. CASE G!Begin
    BY <1>4, ReportBegins
  <1>5. ASSUME NEW x \in DOMAIN G!Named, G!ReadSection(x)
        PROVE  ReportInv'
    BY <1>5, SectionRead, GamesRead
  <1>6. CASE G!ReadOverlays \/ G!ReadEvents \/ G!ReadPresentation \/ G!ReadGameSources
    BY <1>6, OverlaysRead, EventsRead, PresentationRead, GameSourcesRead
  <1>7. CASE G!ReadCorrections
    BY <1>7, CorrectionsRead, CorrectionsRefused
  <1>8. CASE G!ReadCheckpoint
    <2>1. PICK c : c = reader'.checkpoint
      OBVIOUS
    <2> QED
      BY <1>8, <2>1, CheckpointRead
  <1>9. CASE G!ReadLatestProjection
    <2>1. PICK c : c = reader'.checkpoint
      OBVIOUS
    <2> QED
      BY <1>9, <2>1, LatestProjectionRead
  <1>10. CASE G!Build
    BY <1>10, ReportBuilt
  <1>11. CASE G!ReadAgain
    BY <1>11, ReportReadAgain, ReportGivenUp
  <1> QED
    BY <1>1, <1>2, <1>3, <1>4, <1>5, <1>6, <1>7, <1>8, <1>9, <1>10, <1>11 DEF G!ReportNext

-----------------------------------------------------------------------------
(* All services *)

ServicesInv ==
    SessionInv /\ SignInInv /\ RateInv /\ SetupInv /\ IngestionInv /\ ReportInv

\* A service at rest keeps its invariant.
LEMMA SessionRests ==
    ASSUME SessionInv, UNCHANGED sessionVars
    PROVE  SessionInv'
  <1>1. session' = session /\ cookie' = cookie /\ request' = request /\ clock' = clock /\ lostReply' = lostReply
    BY DEF sessionVars
  <1>2. RowSound'
    BY <1>1 DEF SessionInv, RowSound
  <1>3. \A r \in Requests : RequestSound(r)'
    BY <1>1 DEF SessionInv, RequestSound, InFlight, Alive
  <1>4. CookieSound'
    BY <1>1 DEF SessionInv, CookieSound, Alive
  <1> QED
    BY <1>1, <1>2, <1>3, <1>4 DEF SessionInv

LEMMA SignInRests ==
    ASSUME SignInInv, UNCHANGED signInVars
    PROVE  SignInInv'
  <1>1. /\ attempt' = attempt /\ callback' = callback /\ owner' = owner /\ active' = active
        /\ disabled' = disabled /\ opened' = opened /\ linkedBy' = linkedBy
    BY DEF signInVars
  <1>2. SignInShapes'
    BY <1>1 DEF SignInInv, SignInShapes, I!Callbacks, I!Attempts
  <1>3. HeldOnce' /\ CreatorsAreOwners'
    BY <1>1 DEF SignInInv, HeldOnce, CreatorsAreOwners, Holding, I!Callbacks, I!Attempts
  <1>4. I!OneSessionPerAttempt' /\ I!SessionNamesOwner' /\ I!LinkedByLiveSession'
    BY <1>1 DEF SignInInv, I!OneSessionPerAttempt, I!SessionNamesOwner, I!LinkedByLiveSession, I!Callbacks, I!Attempts
  <1> QED
    BY <1>2, <1>3, <1>4 DEF SignInInv

LEMMA RatesRest ==
    ASSUME RateInv, UNCHANGED rateVars
    PROVE  RateInv'
  <1>1. /\ policyVersion' = policyVersion /\ counter' = counter /\ charge' = charge /\ override' = override
        /\ instant' = instant /\ admitted' = admitted /\ chargedAt' = chargedAt
    BY DEF rateVars
  <1>2. R!OneActiveOverride'
    BY <1>1 DEF RateInv, R!OneActiveOverride
  <1>3. \A a \in Actors, k \in Keys : RememberedAt(a, k)'
    BY <1>1 DEF RateInv, RememberedAt
  <1> QED
    BY <1>1, <1>2, <1>3 DEF RateInv

LEMMA SetupRests ==
    ASSUME SetupAssumption, SetupInv, UNCHANGED setupVars
    PROVE  SetupInv'
  <1>1. UNCHANGED <<revisions, cache, plan, call, time>> /\ setup' = setup /\ knownReady' = knownReady
    BY DEF setupVars
  <1>2. RowInv'
    BY <1>1, StandingRow DEF Grown
  <1> QED
    BY <1>1, <1>2, RowMoves

LEMMA IngestionRests ==
    ASSUME IngestionInv, UNCHANGED ingestionVars
    PROVE  IngestionInv'
  <1>1. /\ feed' = feed /\ latest' = latest /\ source' = source /\ run' = run /\ work' = work
        /\ record' = record /\ malformed' = malformed /\ faults' = faults /\ overlapped' = overlapped
    BY DEF ingestionVars
  <1>2. E!TypeOK'
    BY <1>1 DEF IngestionInv, E!TypeOK, E!Stored
  <1>3. \A r \in Runs : WorkSound(r)'
    BY <1>1 DEF IngestionInv, WorkSound, InStore, E!Stored, E!Is
  <1>4. E!NothingSkipped' /\ E!Chain'
    BY <1>1 DEF IngestionInv, E!NothingSkipped, E!Chain, E!Stored, E!Is, E!Predecessor
  <1> QED
    BY <1>1, <1>2, <1>3, <1>4 DEF IngestionInv

LEMMA ReportsRest ==
    ASSUME ReportInv, UNCHANGED reportVars
    PROVE  ReportInv'
  <1>1. /\ records' = records /\ ready' = ready /\ history' = history /\ overlay' = overlay /\ reader' = reader
    BY DEF reportVars
  <1>2. AccountSound'
    BY <1>1 DEF ReportInv, AccountSound
  <1>3. ASSUME ReadingSound(reader, records, ready, history, overlay)
        PROVE  ReadingSound(reader, records, ready, history, overlay)'
    BY <1>1, <1>3
  <1> QED
    BY <1>1, <1>2, <1>3 DEF ReportInv

LEMMA ServicesInitial ==
    ASSUME Init
    PROVE  ServicesInv
  <1> QED
    BY ServicesAssumption, SessionInitial, SignInInitial, RateInitial, SetupInitial,
       IngestionInitial, ReportInitial DEF Init, ServicesInv

\* A step is one of one service; the others rest.
LEMMA ServicesStep ==
    ASSUME ServicesInv, [Next]_vars
    PROVE  ServicesInv'
  <1>1. \/ S!SessionNext \/ UNCHANGED sessionVars
    BY DEF Next, vars
  <1>2. \/ I!SignInNext \/ UNCHANGED signInVars
    BY DEF Next, vars
  <1>3. \/ R!RateNext \/ UNCHANGED rateVars
    BY DEF Next, vars
  <1>4. \/ C!SetupNext \/ UNCHANGED setupVars
    BY DEF Next, vars
  <1>5. \/ E!Next \/ UNCHANGED ingestionVars
    BY DEF Next, vars
  <1>6. \/ G!ReportNext \/ UNCHANGED reportVars
    BY DEF Next, vars
  <1>7. SessionInv'
    BY <1>1, SessionStep, SessionRests, ServicesAssumption DEF ServicesInv
  <1>8. SignInInv'
    BY <1>2, SignInStep, SignInRests, ServicesAssumption DEF ServicesInv
  <1>9. RateInv'
    BY <1>3, RateStep, RatesRest, ServicesAssumption DEF ServicesInv, DecisionKept
  <1>10. SetupInv'
    BY <1>4, SetupStep, SetupRests, ServicesAssumption DEF ServicesInv
  <1>11. IngestionInv'
    BY <1>5, IngestionStep, IngestionRests, ServicesAssumption DEF ServicesInv
  <1>12. ReportInv'
    BY <1>6, ReportStep, ReportsRest, ServicesAssumption DEF ServicesInv
  <1> QED
    BY <1>7, <1>8, <1>9, <1>10, <1>11, <1>12 DEF ServicesInv

\* In every reachable state each service satisfies its invariant.
THEOREM ServicesInvariant == Spec => []ServicesInv
  <1>1. Init => ServicesInv
    BY ServicesInitial
  <1>2. ServicesInv /\ [Next]_vars => ServicesInv'
    BY ServicesStep
  <1> HIDE DEF ServicesInv, Init, Next, vars
  <1> QED
    BY <1>1, <1>2, PTL DEF Spec

\* The browser keeps a live session through rotations unless a reply is lost; a callback
\* opens one session however often it arrives, for the owner of the identity, and links
\* are made for live sessions only (authentication-repository.ts).
THEOREM AuthenticationCorrect == Spec => []AuthenticationHolds
  <1>1. ServicesInv => AuthenticationHolds
    BY ServicesAssumption, SessionHoldsEach, SignInTypes
       DEF ServicesInv, AuthenticationHolds, SignInInv
  <1> HIDE DEF ServicesInv, AuthenticationHolds
  <1> QED
    BY <1>1, ServicesInvariant, PTL

\* No save of the configuration is lost, no process works with a revision that was
\* replaced longer ago than a copy lives, and a system that is set up has its
\* administrator and its values (application-configuration-service.ts,
\* installation-setup-service.ts).
THEOREM ConfigurationCorrect == Spec => []ConfigurationHolds
  <1>1. ServicesInv => ConfigurationHolds
    BY ServicesAssumption, SetupHoldsEach DEF ServicesInv, ConfigurationHolds
  <1> HIDE DEF ServicesInv, ConfigurationHolds
  <1> QED
    BY <1>1, ServicesInvariant, PTL

\* Ingestion skips nothing behind its checkpoint and keeps the lineage a chain, even when
\* runs race; a report that is returned shows its games at one moment, agrees with the
\* other reports, and an undisturbed export can be imported
\* (external-ingestion-repository.ts, game-event-repository.ts).
THEOREM DataCorrect == Spec => []DataHolds
  <1>1. ServicesInv => E!TypeOK /\ E!NothingSkipped /\ E!Chain
    BY DEF ServicesInv, IngestionInv
  <1>2. ServicesInv => G!ReportsHold
    BY ServicesAssumption, ReportHoldsEach DEF ServicesInv
  <1>3. ServicesInv => DataHolds
    BY <1>1, <1>2 DEF DataHolds
  <1> HIDE DEF ServicesInv, DataHolds
  <1> QED
    BY <1>3, ServicesInvariant, PTL

\* No token is issued for a session that has ended, no decision admits more than the
\* limits in force then, no operation is charged twice while it is remembered, and the
\* set-up never goes back (rotateSession, consumeOnce, markReady).
THEOREM ServiceStepsCorrect == Spec => ServiceStepsHold
  <1>1. ServicesInv /\ [Next]_vars
          => [session.ended # None => session'.version = session.version]_(S!sessionVars)
    <2>1. SUFFICES ASSUME ServicesInv, [Next]_vars, UNCHANGED S!sessionVars => FALSE
                   PROVE  session.ended # None => session'.version = session.version
      OBVIOUS
    <2>2. S!SessionNext
      BY <2>1 DEF Next, vars, sessionVars, S!sessionVars
    <2> QED
      BY <2>1, <2>2, SessionStep, ServicesAssumption DEF ServicesInv
  <1>2. ServicesInv /\ [Next]_vars => R!RateNext \/ UNCHANGED R!rateVars
    BY DEF Next, vars, rateVars, R!rateVars
  <1>3. ServicesInv /\ [Next]_vars => DecisionKept \/ UNCHANGED R!rateVars
    BY <1>2, RateStep, ServicesAssumption DEF ServicesInv
  <1>4. ServicesInv /\ [Next]_vars => SetupMovesOn \/ UNCHANGED C!setupVars
    <2>1. ASSUME ServicesInv, [Next]_vars
          PROVE  C!SetupNext \/ UNCHANGED C!setupVars
      BY <2>1 DEF Next, vars, setupVars, C!setupVars, C!configurationVars
    <2> QED
      BY <2>1, SetupStep, ServicesAssumption DEF ServicesInv
  <1>5. Spec => S!NoTokenAfterEnd
    <2> HIDE DEF ServicesInv, Init, Next, vars
    <2> QED
      BY <1>1, ServicesInvariant, PTL DEF Spec, S!NoTokenAfterEnd
  <1>6. Spec => R!AdmittedWithinLimit
    <2>1. ServicesInv /\ [Next]_vars
            => [\A a \in Actors :
                  LET now(s) == admitted'[s][policyVersion][R!Window]
                  IN  now(a) > admitted[a][policyVersion][R!Window] =>
                         /\ now(a) <= R!PolicyFor(a).actorLimit
                         /\ now(R!Account) <= R!PolicyFor(a).accountLimit]_(R!rateVars)
      BY <1>3 DEF DecisionKept
    <2> HIDE DEF ServicesInv, Init, Next, vars
    <2> QED
      BY <2>1, ServicesInvariant, PTL DEF Spec, R!AdmittedWithinLimit
  <1>7. Spec => R!ChargedOnce
    <2>1. ServicesInv /\ [Next]_vars
            => [\A a \in Actors, k \in Keys :
                  chargedAt'[a][k] # chargedAt[a][k] /\ chargedAt[a][k] # None
                  => instant >= chargedAt[a][k] + ChargeLife]_(R!rateVars)
      BY <1>3 DEF DecisionKept
    <2> HIDE DEF ServicesInv, Init, Next, vars
    <2> QED
      BY <2>1, ServicesInvariant, PTL DEF Spec, R!ChargedOnce
  <1>8. Spec => C!SetupIsKept
    <2>1. ServicesInv /\ [Next]_vars
            => [/\ C!Ranks[setup'.status] >= C!Ranks[setup.status]
                /\ setup.admin # None => setup'.admin = setup.admin]_(C!setupVars)
      BY <1>4 DEF SetupMovesOn
    <2> HIDE DEF ServicesInv, Init, Next, vars
    <2> QED
      BY <2>1, ServicesInvariant, PTL DEF Spec, C!SetupIsKept
  <1> QED
    BY <1>5, <1>6, <1>7, <1>8 DEF ServiceStepsHold
=============================================================================
