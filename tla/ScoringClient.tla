----------------------------- MODULE ScoringClient -----------------------------
(***************************************************************************)
(* Drafts of plays in the scorer's browser and the requests they become    *)
(* (src/features/scoring/use-scoring-draft.ts, scoring-recovery.ts and     *)
(* src/components/scoring/scoring-recovery-boundary.tsx, with the server   *)
(* action of src/app/games/score/actions.ts).                              *)
(*                                                                         *)
(* The tabs of a browser share one stored draft per surface.  A panel      *)
(* gives a proposal its submission key and stores both; the boundary of    *)
(* any tab can send a stored draft again.  A connection fails while the    *)
(* server goes on with the request, so nobody knows what was recorded.     *)
(* On the server a request is charged to its rate limit first and accepted *)
(* in a second transaction (EventAcceptance has that one in detail).       *)
(*                                                                         *)
(* Abstracted: accounts, games, setups and malformed drafts; one surface.  *)
(* A play is a member of Plays; a scorer enters it only while the page     *)
(* does not show it recorded.                                              *)
(***************************************************************************)
EXTENDS Naturals, Sequences, FiniteSets

CONSTANTS Tabs, Plays, None,
          MaxKeys,      \* bound: submission keys held at a time
          MaxSends,     \* bound: requests sent
          MaxHistory    \* bound: events recorded

VARIABLES
    tab,      \* what a page holds: revision, key, proposal, result
    store,    \* the stored draft: None or [key, play, revision]
    request,  \* the requests ever sent, and who still waits for each
    charge,   \* rate-limit charges: submission key and event id
    history   \* the accepted events: [key, play]

clientVars == <<tab, store, request, charge, history>>

ClientAssumption == IsFiniteSet(Tabs) /\ MaxKeys \in Nat /\ None \notin Plays

Mounted(revision, key) ==
    [revision |-> revision, key |-> key, play |-> None, result |-> "IDLE"]

ClientInit ==
    /\ tab = LET key == CHOOSE k \in [Tabs -> 1 .. Cardinality(Tabs)] :
                             \A t, u \in Tabs : k[t] = k[u] => t = u
             IN  [t \in Tabs |-> Mounted(0, key[t])]
    /\ store = None /\ request = <<>> /\ charge = {} /\ history = <<>>

Recorded(key, revision) == \E n \in 1 .. revision : history[n].key = key

\* A key never made before, up to those nobody remembers.
Held == {tab[t].key : t \in Tabs} \cup {request[n].key : n \in DOMAIN request}
            \cup {history[n].key : n \in DOMAIN history} \cup {c.key : c \in charge}
            \cup (IF store = None THEN {} ELSE {store.key})
Unused == (1 .. MaxKeys) \ Held
NewKey == CHOOSE key \in Unused : \A other \in Unused : key <= other

Shown(t) == {history[n].play : n \in 1 .. tab[t].revision}

\* storedDraftBlocksNewEditor
Blocked(t) == store # None /\ store.key # tab[t].key

Pending(t, via) == \E n \in DOMAIN request : request[n].by = <<t, via>>

-----------------------------------------------------------------------------
(* The page *)

\* A page is loaded, or refreshed at another revision: the panels mount anew with
\* a key of the server, and the boundary clears a draft that is already recorded.
\* What the page waited for is not heard any more.
Load(t) ==
    /\ Unused # {}
    /\ tab' = [tab EXCEPT ![t] = Mounted(Len(history), NewKey)]
    /\ store' = IF store # None /\ Recorded(store.key, Len(history)) THEN None ELSE store
    /\ request' = [n \in DOMAIN request |->
                      IF \E via \in {"PANEL", "BOUNDARY"} : request[n].by = <<t, via>>
                      THEN [request[n] EXCEPT !.by = None] ELSE request[n]]
    /\ UNCHANGED <<charge, history>>

\* idempotencyKeyForProposal
KeepsKey(t, play) == tab[t].key
ProposalKey(t, play) ==
    IF tab[t].play # None /\ tab[t].play # play THEN NewKey ELSE tab[t].key

\* A proposal is chosen, perhaps after another was put away: the effect of the hook
\* gives it its key and stores it.  What is chosen while another draft blocks the
\* panel takes effect when that one is gone; the shortcut keys choose after an error,
\* when the controls are locked.
Propose(t, play) ==
    /\ play \notin Shown(t)
    /\ ~Pending(t, "PANEL") /\ tab[t].result # "SUCCESS" /\ ~Blocked(t) /\ Unused # {}
    /\ LET key == ProposalKey(t, play)
       IN  /\ tab' = [tab EXCEPT ![t].play = play, ![t].key = key]
           /\ store' = [key |-> key, play |-> play, revision |-> tab[t].revision]
    /\ UNCHANGED <<request, charge, history>>

\* Discard local draft, offered for whatever is stored.
Discard(t) ==
    /\ store # None /\ store' = None
    /\ UNCHANGED <<tab, request, charge, history>>

ReadyAnyway(t) == TRUE
DraftReady(t) == store # None /\ store.key = tab[t].key /\ store.play = tab[t].play

Send(t, via, key, play, revision) ==
    /\ Len(request) < MaxSends
    /\ request' = Append(request, [by |-> <<t, via>>, key |-> key, play |-> play,
                                   revision |-> revision, answer |-> "SENT"])

\* "Record", and after an error "Retry same proposal".
Submit(t) ==
    /\ tab[t].play # None /\ ~Pending(t, "PANEL") /\ ~Blocked(t) /\ DraftReady(t)
    /\ Send(t, "PANEL", tab[t].key, tab[t].play, tab[t].revision)
    /\ UNCHANGED <<tab, store, charge, history>>

\* decideStoredDraft: RECOVERABLE
Recoverable(t) ==
    /\ store # None /\ ~Recorded(store.key, tab[t].revision)
    /\ store.revision = tab[t].revision

\* What a retry expects of the game.
CurrentRevision(t) == Len(history)
ExpectedRevision(t) == store.revision

\* "Retry unchanged action"
RetryRecovered(t) ==
    /\ Recoverable(t) /\ ~Pending(t, "BOUNDARY")
    /\ Send(t, "BOUNDARY", store.key, store.play, ExpectedRevision(t))
    /\ UNCHANGED <<tab, store, charge, history>>

-----------------------------------------------------------------------------
(* The server *)

Answered(n, answer) == [request EXCEPT ![n].answer = answer]

\* The charge is known by the submission key and compared by a fingerprint that
\* holds the event id, which every attempt is given anew: here its number.
ChargeRequest(n) ==
    /\ request[n].answer = "SENT"
    /\ IF \E c \in charge : c.key = request[n].key /\ c.event # n
       THEN request' = Answered(n, "IDEMPOTENCY_CONFLICT") /\ charge' = charge
       ELSE /\ request' = [request EXCEPT ![n].answer = "CHARGED"]
            /\ charge' = charge \cup {[key |-> request[n].key, event |-> n]}
    /\ UNCHANGED <<tab, store, history>>

AcceptRequest(n) ==
    LET prior == {m \in DOMAIN history : history[m].key = request[n].key}
    IN  /\ request[n].answer = "CHARGED"
        /\ \/ /\ prior # {}
              /\ request' = Answered(n, IF \A m \in prior : history[m].play = request[n].play
                                        THEN "SUCCESS" ELSE "REFUSED")
              /\ history' = history
           \/ /\ prior = {} /\ request[n].revision # Len(history)
              /\ request' = Answered(n, "REFUSED") /\ history' = history
           \/ /\ prior = {} /\ request[n].revision = Len(history) /\ Len(history) < MaxHistory
              /\ request' = Answered(n, "SUCCESS")
              /\ history' = Append(history, [key |-> request[n].key, play |-> request[n].play])
        /\ UNCHANGED <<tab, store, charge>>

\* A day later.
ChargeExpires(c) ==
    /\ charge' = charge \ {c}
    /\ UNCHANGED <<tab, store, request, history>>

\* Somebody else records an event of the game; bound: the first one.
OtherScorer ==
    /\ history = <<>>
    /\ history' = Append(history, [key |-> None, play |-> None])
    /\ UNCHANGED <<tab, store, request, charge>>

-----------------------------------------------------------------------------
(* Answers *)

Heard(n, result) ==
    /\ request' = [request EXCEPT ![n].by = None]
    /\ tab' = IF request[n].by[2] = "PANEL" THEN [tab EXCEPT ![request[n].by[1]].result = result] ELSE tab

\* A success clears what is stored, whoever stored it.  (A panel that mounts anew
\* with the answer does not hear it: Load.)
HearSuccess(n) ==
    /\ request[n].by # None /\ request[n].answer = "SUCCESS"
    /\ Heard(n, "SUCCESS")
    /\ store' = None
    /\ UNCHANGED <<charge, history>>

HearRefusal(n) ==
    /\ request[n].by # None /\ request[n].answer \in {"REFUSED", "IDEMPOTENCY_CONFLICT"}
    /\ Heard(n, "ERROR")
    /\ UNCHANGED <<store, charge, history>>

\* NETWORK_FAILURE: the request may still be on its way.
ConnectionFails(n) ==
    /\ request[n].by # None
    /\ Heard(n, "ERROR")
    /\ UNCHANGED <<store, charge, history>>

ClientNext ==
    \/ \E t \in Tabs : \/ Load(t) \/ Discard(t) \/ Submit(t) \/ RetryRecovered(t)
                       \/ \E play \in Plays : Propose(t, play)
    \/ \E n \in DOMAIN request : \/ ChargeRequest(n) \/ AcceptRequest(n)
                                 \/ HearSuccess(n) \/ HearRefusal(n) \/ ConnectionFails(n)
    \/ \E c \in charge : ChargeExpires(c)
    \/ OtherScorer

ClientSpec == ClientInit /\ [][ClientNext]_clientVars

-----------------------------------------------------------------------------
(* Properties *)

\* A submission key stands for one play in whatever tab and however often it is
\* sent: a changed proposal never goes out under a key that may be recorded.
KeyNamesOnePlay ==
    \A m, n \in DOMAIN request :
        request[m].key = request[n].key => request[m].play = request[n].play

\* A play is recorded once, though its answer was lost, its draft discarded and
\* entered again, or sent from the panel and from the boundary of two tabs.
RecordedOnce ==
    \A m, n \in DOMAIN history :
        history[m].play = history[n].play /\ history[m].play # None => m = n

\* docs/SCORING_AUTOSAVE_AND_RECOVERY.md:67 "An uncertain response retains the
\* proposal and key. `Retry unchanged action`" is said to receive the original
\* acceptance or a replay of it: a request that only repeats an earlier one under
\* its key is not called a conflict.
RetryIsAnswered ==
    \A n \in DOMAIN request :
        request[n].answer = "IDEMPOTENCY_CONFLICT" =>
            \E m \in 1 .. n - 1 : request[m].key = request[n].key /\ request[m].play # request[n].play
=============================================================================
