---------------------- MODULE EventAcceptanceProofs ------------------------
(***************************************************************************)
(* Proofs about EventAcceptance, for any submissions, any number of        *)
(* concurrent requests and any number of privacy deletions.                *)
(***************************************************************************)
EXTENDS EventAcceptance, TLAPS

-----------------------------------------------------------------------------
(* The inductive invariant *)

\* The event with number i was entered at revision i - 1, and the Game row
\* counts the events.
Numbered ==
    /\ game.revision = Len(history)
    /\ \A i \in DOMAIN history : history[i].expected + 1 = i

\* What a request under way has learnt stays true while others go on.
Known(a) ==
    /\ phase[a] # "idle" => sub[a].expected <= Len(history)
    /\ phase[a] = "writing" => sub[a].expected = seen[a].revision
    /\ phase[a] \in {"loading", "reading"} =>
          /\ Correction(sub[a])
          /\ entry[a] \in DOMAIN history
          /\ Records(history[entry[a]], sub[a])

\* What it was answered stays true: a stale submission is behind the history,
\* and a key in use remains in use.
Told(a) ==
    /\ phase[a] # "answered" => answer[a] = "NONE"
    /\ answer[a] = "SUCCESS" =>
          entry[a] \in DOMAIN history /\ Records(history[entry[a]], sub[a])
    /\ answer[a] = "STALE_SOURCE_REVISION" /\ ~Correction(sub[a]) =>
          sub[a].expected < Len(history) /\ ~Recorded(sub[a])
    /\ answer[a] = "DUPLICATE_IDEMPOTENCY_KEY" =>
          \E i \in DOMAIN history :
              history[i].key = sub[a].key /\ ~SameInput(history[i], sub[a])

Informed == \A a \in Attempts : Known(a) /\ Told(a)

IInv ==
    /\ TypeOK
    /\ Numbered
    /\ KeysRecordedOnce
    /\ CurrentCheckpointIsLatest
    /\ Informed

-----------------------------------------------------------------------------
(* What the writes of one transaction do *)

\* A commit appends its submission, at the revision it was entered for, under a
\* key that is not in the history.
LEMMA WriteAppends ==
    ASSUME TypeOK, Numbered, NEW a \in Attempts, Known(a),
           phase[a] = "writing", Unchanged(a), ~Taken(sub[a]), Write(sub[a])
    PROVE  /\ sub[a] \in Submissions
           /\ sub[a].expected = Len(history)
           /\ history' = Append(history, sub[a])
           /\ \A i \in DOMAIN history : history[i].key # sub[a].key
  <1>1. sub[a] \in Submissions /\ sub[a].expected = Len(history)
    BY DEF TypeOK, RequestsOK, Numbered, Known, Unchanged
  <1>2. history' = Append(history, sub[a])
    BY DEF Write
  <1>3. \A i \in DOMAIN history : history[i].key # sub[a].key
    BY DEF Taken, SameKey
  <1> QED
    BY <1>1, <1>2, <1>3

\* The two actions that write.
Committing(a) ==
    /\ phase[a] = "writing"
    /\ Unchanged(a)
    /\ ~Taken(sub[a])
    /\ Write(sub[a])

\* Every other step leaves the history and the Game row alone.
LEMMA OthersKeepHistory ==
    ASSUME [Next]_vars, \A a \in Attempts : ~Committing(a)
    PROVE  UNCHANGED <<history, game, audits>>
  <1>1. CASE UNCHANGED vars
    BY <1>1 DEF vars, stored
  <1>2. ASSUME NEW a \in Attempts, Step(a) PROVE UNCHANGED <<history, game, audits>>
    BY <1>2 DEF Step, Read, Commit, CommitUnconfirmed, RollBack, RejectIdentifier,
       Recheck, LoadGame, LoadCheckpoint, Committing, stored
  <1>3. ASSUME NEW a \in Attempts, End(a) PROVE UNCHANGED <<history, game, audits>>
    BY <1>3 DEF End, stored
  <1>4. ASSUME NEW a \in Attempts, NEW s \in Submissions, Send(a, s)
        PROVE  UNCHANGED <<history, game, audits>>
    BY <1>4 DEF Send, stored
  <1>5. CASE Derive \/ Publish \/ DeleteName
    BY <1>5 DEF Derive, Publish, DeleteName, stored
  <1> QED
    BY <1>1, <1>2, <1>3, <1>4, <1>5 DEF Next

-----------------------------------------------------------------------------
(* Type correctness *)

LEMMA StatusType ==
    ASSUME NEW status \in Statuses, NEW type \in Types
    PROVE  StatusAfter(status, type) \in Statuses
  BY DEF StatusAfter, Statuses, Types

LEMMA StaledTyped ==
    ASSUME NEW r, NEW p, NEW cs \in SUBSET Checkpoints(r, p)
    PROVE  /\ Staled(cs) \in SUBSET Checkpoints(r, p)
           /\ \A c \in Staled(cs) : c.status = "STALE"
  BY DEF Staled, Checkpoints

LEMMA PublishedTyped ==
    ASSUME NEW r \in Nat, NEW p \in Nat, NEW cs \in SUBSET Checkpoints(r, p)
    PROVE  Published(cs, r, p) \in SUBSET Checkpoints(r, p)
  <1>1. CurrentCheckpoint(r, p) \in Checkpoints(r, p)
    BY DEF CurrentCheckpoint, Checkpoints
  <1>2. Staled(cs) \in SUBSET Checkpoints(r, p)
    BY StaledTyped
  <1> QED
    BY <1>1, <1>2 DEF Published

LEMMA CheckpointsGrow ==
    ASSUME NEW r \in Nat, NEW p \in Nat
    PROVE  /\ Checkpoints(r, p) \subseteq Checkpoints(r + 1, p)
           /\ Checkpoints(r, p) \subseteq Checkpoints(r, p + 1)
  BY DEF Checkpoints

LEMMA CheckpointsAfterTyped ==
    ASSUME NEW r \in Nat, privacy \in Nat, NEW s,
           checkpoints \in SUBSET Checkpoints(r, privacy)
    PROVE  CheckpointsAfter(s, r + 1, privacy) \in SUBSET Checkpoints(r + 1, privacy)
  <1>1. Staled(checkpoints) \in SUBSET Checkpoints(r + 1, privacy)
    BY StaledTyped, CheckpointsGrow
  <1>2. Published(Staled(checkpoints), r + 1, privacy) \in SUBSET Checkpoints(r + 1, privacy)
    BY <1>1, PublishedTyped
  <1> QED
    BY <1>1, <1>2 DEF CheckpointsAfter

\* What a commit does to the database, type by type.
LEMMA CommitTyped ==
    ASSUME TypeOK, Numbered, NEW a \in Attempts, Known(a), Committing(a)
    PROVE  /\ history' \in Seq(Submissions)
           /\ Len(history') = Len(history) + 1
           /\ game' \in [revision : Nat, status : Statuses]
           /\ game'.revision = Len(history')
           /\ privacy' = privacy
           /\ checkpoints' \subseteq Checkpoints(Len(history'), privacy)
           /\ \A n \in outbox' : n.revision \in 0 .. Len(history')
           /\ \A r \in audits' : r.revision \in 0 .. Len(history')
  <1> DEFINE s == sub[a]
  <1>1. /\ s \in Submissions
        /\ s.expected = Len(history)
        /\ history' = Append(history, s)
    BY WriteAppends DEF Committing
  <1>2. /\ history \in Seq(Submissions)
        /\ Len(history) \in Nat
        /\ s.type \in Types
    BY <1>1, SubmissionAssumption DEF TypeOK, RowsOK
  <1>3. history' \in Seq(Submissions) /\ Len(history') = Len(history) + 1
    BY <1>1, <1>2
  <1>4. /\ game' = [revision |-> Len(history) + 1, status |-> StatusAfter(game.status, s.type)]
        /\ checkpoints' = CheckpointsAfter(s, Len(history) + 1, privacy)
        /\ outbox' = outbox \cup Announcements(s, Len(history) + 1)
        /\ audits' = audits \cup Audit(s, Len(history) + 1)
        /\ privacy' = privacy
    BY <1>1 DEF Committing, Write
  <1>5. StatusAfter(game.status, s.type) \in Statuses
    BY <1>2, StatusType DEF TypeOK, RowsOK
  <1>6. game' \in [revision : Nat, status : Statuses] /\ game'.revision = Len(history')
    BY <1>2, <1>3, <1>4, <1>5
  <1>7. checkpoints' \subseteq Checkpoints(Len(history'), privacy)
    <2>1. privacy \in Nat /\ checkpoints \in SUBSET Checkpoints(Len(history), privacy)
      BY BoundAssumption DEF TypeOK, RowsOK
    <2> QED
      BY <2>1, <1>2, <1>3, <1>4, CheckpointsAfterTyped
  <1>8. \A n \in outbox' : n.revision \in 0 .. Len(history')
    <2>1. \A n \in outbox : n.revision \in 0 .. Len(history)
      BY DEF TypeOK, RowsOK, Revisions
    <2>2. \A n \in Announcements(s, Len(history) + 1) : n.revision = Len(history) + 1
      BY <1>2 DEF Announcements, Notice, Types
    <2> QED
      BY <2>1, <2>2, <1>2, <1>3, <1>4
  <1>9. \A r \in audits' : r.revision \in 0 .. Len(history')
    <2>1. \A r \in audits : r.revision \in 0 .. Len(history)
      BY DEF TypeOK, RowsOK, Revisions
    <2>2. \A r \in Audit(s, Len(history) + 1) : r.revision = Len(history) + 1
      BY <1>2 DEF Audit, Types
    <2> QED
      BY <2>1, <2>2, <1>2, <1>3, <1>4
  <1> QED
    BY <1>3, <1>4, <1>6, <1>7, <1>8, <1>9

\* An attempt is answered, or goes on.
LEMMA AnswerTyped ==
    ASSUME RequestsOK, NEW a \in Attempts, NEW code \in Codes, Answer(a, code)
    PROVE  phase' \in [Attempts -> Phases] /\ answer' \in [Attempts -> Codes]
  BY DEF RequestsOK, Answer, Phases

LEMMA ContinueTyped ==
    ASSUME RequestsOK, NEW a \in Attempts, NEW next \in Phases, Continue(a, next)
    PROVE  phase' \in [Attempts -> Phases] /\ answer' \in [Attempts -> Codes]
  BY DEF RequestsOK, Continue

LEMMA AcceptedTyped ==
    ASSUME RequestsOK, NEW a \in Attempts, NEW i, Accepted(a, i)
    PROVE  /\ phase' \in [Attempts -> Phases] /\ answer' \in [Attempts -> Codes]
           /\ entry' = [entry EXCEPT ![a] = i]
  BY AnswerTyped, ContinueTyped DEF Accepted, Phases, Codes

LEMMA FoundPriorTyped ==
    ASSUME RequestsOK, NEW a \in Attempts, NEW i, FoundPrior(a, i)
    PROVE  /\ phase' \in [Attempts -> Phases] /\ answer' \in [Attempts -> Codes]
           /\ entry' = entry \/ entry' = [entry EXCEPT ![a] = i]
  BY AnswerTyped, AcceptedTyped DEF FoundPrior, Codes

LEMMA RefuseTyped ==
    ASSUME RequestsOK, NEW a \in Attempts, Refuse(a)
    PROVE  /\ phase' \in [Attempts -> Phases] /\ answer' \in [Attempts -> Codes]
           /\ UNCHANGED <<entry, seen>>
  BY AnswerTyped DEF Refuse, Codes

\* A step moves attempt a on, within the types.
Moves(a) ==
    /\ phase' \in [Attempts -> Phases]
    /\ answer' \in [Attempts -> Codes]
    /\ entry' \in [Attempts -> Revisions']
    /\ seen' \in [Attempts -> [revision : Revisions', privacy : 0 .. privacy']]
    /\ \A b \in Attempts \ {a} : phase'[b] = phase[b]

LEMMA DecideMoves ==
    ASSUME TypeOK, Numbered, NEW a \in Attempts, Decide(a), UNCHANGED stored
    PROVE  Moves(a)
  <1> USE DEF TypeOK, RowsOK, RequestsOK, Revisions, Moves
  <1>0. UNCHANGED <<history, game, privacy>> /\ Len(history) \in Nat
    BY DEF stored
  <1>1. \A b \in Attempts \ {a} : phase'[b] = phase[b]
    BY DEF Decide, FoundPrior, Accepted, Refuse, Answer, Continue
  <1>2. CASE Priors(sub[a]) # {}
    <2>1. PICK i \in Priors(sub[a]) : FoundPrior(a, i)
      BY <1>2 DEF Decide
    <2>2. i \in 0 .. Len(history) /\ UNCHANGED seen
      BY <1>2 DEF Priors, Decide
    <2>3. /\ phase' \in [Attempts -> Phases] /\ answer' \in [Attempts -> Codes]
          /\ entry' = entry \/ entry' = [entry EXCEPT ![a] = i]
      BY <2>1, FoundPriorTyped
    <2>4. entry' \in [Attempts -> Revisions'] /\ entry \in [Attempts -> Revisions]
      BY <1>0, <2>2, <2>3
    <2>5. seen' \in [Attempts -> [revision : Revisions', privacy : 0 .. privacy']]
      BY <1>0, <2>2
    <2> QED
      BY <1>1, <2>3, <2>4, <2>5
  <1>3. CASE Priors(sub[a]) = {} /\ ~Acceptable(sub[a])
    <2>1. Refuse(a)
      BY <1>3 DEF Decide
    <2> QED
      BY <1>0, <1>1, <2>1, RefuseTyped
  <1>4. CASE Priors(sub[a]) = {} /\ Acceptable(sub[a])
    <2>1. /\ seen' = [seen EXCEPT ![a] = [revision |-> game.revision, privacy |-> privacy]]
          /\ UNCHANGED entry
          /\ Continue(a, "writing")
      BY <1>4 DEF Decide
    <2>2. game.revision \in 0 .. Len(history) /\ privacy \in 0 .. privacy
      BY <1>0, BoundAssumption DEF Numbered
    <2>3. phase' \in [Attempts -> Phases] /\ answer' \in [Attempts -> Codes]
      BY <2>1, ContinueTyped DEF Phases
    <2> QED
      BY <1>0, <1>1, <2>1, <2>2, <2>3
  <1> QED
    BY <1>2, <1>3, <1>4

\* A commit moves its request on, and everything the other requests have seen
\* stays within the longer history.
LEMMA CommitMoves ==
    ASSUME TypeOK, Numbered, NEW a \in Attempts, Known(a), Commit(a) \/ CommitUnconfirmed(a)
    PROVE  Moves(a)
  <1>1. Committing(a)
    BY DEF Commit, CommitUnconfirmed, Committing
  <1>2. /\ Len(history') = Len(history) + 1 /\ Len(history) \in Nat
        /\ privacy' = privacy
        /\ sub[a].expected = Len(history)
    BY <1>1, CommitTyped, WriteAppends DEF TypeOK, RowsOK, Committing
  <1>3. Revisions \subseteq Revisions' /\ Len(history) + 1 \in Revisions'
    BY <1>2 DEF Revisions
  <1>4. seen' = seen
    BY DEF Commit, CommitUnconfirmed
  <1>5. seen' \in [Attempts -> [revision : Revisions', privacy : 0 .. privacy']]
    BY <1>2, <1>3, <1>4 DEF TypeOK, RequestsOK
  <1>6. \A b \in Attempts \ {a} : phase'[b] = phase[b]
    BY DEF TypeOK, RequestsOK, Commit, CommitUnconfirmed, Accepted, Answer, Continue
  <1>7. /\ phase' \in [Attempts -> Phases] /\ answer' \in [Attempts -> Codes]
        /\ entry' = entry \/ entry' = [entry EXCEPT ![a] = Len(history) + 1]
    BY <1>2, AcceptedTyped, AnswerTyped DEF TypeOK, Commit, CommitUnconfirmed, Codes
  <1>8. entry' \in [Attempts -> Revisions']
    BY <1>3, <1>7 DEF TypeOK, RequestsOK
  <1> QED
    BY <1>5, <1>6, <1>7, <1>8 DEF Moves

LEMMA StepMoves ==
    ASSUME TypeOK, Numbered, NEW a \in Attempts, Known(a), Step(a)
    PROVE  Moves(a) /\ sub' = sub /\ phase[a] # "idle"
  <1>0. sub' = sub /\ phase[a] # "idle"
    BY DEF Step, Read, Commit, CommitUnconfirmed, RollBack, RejectIdentifier, Recheck,
       LoadGame, LoadCheckpoint
  <1>1. CASE Read(a)
    BY <1>0, <1>1, DecideMoves DEF Read
  <1>2. CASE Commit(a) \/ CommitUnconfirmed(a)
    BY <1>0, <1>2, CommitMoves
  <1>3. ASSUME UNCHANGED stored
        PROVE  Revisions' = Revisions /\ privacy' = privacy
    BY <1>3 DEF stored, Revisions
  <1>4. CASE RollBack(a) \/ RejectIdentifier(a)
    BY <1>0, <1>3, <1>4
       DEF RollBack, RejectIdentifier, TypeOK, RequestsOK, Moves, Phases
  <1>5. CASE Recheck(a)
    <2>1. UNCHANGED stored /\ UNCHANGED seen
      BY <1>5 DEF Recheck
    <2>2. \A b \in Attempts \ {a} : phase'[b] = phase[b]
      BY <1>5 DEF Recheck, FoundPrior, Accepted, Answer, Continue, TypeOK, RequestsOK
    <2>3. CASE Priors(sub[a]) # {}
      <3>1. PICK i \in Priors(sub[a]) : FoundPrior(a, i)
        BY <1>5, <2>3 DEF Recheck
      <3>2. i \in Revisions
        BY <3>1 DEF Priors, Revisions, TypeOK, RowsOK
      <3>3. /\ phase' \in [Attempts -> Phases] /\ answer' \in [Attempts -> Codes]
            /\ entry' = entry \/ entry' = [entry EXCEPT ![a] = i]
        BY <3>1, FoundPriorTyped DEF TypeOK
      <3>4. entry' \in [Attempts -> Revisions]
        BY <3>2, <3>3 DEF TypeOK, RequestsOK
      <3> QED
        BY <1>0, <1>3, <2>1, <2>2, <3>3, <3>4 DEF Moves, TypeOK, RequestsOK
    <2>4. CASE Priors(sub[a]) = {}
      <3>1. \E code \in Codes : Answer(a, code) /\ UNCHANGED entry
        BY <1>5, <2>4 DEF Recheck, Codes
      <3>2. phase' \in [Attempts -> Phases] /\ answer' \in [Attempts -> Codes] /\ entry' = entry
        BY <3>1, AnswerTyped DEF TypeOK
      <3> QED
        BY <1>0, <1>3, <2>1, <2>2, <3>2 DEF Moves, TypeOK, RequestsOK
    <2> QED
      BY <2>3, <2>4
  <1>6. CASE LoadGame(a)
    <2>1. UNCHANGED stored /\ UNCHANGED entry
      BY <1>6 DEF LoadGame
    <2>2. \A b \in Attempts \ {a} : phase'[b] = phase[b]
      BY <1>6 DEF LoadGame, Answer, Continue, TypeOK, RequestsOK
    <2>3. phase' \in [Attempts -> Phases] /\ answer' \in [Attempts -> Codes]
      <3>1. (\E code \in Codes : Answer(a, code)) \/ (\E next \in Phases : Continue(a, next))
        BY <1>6 DEF LoadGame, Codes, Phases
      <3> QED
        BY <3>1, AnswerTyped, ContinueTyped DEF TypeOK
    <2>4. seen' \in [Attempts -> [revision : Revisions, privacy : 0 .. privacy]]
      <3>1. game.revision \in Revisions /\ privacy \in 0 .. privacy
        BY BoundAssumption DEF Numbered, Revisions, TypeOK, RowsOK
      <3>2. seen' = seen \/ seen' = [seen EXCEPT ![a] = [revision |-> game.revision, privacy |-> privacy]]
        BY <1>6 DEF LoadGame
      <3> QED
        BY <3>1, <3>2 DEF TypeOK, RequestsOK
    <2> QED
      BY <1>0, <1>3, <2>1, <2>2, <2>3, <2>4 DEF Moves, TypeOK, RequestsOK
  <1>7. CASE LoadCheckpoint(a)
    <2>1. UNCHANGED stored /\ UNCHANGED <<seen, entry>>
      BY <1>7 DEF LoadCheckpoint
    <2>2. \A b \in Attempts \ {a} : phase'[b] = phase[b]
      BY <1>7 DEF LoadCheckpoint, Answer, TypeOK, RequestsOK
    <2>3. \E code \in Codes : Answer(a, code)
      BY <1>7 DEF LoadCheckpoint, Codes
    <2>4. phase' \in [Attempts -> Phases] /\ answer' \in [Attempts -> Codes]
      BY <2>3, AnswerTyped DEF TypeOK
    <2> QED
      BY <1>0, <1>3, <2>1, <2>2, <2>4 DEF Moves, TypeOK, RequestsOK
  <1> QED
    BY <1>1, <1>2, <1>4, <1>5, <1>6, <1>7 DEF Step

LEMMA OnlyCommitsWrite ==
    ASSUME NEW a \in Attempts, Step(a), ~(Commit(a) \/ CommitUnconfirmed(a))
    PROVE  UNCHANGED stored
  BY DEF Step, Read, RollBack, RejectIdentifier, Recheck, LoadGame, LoadCheckpoint

LEMMA TypeStep ==
    ASSUME TypeOK, Numbered, Informed, [Next]_vars
    PROVE  TypeOK'
  <1>0. Len(history) \in Nat /\ privacy \in Nat /\ MaxPrivacy \in Nat
    BY BoundAssumption DEF TypeOK, RowsOK
  <1>1. CASE UNCHANGED vars
    BY <1>1 DEF vars, stored, requests, TypeOK, RowsOK, RequestsOK, Revisions
  <1>2. ASSUME NEW a \in Attempts, Step(a) PROVE TypeOK'
    <2>1. Moves(a) /\ sub' = sub /\ phase[a] # "idle"
      BY <1>2, StepMoves DEF Informed
    <2>2. RequestsOK'
      <3>1. \A b \in Attempts : phase'[b] # "idle" => sub'[b] \in Submissions
        BY <2>1 DEF Moves, TypeOK, RequestsOK
      <3> QED
        BY <2>1, <3>1 DEF Moves, TypeOK, RequestsOK
    <2>3. RowsOK'
      <3>1. CASE Commit(a) \/ CommitUnconfirmed(a)
        <4>1. Committing(a) /\ Known(a)
          BY <3>1 DEF Commit, CommitUnconfirmed, Committing, Informed
        <4> QED
          BY <4>1, CommitTyped DEF TypeOK, RowsOK, Revisions
      <3>2. CASE ~(Commit(a) \/ CommitUnconfirmed(a))
        BY <1>2, <3>2, OnlyCommitsWrite DEF stored, TypeOK, RowsOK, Revisions
      <3> QED
        BY <3>1, <3>2
    <2> QED
      BY <2>2, <2>3 DEF TypeOK
  <1>3. ASSUME NEW a \in Attempts, End(a) PROVE TypeOK'
    <2>1. RowsOK'
      BY <1>3 DEF End, stored, TypeOK, RowsOK, Revisions
    <2>2. Nothing \in [revision : Revisions, privacy : 0 .. privacy]
      BY <1>0 DEF Nothing, Revisions
    <2>3. UNCHANGED <<Revisions, privacy>>
      BY <1>3 DEF End, stored, Revisions
    <2>4. 0 \in Revisions /\ "NONE" \in Codes /\ "idle" \in Phases
      BY <1>0 DEF Revisions, Codes, Phases
    <2>5. RequestsOK'
      BY <1>3, <2>2, <2>3, <2>4 DEF End, TypeOK, RequestsOK
    <2> QED
      BY <2>1, <2>5 DEF TypeOK
  <1>4. ASSUME NEW a \in Attempts, NEW s \in Submissions, Send(a, s) PROVE TypeOK'
    BY <1>4 DEF Send, stored, TypeOK, RowsOK, RequestsOK, Revisions, Phases
  <1>5. CASE Derive
    BY <1>5 DEF Derive, stored, requests, TypeOK, RowsOK, RequestsOK, Revisions
  <1>6. CASE Publish
    <2>1. /\ derived.revision = Len(history) /\ derived.privacy = privacy
          /\ checkpoints' = Published(checkpoints, Len(history), privacy)
          /\ outbox' = outbox \cup {Notice("REPORT_READY", Len(history), privacy)}
          /\ UNCHANGED <<history, game, privacy, audits>> /\ UNCHANGED requests
      BY <1>6 DEF Publish, StillFresh, Numbered
    <2>2. checkpoints' \subseteq Checkpoints(Len(history), privacy)
      BY <1>0, <2>1, PublishedTyped DEF TypeOK, RowsOK
    <2>3. \A n \in outbox' : n.revision \in Revisions
      BY <1>0, <2>1 DEF Notice, TypeOK, RowsOK, Revisions
    <2> QED
      BY <2>1, <2>2, <2>3 DEF requests, TypeOK, RowsOK, RequestsOK, Revisions
  <1>7. CASE DeleteName
    <2>1. /\ privacy' = privacy + 1 /\ privacy' \in 0 .. MaxPrivacy /\ checkpoints' = {}
          /\ UNCHANGED <<history, game, outbox, audits>> /\ UNCHANGED requests
      BY <1>0, <1>7 DEF DeleteName
    <2>2. RowsOK'
      BY <2>1 DEF TypeOK, RowsOK, Revisions
    <2>3. 0 .. privacy \subseteq 0 .. privacy' /\ Revisions' = Revisions
      BY <1>0, <2>1 DEF Revisions
    <2>4. seen' \in [Attempts -> [revision : Revisions', privacy : 0 .. privacy']]
      BY <2>1, <2>3 DEF requests, TypeOK, RequestsOK
    <2> QED
      BY <2>1, <2>2, <2>3, <2>4 DEF requests, TypeOK, RequestsOK
  <1> QED
    BY <1>1, <1>2, <1>3, <1>4, <1>5, <1>6, <1>7 DEF Next

-----------------------------------------------------------------------------
(* The history *)

LEMMA HistoryStep ==
    ASSUME TypeOK, Numbered, KeysRecordedOnce, Informed, [Next]_vars
    PROVE  Numbered' /\ KeysRecordedOnce'
  <1>1. CASE \A a \in Attempts : ~Committing(a)
    BY <1>1, OthersKeepHistory DEF Numbered, KeysRecordedOnce
  <1>2. ASSUME NEW a \in Attempts, Committing(a) PROVE Numbered' /\ KeysRecordedOnce'
    <2> DEFINE s == sub[a]
    <2>1. /\ s.expected = Len(history) /\ s \in Submissions
          /\ history' = Append(history, s)
          /\ \A i \in DOMAIN history : history[i].key # s.key
      BY <1>2, WriteAppends DEF Informed, Committing
    <2>2. game'.revision = Len(history')
      BY <1>2, CommitTyped DEF Informed
    <2>3. /\ history \in Seq(Submissions) /\ Len(history) \in Nat
          /\ DOMAIN history = 1 .. Len(history)
      BY DEF TypeOK, RowsOK
    <2>4. /\ DOMAIN history' = 1 .. Len(history) + 1
          /\ \A i \in 1 .. Len(history) : history'[i] = history[i]
          /\ history'[Len(history) + 1] = s
      BY <2>1, <2>3
    <2>5. Numbered'
      BY <2>1, <2>2, <2>3, <2>4 DEF Numbered
    <2>6. KeysRecordedOnce'
      BY <2>1, <2>3, <2>4 DEF KeysRecordedOnce
    <2> QED
      BY <2>5, <2>6
  <1> QED
    BY <1>1, <1>2

LEMMA CheckpointStep ==
    ASSUME TypeOK, Numbered, Informed, CurrentCheckpointIsLatest, [Next]_vars
    PROVE  CurrentCheckpointIsLatest'
  <1>1. ASSUME NEW a \in Attempts, Committing(a) PROVE CurrentCheckpointIsLatest'
    <2> DEFINE s == sub[a]
               r == s.expected + 1
    <2>1. /\ checkpoints' = CheckpointsAfter(s, r, privacy)
          /\ privacy' = privacy /\ game'.revision = r
      BY <1>1 DEF Committing, Write
    <2>2. \A c \in Staled(checkpoints) : c.status = "STALE"
      BY StaledTyped DEF TypeOK, RowsOK
    <2>3. \A c \in Staled(Staled(checkpoints)) : c.status = "STALE"
      BY StaledTyped DEF TypeOK, RowsOK
    <2>4. \A c \in checkpoints' : c.status = "STALE" \/ c = CurrentCheckpoint(r, privacy)
      BY <2>1, <2>2, <2>3 DEF CheckpointsAfter, Published
    <2> QED
      BY <2>1, <2>4 DEF CurrentCheckpointIsLatest, CurrentCheckpoint
  <1>2. CASE Publish
    <2>1. /\ derived.revision = game.revision /\ derived.privacy = privacy
          /\ checkpoints' = Published(checkpoints, game.revision, privacy)
          /\ UNCHANGED <<game, privacy>>
      BY <1>2 DEF Publish, StillFresh
    <2>2. \A c \in Staled(checkpoints) : c.status = "STALE"
      BY StaledTyped DEF TypeOK, RowsOK
    <2> QED
      BY <2>1, <2>2 DEF CurrentCheckpointIsLatest, Published, CurrentCheckpoint
  <1>3. CASE DeleteName
    BY <1>3 DEF DeleteName, CurrentCheckpointIsLatest
  <1>4. CASE UNCHANGED stored
    BY <1>4 DEF stored, CurrentCheckpointIsLatest
  <1>5. (\E a \in Attempts : Committing(a)) \/ Publish \/ DeleteName \/ UNCHANGED stored
    BY OnlyCommitsWrite DEF Next, Commit, CommitUnconfirmed, Committing, End, Send, Derive, vars
  <1> QED
    BY <1>1, <1>2, <1>3, <1>4, <1>5

-----------------------------------------------------------------------------
(* The answers *)

\* The history only grows, by an event entered for its latest revision.
Grows == history' = history \/ \E s \in Submissions :
                                  s.expected = Len(history) /\ history' = Append(history, s)

LEMMA HistoryGrows ==
    ASSUME TypeOK, Numbered, Informed, [Next]_vars
    PROVE  Grows
  <1>1. CASE \A a \in Attempts : ~Committing(a)
    BY <1>1, OthersKeepHistory DEF Grows
  <1>2. ASSUME NEW a \in Attempts, Committing(a) PROVE Grows
    BY <1>2, WriteAppends DEF Informed, Committing, Grows
  <1> QED
    BY <1>1, <1>2

\* What a request knows and was told survives the growth of the history.
LEMMA StillInformed ==
    ASSUME TypeOK, Grows, NEW b \in Attempts, Known(b), Told(b),
           phase'[b] = phase[b], sub'[b] = sub[b], seen'[b] = seen[b],
           entry'[b] = entry[b], answer'[b] = answer[b]
    PROVE  Known(b)' /\ Told(b)'
  <1>0. /\ history \in Seq(Submissions) /\ Len(history) \in Nat
        /\ DOMAIN history = 1 .. Len(history)
    BY DEF TypeOK, RowsOK
  <1>1. CASE history' = history
    BY <1>1 DEF Known, Told, Records, Recorded, SameInput, Correction
  <1>2. ASSUME NEW s \in Submissions, s.expected = Len(history), history' = Append(history, s)
        PROVE  Known(b)' /\ Told(b)'
    <2>1. /\ DOMAIN history' = 1 .. Len(history) + 1
          /\ Len(history') = Len(history) + 1
          /\ \A i \in DOMAIN history : history'[i] = history[i]
          /\ history'[Len(history) + 1] = s
      BY <1>0, <1>2
    <2>2. phase[b] # "idle" => sub[b] \in Submissions /\ sub[b].expected \in Nat
      BY SubmissionAssumption DEF TypeOK, RequestsOK
    <2>3. phase'[b] # "idle" => sub'[b].expected <= Len(history')
      BY <1>0, <2>1, <2>2 DEF Known
    <2>4. Known(b)'
      BY <1>0, <2>1, <2>3 DEF Known, Records, Correction
    <2>5. answer[b] = "STALE_SOURCE_REVISION" /\ ~Correction(sub[b]) =>
              /\ sub[b].expected < Len(history')
              /\ \A i \in DOMAIN history' : ~Records(history'[i], sub[b])
      <3>1. SUFFICES ASSUME answer[b] = "STALE_SOURCE_REVISION", ~Correction(sub[b])
                     PROVE  /\ sub[b].expected < Len(history')
                            /\ \A i \in DOMAIN history' : ~Records(history'[i], sub[b])
        OBVIOUS
      <3>2. /\ sub[b].expected < Len(history) /\ sub[b].expected \in Nat
            /\ \A i \in DOMAIN history : ~Records(history[i], sub[b])
        BY <2>2, <3>1 DEF Told, Recorded
      <3>3. ~Records(s, sub[b])
        BY <1>0, <1>2, <3>2 DEF Records
      <3> QED
        BY <1>0, <2>1, <3>2, <3>3
    <2>6. Told(b)'
      BY <1>0, <2>1, <2>5 DEF Told, Records, Recorded, SameInput, Correction
    <2> QED
      BY <2>4, <2>6
  <1> QED
    BY <1>1, <1>2 DEF Grows

\* Told that its event is accepted, or that its key is in use.
LEMMA PriorInforms ==
    ASSUME TypeOK, NEW a \in Attempts, Known(a), Told(a), phase[a] \notin {"idle", "answered"},
           NEW i \in Priors(sub[a]), FoundPrior(a, i), UNCHANGED <<history, sub>>
    PROVE  Known(a)' /\ Told(a)'
  <1>1. i \in DOMAIN history /\ history[i].key = sub[a].key
    BY DEF Priors, SameKey
  <1>2. CASE SameInput(history[i], sub[a])
    <2>1. Records(history[i], sub[a])
      BY <1>1, <1>2 DEF SameInput, Records
    <2>2. entry'[a] = i
      BY <1>2 DEF FoundPrior, Accepted, TypeOK, RequestsOK
    <2>3. CASE Correction(sub[a])
      <3>1. phase'[a] = "loading" /\ answer'[a] = "NONE"
        BY <1>2, <2>3 DEF FoundPrior, Accepted, Continue, Told, TypeOK, RequestsOK
      <3> QED
        BY <1>1, <2>1, <2>2, <2>3, <3>1 DEF Known, Told, Records, Correction
    <2>4. CASE ~Correction(sub[a])
      <3>1. phase'[a] = "answered" /\ answer'[a] = "SUCCESS"
        BY <1>2, <2>4 DEF FoundPrior, Accepted, Answer, TypeOK, RequestsOK
      <3> QED
        BY <1>1, <2>1, <2>2, <3>1 DEF Known, Told, Records
    <2> QED
      BY <2>3, <2>4
  <1>3. CASE ~SameInput(history[i], sub[a])
    <2>1. phase'[a] = "answered" /\ answer'[a] = "DUPLICATE_IDEMPOTENCY_KEY"
      BY <1>3 DEF FoundPrior, Answer, TypeOK, RequestsOK
    <2> QED
      BY <1>1, <1>3, <2>1 DEF Known, Told, SameInput
  <1> QED
    BY <1>2, <1>3

\* A request that goes on without an answer, and without looking for its event.
LEMMA UndecidedInforms ==
    ASSUME TypeOK, NEW a \in Attempts, Known(a), Told(a), phase[a] \notin {"idle", "answered"},
           UNCHANGED <<history, sub, answer>>,
           phase'[a] \in {"writing", "failed", "idTaken"},
           phase'[a] = "writing" => sub[a].expected = seen'[a].revision
    PROVE  Known(a)' /\ Told(a)'
  BY DEF Known, Told

\* A request answered with a code that promises nothing.
LEMMA OtherAnswersInform ==
    ASSUME TypeOK, NEW a \in Attempts, Known(a), phase[a] \notin {"idle", "answered"},
           Len(history') >= Len(history), Len(history) \in Nat, sub' = sub,
           NEW code, Answer(a, code),
           code \notin {"SUCCESS", "STALE_SOURCE_REVISION", "DUPLICATE_IDEMPOTENCY_KEY"},
           Len(history') \in Nat
    PROVE  Known(a)' /\ Told(a)'
  <1>1. phase'[a] = "answered" /\ answer'[a] = code
    BY DEF Answer, TypeOK, RequestsOK
  <1>2. sub[a].expected \in Nat
    BY SubmissionAssumption DEF TypeOK, RequestsOK
  <1>3. sub'[a].expected <= Len(history')
    BY <1>2 DEF Known
  <1> QED
    BY <1>1, <1>3 DEF Known, Told

LEMMA ReadInforms ==
    ASSUME TypeOK, Numbered, NEW a \in Attempts, Known(a), Told(a), Read(a)
    PROVE  Known(a)' /\ Told(a)'
  <1>1. UNCHANGED <<history, sub>> /\ phase[a] = "sent" /\ Decide(a)
    BY DEF Read, stored
  <1>2. CASE Priors(sub[a]) # {}
    BY <1>1, <1>2, PriorInforms DEF Decide
  <1>3. CASE Priors(sub[a]) = {} /\ ~Acceptable(sub[a])
    <2>1. Refuse(a)
      BY <1>1, <1>3 DEF Decide
    <2>2. CASE game.revision # sub[a].expected
      <3>1. phase'[a] = "answered" /\ answer'[a] = "STALE_SOURCE_REVISION"
        BY <2>1, <2>2 DEF Refuse, Answer, TypeOK, RequestsOK
      <3>2. ~Recorded(sub[a])
        BY <1>3 DEF Recorded, Records, Priors, SameKey
      <3>3. sub[a].expected < Len(history)
        <4>1. sub[a].expected \in Nat /\ Len(history) \in Nat
          BY <1>1, SubmissionAssumption DEF TypeOK, RowsOK, RequestsOK
        <4> QED
          BY <1>1, <2>2, <4>1 DEF Numbered, Known
      <3> QED
        BY <1>1, <3>1, <3>2, <3>3 DEF Known, Told, Recorded, Records, Correction
    <2>3. CASE game.revision = sub[a].expected
      <3>1. \E code \in {"INVALID_LIFECYCLE_TRANSITION", "IMMUTABLE_HISTORY_VIOLATION"} :
                Answer(a, code)
        BY <2>1, <2>3 DEF Refuse
      <3>2. Len(history) \in Nat
        BY DEF TypeOK, RowsOK
      <3> QED
        BY <1>1, <3>1, <3>2, OtherAnswersInform
    <2> QED
      BY <2>2, <2>3
  <1>4. CASE Priors(sub[a]) = {} /\ Acceptable(sub[a])
    <2>1. /\ seen' = [seen EXCEPT ![a] = [revision |-> game.revision, privacy |-> privacy]]
          /\ Continue(a, "writing")
      BY <1>1, <1>4 DEF Decide
    <2>2. phase'[a] = "writing" /\ answer' = answer /\ seen'[a].revision = game.revision
      BY <2>1 DEF Continue, TypeOK, RequestsOK
    <2>3. sub[a].expected = game.revision
      BY <1>4 DEF Acceptable
    <2> QED
      BY <1>1, <2>2, <2>3, UndecidedInforms
  <1> QED
    BY <1>2, <1>3, <1>4

LEMMA CommitInforms ==
    ASSUME TypeOK, Numbered, NEW a \in Attempts, Known(a), Told(a),
           Commit(a) \/ CommitUnconfirmed(a)
    PROVE  Known(a)' /\ Told(a)'
  <1> DEFINE s == sub[a]
             n == Len(history) + 1
  <1>1. Committing(a) /\ sub' = sub /\ phase[a] = "writing"
    BY DEF Commit, CommitUnconfirmed, Committing
  <1>2. s.expected = Len(history) /\ s \in Submissions /\ history' = Append(history, s)
    BY <1>1, WriteAppends DEF Committing
  <1>3. /\ history \in Seq(Submissions) /\ Len(history) \in Nat
        /\ Len(history') = n /\ n \in DOMAIN history' /\ history'[n] = s
    BY <1>2 DEF TypeOK, RowsOK
  <1>4. Records(history'[n], s)
    BY <1>3 DEF Records
  <1>5. CASE CommitUnconfirmed(a)
    BY <1>1, <1>3, <1>5, OtherAnswersInform DEF CommitUnconfirmed
  <1>6. CASE Commit(a) /\ Correction(s)
    <2>1. phase'[a] = "loading" /\ answer'[a] = "NONE" /\ entry'[a] = n
      BY <1>1, <1>2, <1>6 DEF Commit, Accepted, Continue, Told, TypeOK, RequestsOK
    <2> QED
      BY <1>1, <1>2, <1>3, <1>4, <1>6, <2>1 DEF Known, Told, Records, Correction
  <1>7. CASE Commit(a) /\ ~Correction(s)
    <2>1. phase'[a] = "answered" /\ answer'[a] = "SUCCESS" /\ entry'[a] = n
      BY <1>1, <1>2, <1>7 DEF Commit, Accepted, Answer, TypeOK, RequestsOK
    <2> QED
      BY <1>1, <1>2, <1>3, <1>4, <2>1 DEF Known, Told, Records
  <1> QED
    BY <1>5, <1>6, <1>7

LEMMA StepInforms ==
    ASSUME TypeOK, Numbered, NEW a \in Attempts, Known(a), Told(a), Step(a)
    PROVE  Known(a)' /\ Told(a)'
  <1>0. Len(history) \in Nat
    BY DEF TypeOK, RowsOK
  <1>1. CASE Read(a)
    BY <1>1, ReadInforms
  <1>2. CASE Commit(a) \/ CommitUnconfirmed(a)
    BY <1>2, CommitInforms
  <1>3. CASE RollBack(a) \/ RejectIdentifier(a)
    <2>1. /\ phase[a] = "writing" /\ phase'[a] \in {"failed", "idTaken"}
          /\ UNCHANGED <<history, sub, answer>>
      BY <1>3 DEF RollBack, RejectIdentifier, stored, TypeOK, RequestsOK
    <2> QED
      BY <2>1, UndecidedInforms
  <1>4. CASE Recheck(a)
    <2>1. UNCHANGED <<history, sub>> /\ phase[a] \in {"failed", "idTaken"}
      BY <1>4 DEF Recheck, stored
    <2>2. CASE Priors(sub[a]) # {}
      BY <1>4, <2>1, <2>2, PriorInforms DEF Recheck
    <2>3. CASE Priors(sub[a]) = {}
      <3>1. \E code \in {"DUPLICATE_ACCEPTED_EVENT", "PERSISTENCE_CONFLICT"} : Answer(a, code)
        BY <1>4, <2>3 DEF Recheck
      <3> QED
        BY <1>0, <2>1, <3>1, OtherAnswersInform
    <2> QED
      BY <2>2, <2>3
  <1>5. CASE LoadGame(a)
    <2>1. UNCHANGED <<history, sub, entry>> /\ phase[a] = "loading"
      BY <1>5 DEF LoadGame, stored
    <2>2. CASE game.revision # entry[a]
      <3>1. phase'[a] = "answered" /\ answer'[a] = "STALE_SOURCE_REVISION"
        BY <1>5, <2>2 DEF LoadGame, Answer, TypeOK, RequestsOK
      <3> QED
        BY <2>1, <3>1 DEF Known, Told, Correction
    <2>3. CASE game.revision = entry[a]
      <3>1. phase'[a] = "reading" /\ answer' = answer
        BY <1>5, <2>3 DEF LoadGame, Continue, TypeOK, RequestsOK
      <3> QED
        BY <2>1, <3>1 DEF Known, Told, Records, Correction
    <2> QED
      BY <2>2, <2>3
  <1>6. CASE LoadCheckpoint(a)
    <2>1. UNCHANGED <<history, sub, entry>> /\ phase[a] = "reading"
      BY <1>6 DEF LoadCheckpoint, stored
    <2>2. PICK code \in {"SUCCESS", "INTERNAL_INVARIANT_FAILURE"} : Answer(a, code)
      BY <1>6 DEF LoadCheckpoint
    <2>3. phase'[a] = "answered" /\ answer'[a] \in {"SUCCESS", "INTERNAL_INVARIANT_FAILURE"}
      BY <2>2 DEF Answer, TypeOK, RequestsOK
    <2> QED
      BY <2>1, <2>3 DEF Known, Told, Records
  <1> QED
    BY <1>1, <1>2, <1>3, <1>4, <1>5, <1>6 DEF Step

\* What the steps of request a leave alone.
Apart(a) ==
    \A b \in Attempts \ {a} :
        /\ phase'[b] = phase[b] /\ sub'[b] = sub[b] /\ seen'[b] = seen[b]
        /\ entry'[b] = entry[b] /\ answer'[b] = answer[b]

LEMMA StepsApart ==
    ASSUME TypeOK, NEW a \in Attempts,
           Step(a) \/ End(a) \/ \E s \in Submissions : Send(a, s)
    PROVE  Apart(a)
  <1> USE DEF TypeOK, RequestsOK, Apart
  <1>1. CASE Read(a)
    BY <1>1 DEF Read, Decide, FoundPrior, Accepted, Refuse, Answer, Continue
  <1>2. CASE Commit(a) \/ CommitUnconfirmed(a)
    BY <1>2 DEF Commit, CommitUnconfirmed, Accepted, Answer, Continue
  <1>3. CASE RollBack(a) \/ RejectIdentifier(a)
    BY <1>3 DEF RollBack, RejectIdentifier
  <1>4. CASE Recheck(a)
    BY <1>4 DEF Recheck, FoundPrior, Accepted, Answer, Continue
  <1>5. CASE LoadGame(a) \/ LoadCheckpoint(a)
    BY <1>5 DEF LoadGame, LoadCheckpoint, Answer, Continue
  <1>6. CASE End(a)
    BY <1>6 DEF End
  <1>7. CASE \E s \in Submissions : Send(a, s)
    BY <1>7 DEF Send
  <1> QED
    BY <1>1, <1>2, <1>3, <1>4, <1>5, <1>6, <1>7 DEF Step

LEMMA InformedStep ==
    ASSUME TypeOK, Numbered, Informed, [Next]_vars
    PROVE  Informed'
  <1>1. Grows
    BY HistoryGrows
  <1>2. ASSUME NEW b \in Attempts, UNCHANGED requests PROVE Known(b)' /\ Told(b)'
    BY <1>1, <1>2, StillInformed DEF requests, Informed
  <1>3. ASSUME NEW a \in Attempts, Apart(a), NEW b \in Attempts \ {a}
        PROVE  Known(b)' /\ Told(b)'
    BY <1>1, <1>3, StillInformed DEF Apart, Informed
  <1>4. ASSUME NEW a \in Attempts, Step(a) PROVE Informed'
    BY <1>3, <1>4, StepInforms, StepsApart DEF Informed
  <1>5. ASSUME NEW a \in Attempts, End(a) PROVE Informed'
    <2>1. phase'[a] = "idle" /\ answer'[a] = "NONE"
      BY <1>5 DEF End, TypeOK, RequestsOK
    <2>2. Known(a)' /\ Told(a)'
      BY <2>1 DEF Known, Told
    <2> QED
      BY <1>3, <1>5, <2>2, StepsApart DEF Informed
  <1>6. ASSUME NEW a \in Attempts, NEW s \in Submissions, Send(a, s) PROVE Informed'
    <2>1. /\ phase[a] = "idle" /\ phase'[a] = "sent" /\ sub'[a] = s
          /\ s.expected <= game.revision /\ UNCHANGED <<history, answer>>
      BY <1>6 DEF Send, stored, TypeOK, RequestsOK
    <2>2. answer'[a] = "NONE"
      BY <2>1 DEF Informed, Told
    <2>3. Known(a)' /\ Told(a)'
      BY <2>1, <2>2 DEF Known, Told, Numbered
    <2> QED
      BY <1>3, <1>6, <2>3, StepsApart DEF Informed
  <1>7. CASE UNCHANGED requests
    BY <1>2, <1>7 DEF Informed
  <1> QED
    BY <1>4, <1>5, <1>6, <1>7 DEF Next, vars, Derive, Publish, DeleteName

-----------------------------------------------------------------------------
(* Theorems *)

LEMMA InitInvariant == Init => IInv
  <1> SUFFICES ASSUME Init PROVE IInv
    OBVIOUS
  <1>1. history = <<>> /\ Len(history) = 0 /\ DOMAIN history = {}
    BY DEF Init
  <1>2. 0 \in Revisions /\ Nothing \in [revision : Revisions, privacy : 0 .. privacy]
    BY <1>1 DEF Init, Revisions, Nothing
  <1>3. TypeOK
    BY <1>1, <1>2, BoundAssumption
       DEF Init, TypeOK, RowsOK, RequestsOK, Statuses, Phases, Codes
  <1>4. Numbered /\ KeysRecordedOnce /\ CurrentCheckpointIsLatest
    BY <1>1 DEF Init, Numbered, KeysRecordedOnce, CurrentCheckpointIsLatest
  <1>5. Informed
    BY DEF Init, Informed, Known, Told
  <1> QED
    BY <1>3, <1>4, <1>5 DEF IInv

LEMMA NextInvariant == IInv /\ [Next]_vars => IInv'
  BY TypeStep, HistoryStep, CheckpointStep, InformedStep DEF IInv

\* The inductive invariant of acceptance.
THEOREM AcceptanceInvariant == Spec => []IInv
  <1>1. Init => IInv
    BY InitInvariant
  <1>2. IInv /\ [Next]_vars => IInv'
    BY NextInvariant
  <1> QED
    BY <1>1, <1>2, PTL DEF Spec

\* Type correctness.
THEOREM TypeCorrect == Spec => []TypeOK
  BY AcceptanceInvariant, PTL DEF IInv

\* However requests overlap and are retried, a key is recorded at most once.
THEOREM RecordedOnce == Spec => []KeysRecordedOnce
  BY AcceptanceInvariant, PTL DEF IInv

\* The current checkpoint is that of the newest event and privacy overlay.
THEOREM CheckpointCorrect == Spec => []CurrentCheckpointIsLatest
  BY AcceptanceInvariant, PTL DEF IInv

\* A SUCCESS is recorded, and a plain submission told that it is stale or that
\* its key is taken is never recorded.
THEOREM AnswersCorrect == Spec => []AnswersHold
  <1>1. IInv => AnswersHold
    <2> SUFFICES ASSUME IInv, NEW a \in Attempts
                 PROVE  /\ answer[a] = "SUCCESS" =>
                              entry[a] \in DOMAIN history /\ Records(history[entry[a]], sub[a])
                        /\ /\ answer[a] \in {"STALE_SOURCE_REVISION", "DUPLICATE_IDEMPOTENCY_KEY"}
                           /\ ~Correction(sub[a])
                           => ~Recorded(sub[a])
      BY DEF AnswersHold
    <2>1. Told(a) /\ KeysRecordedOnce
      BY DEF IInv, Informed
    <2>2. CASE answer[a] = "DUPLICATE_IDEMPOTENCY_KEY"
      <3>1. PICK i \in DOMAIN history :
                history[i].key = sub[a].key /\ ~SameInput(history[i], sub[a])
        BY <2>1, <2>2 DEF Told
      <3> QED
        BY <2>1, <2>2, <3>1 DEF KeysRecordedOnce, Recorded, Records, SameInput
    <2> QED
      BY <2>1, <2>2 DEF Told
  <1> QED
    BY <1>1, AcceptanceInvariant, PTL

\* Acceptance implements the append-only history.
THEOREM HistoryImplemented == Spec => ImplementsHistory
  <1>1. Init => Abstract!Init
    BY DEF Init, Abstract!Init
  <1>2. IInv /\ [Next]_vars => [Abstract!Next]_history
    <2> SUFFICES ASSUME IInv, [Next]_vars PROVE [Abstract!Next]_history
      OBVIOUS
    <2>1. CASE \A a \in Attempts : ~Committing(a)
      BY <2>1, OthersKeepHistory
    <2>2. ASSUME NEW a \in Attempts, Committing(a) PROVE Abstract!Next
      <3>1. Known(a)
        BY DEF IInv, Informed
      <3>2. Abstract!Accept(sub[a]) /\ sub[a] \in Submissions
        BY <2>2, <3>1, WriteAppends DEF IInv, Committing, Abstract!Accept, Abstract!Fresh
      <3> QED
        BY <3>2 DEF Abstract!Next
    <2> QED
      BY <2>1, <2>2
  <1> QED
    BY <1>1, <1>2, AcceptanceInvariant, PTL DEF Spec, ImplementsHistory, Abstract!Spec
-----------------------------------------------------------------------------
(* The rows beside the history *)

\* The recursion of Replayed, as an instance of Recursion.
ReplayFirst(h) == "READY"
ReplayStep(h, status, i) == StatusAfter(status, h[i].type)
Replay == INSTANCE Recursion WITH First <- ReplayFirst, Step <- ReplayStep

\* Replaying one more event takes the status one step on.
LEMMA ReplayedAppend ==
    ASSUME NEW h \in Seq(Submissions), NEW s \in Submissions
    PROVE  Replayed(Append(h, s)) = StatusAfter(Replayed(h), s.type)
  <1> DEFINE longer == Append(h, s)
             n == Len(h)
             l == Len(longer)
  <1>1. /\ n \in Nat /\ l \in 1 .. l /\ l \in Nat /\ n <= l /\ l - 1 = n /\ longer[l] = s
        /\ \A i \in 1 .. n : longer[i] = h[i]
    OBVIOUS
  <1>2. /\ Replayed(h) = Replay!Upto(h, n)[n]
        /\ Replayed(longer) = Replay!Upto(longer, l)[l]
    BY DEF Replayed, Replay!Upto, ReplayFirst, ReplayStep
  <1> HIDE DEF longer, n, l
  <1>3. Replay!Upto(h, n)[n] = Replay!Upto(longer, l)[n]
    <2>1. Replay!SameSteps(h, n, longer, l, n)
      BY <1>1 DEF Replay!SameSteps, ReplayFirst, ReplayStep
    <2>2. n \in Nat /\ l \in Nat /\ n \in 0 .. n
      BY <1>1
    <2> QED
      BY <2>1, <2>2, Replay!UptoAgrees
  <1>4. Replay!Upto(longer, l)[l] = StatusAfter(Replay!Upto(longer, l)[n], s.type)
    BY <1>1, Replay!UptoUnfolds DEF ReplayStep
  <1> QED
    BY <1>2, <1>3, <1>4 DEF longer

LEMMA ReplayedEmpty == Replayed(<<>>) = "READY"
  <1>1. Replayed(<<>>) = Replay!Upto(<<>>, 0)[0]
    BY DEF Replayed, Replay!Upto, ReplayFirst, ReplayStep
  <1> QED
    BY <1>1, Replay!UptoUnfolds DEF ReplayFirst

\* An audit record is of an accepted event, and a request that is about to write on
\* the newest revision holds the capability this revision calls for.
RowsSound ==
    /\ GameRowAgrees
    /\ VerifiedByRightCapability
    /\ \A r \in audits : r.revision \in DOMAIN history
    /\ \A a \in Attempts :
          phase[a] = "writing" /\ seen[a].revision = Len(history) => CapabilityFits(sub[a])

\* A commit writes the status and the audit record that the longer history calls for.
LEMMA CommitKeepsRows ==
    ASSUME IInv, RowsSound, NEW a \in Attempts, Committing(a)
    PROVE  /\ game' = [revision |-> Len(history'), status |-> Replayed(history')]
           /\ VerifiedByRightCapability'
           /\ \A r \in audits' : r.revision \in DOMAIN history'
           /\ Len(history') = Len(history) + 1
  <1> DEFINE s == sub[a]
             n == Len(history)
  <1>1. /\ s \in Submissions /\ s.expected = n /\ history' = Append(history, s)
        /\ history \in Seq(Submissions) /\ n \in Nat
        /\ s.type \in Types
    BY WriteAppends, SubmissionAssumption DEF IInv, Informed, Committing, TypeOK, RowsOK
  <1>2. /\ Len(history') = n + 1 /\ DOMAIN history' = 1 .. n + 1 /\ DOMAIN history = 1 .. n
        /\ history'[n + 1] = s
        /\ \A i \in 1 .. n : history'[i] = history[i]
    BY <1>1
  <1>3. /\ game' = [revision |-> n + 1, status |-> StatusAfter(game.status, s.type)]
        /\ audits' = audits \cup Audit(s, n + 1)
    BY <1>1 DEF Committing, Write
  <1>4. game' = [revision |-> Len(history'), status |-> Replayed(history')]
    BY <1>1, <1>2, <1>3, ReplayedAppend DEF RowsSound, GameRowAgrees
  <1>5. \A r \in Audit(s, n + 1) : r.revision = n + 1
    BY <1>1 DEF Audit, Types
  <1>6. CapabilityFits(s)
    BY DEF IInv, Numbered, Committing, Unchanged, RowsSound
  <1>7. ASSUME NEW r \in audits', history'[r.revision].type = "GameVerified"
        PROVE  r.action = IF \E i \in 1 .. r.revision - 1 : history'[i].type = "GameVerified"
                          THEN "game.reverify" ELSE "game.verify"
    <2>1. CASE r \in audits
      <3>1. r.revision \in 1 .. n /\ \A i \in 1 .. r.revision - 1 : i \in 1 .. n
        BY <1>1, <1>2, <2>1 DEF RowsSound
      <3> QED
        BY <1>2, <1>7, <2>1, <3>1 DEF RowsSound, VerifiedByRightCapability
    <2>2. CASE r \in Audit(s, n + 1)
      <3>1. s.type = "GameVerified" /\ r.revision = n + 1
        BY <1>2, <1>5, <1>7, <2>2
      <3>2. r.action = s.capability
        BY <2>2, <3>1 DEF Audit
      <3>3. s.capability = IF \E i \in 1 .. n : history[i].type = "GameVerified"
                           THEN "game.reverify" ELSE "game.verify"
        BY <1>2, <1>6, <3>1 DEF CapabilityFits
      <3> QED
        BY <1>1, <1>2, <3>1, <3>2, <3>3
    <2> QED
      BY <1>3, <1>7, <2>1, <2>2
  <1>8. \A r \in audits' : r.revision \in DOMAIN history'
    BY <1>1, <1>2, <1>3, <1>5 DEF RowsSound
  <1> QED
    BY <1>2, <1>4, <1>7, <1>8 DEF VerifiedByRightCapability

\* No request finds the Game row and the history in disagreement.
LEMMA NeverInDisagreement ==
    ASSUME IInv, RowsSound, [Next]_vars
    PROVE  \A a \in Attempts : answer'[a] # "IMMUTABLE_HISTORY_VIOLATION"
  <1> USE DEF IInv, TypeOK, RequestsOK
  <1>1. \A a \in Attempts : answer[a] # "IMMUTABLE_HISTORY_VIOLATION"
    BY DEF RowsSound, GameRowAgrees
  <1>2. ASSUME NEW a \in Attempts, NEW code, Answer(a, code), code # "IMMUTABLE_HISTORY_VIOLATION"
        PROVE  \A b \in Attempts : answer'[b] # "IMMUTABLE_HISTORY_VIOLATION"
    BY <1>1, <1>2 DEF Answer
  <1>3. ASSUME NEW a \in Attempts, NEW i, Accepted(a, i) \/ FoundPrior(a, i)
        PROVE  \A b \in Attempts : answer'[b] # "IMMUTABLE_HISTORY_VIOLATION"
    BY <1>1, <1>2, <1>3 DEF Accepted, FoundPrior, Continue
  <1>4. ASSUME NEW a \in Attempts, Refuse(a)
        PROVE  \A b \in Attempts : answer'[b] # "IMMUTABLE_HISTORY_VIOLATION"
    <2>1. game.revision = Len(history) /\ game.status = Replayed(history)
      BY DEF RowsSound, GameRowAgrees
    <2>2. \E code : Answer(a, code) /\ code # "IMMUTABLE_HISTORY_VIOLATION"
      BY <1>4, <2>1 DEF Refuse
    <2> QED
      BY <1>2, <2>2
  <1>5. ASSUME NEW a \in Attempts, Step(a)
        PROVE  \A b \in Attempts : answer'[b] # "IMMUTABLE_HISTORY_VIOLATION"
    <2>1. CASE Read(a)
      BY <1>1, <1>3, <1>4, <2>1 DEF Read, Decide, Continue
    <2>2. CASE Commit(a)
      BY <1>3, <2>2 DEF Commit
    <2>3. CASE CommitUnconfirmed(a)
      BY <1>2, <2>3 DEF CommitUnconfirmed
    <2>4. CASE RollBack(a) \/ RejectIdentifier(a)
      BY <1>1, <2>4 DEF RollBack, RejectIdentifier
    <2>5. CASE Recheck(a)
      <3>1. CASE Priors(sub[a]) # {}
        BY <1>3, <2>5, <3>1 DEF Recheck
      <3>2. CASE Priors(sub[a]) = {}
        BY <1>2, <2>5, <3>2 DEF Recheck
      <3> QED
        BY <3>1, <3>2
    <2>6. CASE LoadGame(a)
      BY <1>1, <1>2, <2>6 DEF LoadGame, Continue
    <2>7. CASE LoadCheckpoint(a)
      BY <1>2, <2>7 DEF LoadCheckpoint
    <2> QED
      BY <1>5, <2>1, <2>2, <2>3, <2>4, <2>5, <2>6, <2>7 DEF Step
  <1>6. ASSUME NEW a \in Attempts, End(a)
        PROVE  \A b \in Attempts : answer'[b] # "IMMUTABLE_HISTORY_VIOLATION"
    BY <1>1, <1>6 DEF End
  <1>7. ASSUME UNCHANGED answer
        PROVE  \A b \in Attempts : answer'[b] # "IMMUTABLE_HISTORY_VIOLATION"
    BY <1>1, <1>7
  <1> QED
    BY <1>5, <1>6, <1>7 DEF Next, vars, requests, Send, Derive, Publish, DeleteName

\* A request that is about to write after a step was so before, or has just read
\* that its submission is acceptable.
LEMMA WritingBefore ==
    ASSUME IInv, [Next]_vars, NEW a \in Attempts, phase'[a] = "writing"
    PROVE  /\ sub'[a] = sub[a]
           /\ \/ phase[a] = "writing" /\ seen'[a] = seen[a]
              \/ Acceptable(sub[a]) /\ UNCHANGED stored
  <1> USE DEF IInv, TypeOK, RequestsOK
  <1>1. ASSUME NEW b \in Attempts, NEW code, Answer(b, code), UNCHANGED sub,
               seen' = seen \/ \E v : seen' = [seen EXCEPT ![b] = v]
        PROVE  sub'[a] = sub[a] /\ phase[a] = "writing" /\ seen'[a] = seen[a]
    BY <1>1 DEF Answer
  <1>2. ASSUME NEW b \in Attempts, NEW next, Continue(b, next), next # "writing",
               UNCHANGED sub, seen' = seen \/ \E v : seen' = [seen EXCEPT ![b] = v]
        PROVE  sub'[a] = sub[a] /\ phase[a] = "writing" /\ seen'[a] = seen[a]
    BY <1>2 DEF Continue
  <1>3. ASSUME NEW b \in Attempts, NEW i, Accepted(b, i) \/ FoundPrior(b, i), UNCHANGED <<sub, seen>>
        PROVE  sub'[a] = sub[a] /\ phase[a] = "writing" /\ seen'[a] = seen[a]
    BY <1>1, <1>2, <1>3 DEF Accepted, FoundPrior
  <1>4. ASSUME NEW b \in Attempts, Step(b)
        PROVE  /\ sub'[a] = sub[a]
               /\ \/ phase[a] = "writing" /\ seen'[a] = seen[a]
                  \/ Acceptable(sub[a]) /\ UNCHANGED stored
    <2>1. CASE Read(b)
      <3>1. CASE \E i : FoundPrior(b, i) /\ UNCHANGED seen
        BY <1>3, <2>1, <3>1 DEF Read
      <3>2. CASE Refuse(b)
        BY <1>1, <2>1, <3>2 DEF Read, Refuse
      <3>3. CASE /\ Acceptable(sub[b])
                 /\ \E v : seen' = [seen EXCEPT ![b] = v]
                 /\ Continue(b, "writing")
        BY <2>1, <3>3 DEF Read, Continue
      <3> QED
        BY <2>1, <3>1, <3>2, <3>3 DEF Read, Decide
    <2>2. CASE Commit(b)
      BY <1>3, <2>2 DEF Commit
    <2>3. CASE CommitUnconfirmed(b)
      BY <1>1, <2>3 DEF CommitUnconfirmed
    <2>4. CASE RollBack(b) \/ RejectIdentifier(b)
      BY <2>4 DEF RollBack, RejectIdentifier
    <2>5. CASE Recheck(b)
      <3>1. CASE Priors(sub[b]) # {}
        BY <1>3, <2>5, <3>1 DEF Recheck
      <3>2. CASE Priors(sub[b]) = {}
        BY <1>1, <2>5, <3>2 DEF Recheck
      <3> QED
        BY <3>1, <3>2
    <2>6. CASE LoadGame(b)
      BY <1>1, <1>2, <2>6 DEF LoadGame
    <2>7. CASE LoadCheckpoint(b)
      BY <1>1, <2>7 DEF LoadCheckpoint
    <2> QED
      BY <1>4, <2>1, <2>2, <2>3, <2>4, <2>5, <2>6, <2>7 DEF Step
  <1>5. ASSUME NEW b \in Attempts, End(b)
        PROVE  sub'[a] = sub[a] /\ phase[a] = "writing" /\ seen'[a] = seen[a]
    BY <1>5 DEF End
  <1>6. ASSUME NEW b \in Attempts, NEW s \in Submissions, Send(b, s)
        PROVE  sub'[a] = sub[a] /\ phase[a] = "writing" /\ seen'[a] = seen[a]
    BY <1>6 DEF Send
  <1>7. CASE UNCHANGED requests
    BY <1>7 DEF requests
  <1> QED
    BY <1>4, <1>5, <1>6, <1>7 DEF Next, vars, Derive, Publish, DeleteName

\* A request that decided on the newest revision holds the capability that this
\* revision calls for: a commit leaves none, for every snapshot is then behind.
LEMMA DecidedFits ==
    ASSUME IInv, RowsSound, [Next]_vars, NEW a \in Attempts,
           phase'[a] = "writing", seen'[a].revision = Len(history')
    PROVE  CapabilityFits(sub[a])'
  <1>1. history \in Seq(Submissions) /\ Len(history) \in Nat /\ seen[a].revision \in 0 .. Len(history)
    BY DEF IInv, TypeOK, RowsOK, RequestsOK, Revisions
  <1>2. CASE Len(history') = Len(history) + 1
    <2>1. ~UNCHANGED stored
      BY <1>1, <1>2 DEF stored
    <2>2. seen'[a] = seen[a]
      BY <2>1, WritingBefore
    <2> QED
      BY <1>1, <1>2, <2>2
  <1>3. CASE history' = history
    <2>1. sub'[a] = sub[a] /\ CapabilityFits(sub[a])
      <3>1. CASE Acceptable(sub[a])
        BY <3>1, WritingBefore DEF Acceptable
      <3>2. CASE phase[a] = "writing" /\ seen'[a] = seen[a]
        BY <1>3, <3>2, WritingBefore DEF RowsSound
      <3> QED
        BY <3>1, <3>2, WritingBefore
    <2> QED
      BY <1>3, <2>1 DEF CapabilityFits
  <1>4. Len(history') = Len(history) + 1 \/ history' = history
    <2>1. CASE \E b \in Attempts : Committing(b)
      BY <2>1, CommitKeepsRows
    <2>2. CASE \A b \in Attempts : ~Committing(b)
      BY <2>2, OthersKeepHistory
    <2> QED
      BY <2>1, <2>2
  <1> QED
    BY <1>2, <1>3, <1>4

LEMMA InitRows == Init => RowsSound
  BY ReplayedEmpty DEF Init, RowsSound, GameRowAgrees, VerifiedByRightCapability

LEMMA NextRows == IInv /\ RowsSound /\ [Next]_vars => RowsSound'
  <1> SUFFICES ASSUME IInv, RowsSound, [Next]_vars PROVE RowsSound'
    OBVIOUS
  <1>1. \A a \in Attempts :
           phase'[a] = "writing" /\ seen'[a].revision = Len(history') => CapabilityFits(sub[a])'
    BY DecidedFits
  <1>2. \A a \in Attempts : answer'[a] # "IMMUTABLE_HISTORY_VIOLATION"
    BY NeverInDisagreement
  <1>3. CASE \E a \in Attempts : Committing(a)
    <2>1. PICK a \in Attempts : Committing(a)
      BY <1>3
    <2> QED
      BY <1>1, <1>2, <2>1, CommitKeepsRows DEF RowsSound, GameRowAgrees
  <1>4. CASE \A a \in Attempts : ~Committing(a)
    <2>1. UNCHANGED <<history, game, audits>>
      BY <1>4, OthersKeepHistory
    <2> QED
      BY <1>1, <1>2, <2>1 DEF RowsSound, GameRowAgrees, VerifiedByRightCapability
  <1> QED
    BY <1>3, <1>4

\* The Game row and the audit records beside an event say what the history says:
\* no request finds them in disagreement, and each verification was authorized
\* by the capability that its place in the history calls for.
THEOREM RowsCorrect == Spec => []RowsAgree
  <1>1. Init => IInv /\ RowsSound
    BY InitInvariant, InitRows
  <1>2. IInv /\ RowsSound /\ [Next]_vars => IInv' /\ RowsSound'
    BY NextInvariant, NextRows
  <1>3. RowsSound => RowsAgree
    BY DEF RowsSound, RowsAgree
  <1> QED
    BY <1>1, <1>2, <1>3, PTL DEF Spec

=============================================================================
