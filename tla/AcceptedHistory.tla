-------------------------- MODULE AcceptedHistory --------------------------
(***************************************************************************)
(* What event acceptance promises about the history of one game: it only   *)
(* grows, one event at a time, each recorded for the revision its scorer   *)
(* was looking at, and no idempotency key is recorded twice.               *)
(***************************************************************************)
EXTENDS Naturals, Sequences

CONSTANT Submissions   \* what scorers may submit: records with the fields
                       \* key and expected, among others

VARIABLE history       \* the submissions accepted so far, oldest first

Init == history = <<>>

Fresh(s) == \A i \in DOMAIN history : history[i].key # s.key

Accept(s) ==
    /\ s.expected = Len(history)
    /\ Fresh(s)
    /\ history' = Append(history, s)

Next == \E s \in Submissions : Accept(s)

Spec == Init /\ [][Next]_history
=============================================================================
