------------------------- MODULE MCDiscordUpdates --------------------------
(***************************************************************************)
(* Instances of DiscordUpdates for TLC.                                    *)
(***************************************************************************)
EXTENDS DiscordUpdates, TLC

\* One signal per revision: a play, then the end of the game.
InOrderSignals == {[source |-> 1, trigger |-> "SCORE_CHANGED"],
                   [source |-> 2, trigger |-> "GAME_COMPLETED"]}
None0 == [f \in Faults |-> 0]
Case(strategy, cadence, bound) == [strategy |-> strategy, cadence |-> cadence, bound |-> bound]
Live_(bound) == Case("EDIT_LIVE_MESSAGE", "EVENT_DRIVEN", bound)

\* Every strategy and cadence on an undisturbed worker; live edits with a refresh and a
\* change of settings; a worker that dies or is given up; two that overlap.
AllCases ==
    {Case(s, c, None0) : s \in {"EDIT_LIVE_MESSAGE", "APPEND_EVENTS", "FINAL_ONLY", "PERIODIC_SUMMARY"},
                         c \in {"EVENT_DRIVEN", "FIXED_INTERVAL"}}
    \cup {Case("FINAL_ONLY", "MANUAL_ONLY", [None0 EXCEPT !["refreshes"] = 1]),
          Live_([None0 EXCEPT !["changes"] = 1]),
          Live_([None0 EXCEPT !["crashes"] = 1]),
          Live_([None0 EXCEPT !["aborts"] = 1])}
    \cup {Live_("overlaps" :> 1 @@ "stalls" :> 1 @@ None0)}
=============================================================================
