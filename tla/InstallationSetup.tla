-------------------------- MODULE InstallationSetup --------------------------
(***************************************************************************)
(* First-launch set-up                                                     *)
(* (src/server/app/installation-setup-service.ts,                          *)
(* src/server/data/installation-setup-repository.ts).                      *)
(*                                                                         *)
(* begin, bootstrap, mark and complete are transactions under one lock.    *)
(* configure is not: it reads the status, then the configuration, writes a *)
(* revision and only then moves the status on, and a process may die       *)
(* between any two of these.  Abstracted: of the readiness checks only the *)
(* one of the configuration has a state here, the others hold or not.      *)
(***************************************************************************)
EXTENDS ConfigurationRevisions

CONSTANTS
    Administrators,   \* users who have signed in
    MaxCrashes        \* bound

VARIABLES
    setup,      \* the row: [status, admin]
    knownReady, \* processes that remember that the status is READY
    crashes

setupVars == <<configurationVars, setup, knownReady, crashes>>

Ranks == [NOT_STARTED |-> 0, BOOTSTRAP_IN_PROGRESS |-> 1, ADMIN_CREATED |-> 2,
          CONFIGURATION_REQUIRED |-> 3, READY |-> 4]

SetupTypeOK ==
    /\ ConfigurationTypeOK
    /\ setup \in [status : DOMAIN Ranks, admin : Administrators \cup {None}]
    /\ knownReady \subseteq Processes

\* A plan with a call of the wizard starts before set-up, another after it.
FirstLaunch == \E c \in Calls : plan[c] \in {"configure", "complete"}

SetupInit ==
    /\ ConfigurationInit
    /\ IF FirstLaunch
       THEN setup = [status |-> "NOT_STARTED", admin |-> None] /\ knownReady = {}
       ELSE /\ setup = [status |-> "READY", admin |-> CHOOSE u \in Administrators : TRUE]
            /\ knownReady = Processes
    /\ crashes = 0

\* begin, by the page of the wizard
Begin ==
    /\ setup.status = "NOT_STARTED"
    /\ setup' = [setup EXCEPT !.status = "BOOTSTRAP_IN_PROGRESS"]
    /\ UNCHANGED <<configurationVars, knownReady, crashes>>

AnyoneEstablished(u) == setup.status \in {"BOOTSTRAP_IN_PROGRESS", "ADMIN_CREATED"}
Establishes(u)       == setup.status = "BOOTSTRAP_IN_PROGRESS"

\* A repeated bootstrap by the administrator answers, one by another is refused.
Bootstrap(u) ==
    /\ Establishes(u)
    /\ setup' = [status |-> "ADMIN_CREATED", admin |-> u]
    /\ UNCHANGED <<configurationVars, knownReady, crashes>>

-----------------------------------------------------------------------------
(* configure *)

Requested(c, p, v, at, n) ==
    call' = [call EXCEPT ![c] = [at |-> at, process |-> p, values |-> v, expected |-> n,
                                 revision |-> Current, started |-> time]]

\* The status is read, then the head by runtime: from the copy, or from the
\* database and into the copy.
StartConfigure(c, p, v) ==
    /\ plan[c] = "configure" /\ call[c].at = "unstarted" /\ setup.status = "ADMIN_CREATED"
    /\ IF Cached(p) THEN Requested(c, p, v, "configuring", cache[p].revision)
       ELSE Requested(c, p, v, "filling", Current)
    /\ UNCHANGED <<revisions, cache, plan, time, setup, knownReady, crashes>>

FillForConfigure(c) ==
    /\ plan[c] = "configure" /\ call[c].at = "filling"
    /\ cache' = [cache EXCEPT ![call[c].process] =
          [revision |-> call[c].expected, values |-> ValuesOf(call[c].expected),
           expiresAt |-> call[c].started + CacheTtl]]
    /\ Moves(c, "configuring")
    /\ UNCHANGED <<revisions, plan, time, setup, knownReady, crashes>>

\* A revision it knows of is saved upon, an account it believes to have none is
\* seeded: with no effect when it has one by now.
WriteConfigure(c) ==
    LET n == call[c].expected
        v == call[c].values
    IN  /\ call[c].at = "configuring"
        /\ IF n = 0
           THEN /\ revisions' = Seeded(v)
                /\ Moves(c, "invalidating")
           ELSE /\ UNCHANGED revisions
                /\ Moves(c, IF n = Current /\ v # ValuesOf(n) THEN "writing" ELSE "ended")
        /\ UNCHANGED <<cache, plan, time, setup, knownReady, crashes>>

InvalidateConfigure(c) ==
    /\ plan[c] = "configure" /\ Invalidate(c, "marking")
    /\ UNCHANGED <<setup, knownReady, crashes>>

MarkConfigurationRequired(c) ==
    /\ call[c].at = "marking" /\ Moves(c, "ended")
    /\ setup' = IF setup.status = "ADMIN_CREATED"
                THEN [setup EXCEPT !.status = "CONFIGURATION_REQUIRED"] ELSE setup
    /\ UNCHANGED <<revisions, cache, plan, time, knownReady, crashes>>

-----------------------------------------------------------------------------
(* complete, isReady and crashes *)

\* The checks look at the configuration before the transaction, by runtime; the
\* copy that one leaves is that of a runtime call.
StartComplete(c, p) ==
    /\ plan[c] = "complete" /\ call[c].at = "unstarted"
    /\ setup.admin # None /\ setup.status # "READY"
    /\ Requested(c, p, Default,
          IF (IF Cached(p) THEN cache[p].revision ELSE Current) > 0 THEN "completing" ELSE "ended", 0)
    /\ UNCHANGED <<revisions, cache, plan, time, setup, knownReady, crashes>>

CompletableEarly == setup.status \in {"ADMIN_CREATED", "CONFIGURATION_REQUIRED"}
Completable      == setup.status = "CONFIGURATION_REQUIRED"

Complete(c) ==
    /\ call[c].at = "completing" /\ Moves(c, "ended")
    /\ setup' = IF Completable THEN [setup EXCEPT !.status = "READY"] ELSE setup
    /\ knownReady' = IF setup'.status = "READY" THEN knownReady \cup {call[c].process} ELSE knownReady
    /\ UNCHANGED <<revisions, cache, plan, time, crashes>>

IsReady(p) ==
    /\ setup.status = "READY" /\ knownReady' = knownReady \cup {p}
    /\ UNCHANGED <<configurationVars, setup, crashes>>

CrashProcess(p) ==
    /\ crashes < MaxCrashes /\ crashes' = crashes + 1
    /\ cache' = [cache EXCEPT ![p] = None] /\ knownReady' = knownReady \ {p}
    /\ call' = [c \in Calls |-> IF call[c].process = p THEN [call[c] EXCEPT !.at = "ended"]
                                ELSE call[c]]
    /\ UNCHANGED <<revisions, plan, time, setup>>

SetupNext ==
    \/ ConfigurationNext /\ UNCHANGED <<setup, knownReady, crashes>>
    \/ Begin \/ \E u \in Administrators : Bootstrap(u)
    \/ \E c \in Calls :
          \/ FillForConfigure(c) \/ WriteConfigure(c) \/ InvalidateConfigure(c)
          \/ MarkConfigurationRequired(c) \/ Complete(c)
          \/ \E p \in Processes :
                StartComplete(c, p) \/ \E v \in Values : StartConfigure(c, p, v)
    \/ \E p \in Processes : IsReady(p) \/ CrashProcess(p)

SetupSpec == SetupInit /\ [][SetupNext]_setupVars

-----------------------------------------------------------------------------
(* Properties *)

\* Set-up moves forward and keeps its first administrator, whoever else repeats a
\* step; once it has left the step of the configuration there is one, whatever
\* copies the processes hold and wherever they died.
SetupIsKept ==
    [][/\ Ranks[setup'.status] >= Ranks[setup.status]
       /\ setup.admin # None => setup'.admin = setup.admin]_setupVars
ReadyIsConfigured ==
    FirstLaunch /\ Ranks[setup.status] >= Ranks["CONFIGURATION_REQUIRED"] => setup.admin # None /\ Current > 0
=============================================================================
