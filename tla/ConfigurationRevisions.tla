------------------------ MODULE ConfigurationRevisions ------------------------
(***************************************************************************)
(* The configuration of an account: its revisions in the database and the  *)
(* copies the processes of the application keep                            *)
(* (src/server/data/application-configuration-repository.ts,               *)
(* src/server/app/application-configuration-service.ts).                   *)
(*                                                                         *)
(* A call runs in a process and may be overtaken wherever it awaits the    *)
(* database.  The repository writes under an advisory lock, so a write is  *)
(* one step.  Revision 0 stands for an account without configuration and   *)
(* the default values.                                                     *)
(***************************************************************************)
EXTENDS Naturals, Sequences

CONSTANTS
    Processes, Values, Default,
    CacheTtl,      \* the 30 s a copy lasts
    CallTime,      \* assumption: a call is over within CallTime
    LastInstant,   \* bound
    Plans,         \* bound: the kinds of the calls of a behaviour
    None

VARIABLES
    revisions,   \* [values, basedOn, createdAt] of the revisions of the account
    cache,       \* the copy of each process: [revision, values, expiresAt]
    plan, call,  \* the calls of this behaviour and where they stand
    time

configurationVars == <<revisions, cache, plan, call, time>>

Current     == Len(revisions)
ValuesOf(n) == IF n = 0 THEN Default ELSE revisions[n].values
Cached(p)   == cache[p] # None /\ cache[p].expiresAt > time

Unstarted == [at |-> "unstarted", process |-> None, values |-> Default, expected |-> 0,
              revision |-> 0, started |-> 0]
Calls     == DOMAIN plan

ConfigurationTypeOK ==
    /\ \A n \in 1 .. Current : revisions[n].values \in Values /\ revisions[n].createdAt <= time
    /\ \A p \in Processes : cache[p] # None =>
          /\ cache[p].revision <= Current
          /\ cache[p].values = ValuesOf(cache[p].revision)
    /\ \A c \in Calls : call[c].at \in
          {"unstarted", "filling", "writing", "invalidating", "configuring", "marking",
           "completing", "ended"}

ConfigurationInit ==
    /\ revisions = <<>> /\ cache = [p \in Processes |-> None]
    /\ plan \in Plans /\ call = [c \in DOMAIN plan |-> Unstarted] /\ time = 0

Start(c, p, at, v, n) ==
    /\ call[c].at = "unstarted"
    /\ call' = [call EXCEPT ![c] = [at |-> at, process |-> p, values |-> v, expected |-> n,
                                    revision |-> Current, started |-> time]]
Moves(c, at) == call' = [call EXCEPT ![c].at = at]

-----------------------------------------------------------------------------
(* Copies: runtime, refresh, preload *)

\* runtime misses its copy and reads the head; a copy that is there is answered
\* without a step.
ReadHead(c, p) ==
    /\ plan[c] = "runtime" /\ ~Cached(p)
    /\ Start(c, p, "filling", ValuesOf(Current), 0)
    /\ UNCHANGED <<revisions, cache, plan, time>>

Refresh(c, p) ==
    /\ plan[c] = "refresh"
    /\ Start(c, p, "filling", ValuesOf(Current), 0)
    /\ cache' = [cache EXCEPT ![p] = None]
    /\ UNCHANGED <<revisions, plan, time>>

ReadForPreload(c, p) ==
    /\ plan[c] = "preload" /\ Current > 0
    /\ Start(c, p, "filling", ValuesOf(Current), 0)
    /\ UNCHANGED <<revisions, cache, plan, time>>

\* runtime counts from before it read, preload from after.
NeverExpires(c) == LastInstant + 1
ExpiresAt(c) == (IF plan[c] = "preload" THEN time ELSE call[c].started) + CacheTtl

Copy(c) == [revision |-> call[c].revision, values |-> call[c].values, expiresAt |-> ExpiresAt(c)]
FillCache(c) ==
    /\ call[c].at = "filling" /\ plan[c] \in {"runtime", "refresh", "preload"}
    /\ cache' = [cache EXCEPT ![call[c].process] = Copy(c)]
    /\ Moves(c, "ended")
    /\ UNCHANGED <<revisions, plan, time>>

-----------------------------------------------------------------------------
(* Writes: save, rollback, seed *)

\* The revision a page was opened with is any there has been.
ReadForSave(c, p, v, n) ==
    /\ plan[c] = "save" /\ Current > 0
    /\ Start(c, p, IF n = Current /\ v # ValuesOf(n) THEN "writing" ELSE "ended", v, n)
    /\ UNCHANGED <<revisions, cache, plan, time>>

ReadForRollback(c, p, target, n) ==
    /\ plan[c] = "rollback" /\ target < n
    /\ Start(c, p, "writing", ValuesOf(target), n)
    /\ UNCHANGED <<revisions, cache, plan, time>>

ExpectedAny(n)     == Current > 0
ExpectedCurrent(n) == Current > 0 /\ n = Current

WriteRevision(c) ==
    /\ call[c].at = "writing"
    /\ IF ExpectedCurrent(call[c].expected)
       THEN /\ revisions' = Append(revisions, [values |-> call[c].values,
                                basedOn |-> call[c].expected, createdAt |-> time])
            /\ Moves(c, "invalidating")
       ELSE Moves(c, "ended") /\ UNCHANGED revisions
    /\ UNCHANGED <<cache, plan, time>>

\* An account that has a configuration keeps it.
SeededAnew(v) == <<[values |-> v, basedOn |-> 0, createdAt |-> time]>>
Seeded(v) ==
    IF Current > 0 THEN revisions
    ELSE SeededAnew(v)

Seed(c, p, v) ==
    /\ plan[c] = "seed"
    /\ Start(c, p, "invalidating", v, 0)
    /\ revisions' = Seeded(v)
    /\ UNCHANGED <<cache, plan, time>>

Invalidate(c, at) ==
    /\ call[c].at = "invalidating"
    /\ cache' = [cache EXCEPT ![call[c].process] = None]
    /\ Moves(c, at)
    /\ UNCHANGED <<revisions, plan, time>>

TimePasses ==
    /\ time < LastInstant
    /\ \A c \in Calls : call[c].at \notin {"unstarted", "ended"} => time < call[c].started + CallTime
    /\ time' = time + 1
    /\ UNCHANGED <<revisions, cache, plan, call>>

ConfigurationNext ==
    \/ TimePasses
    \/ \E c \in Calls :
          \/ FillCache(c) \/ WriteRevision(c)
          \/ plan[c] # "configure" /\ Invalidate(c, "ended")
          \/ \E p \in Processes :
                \/ ReadHead(c, p) \/ Refresh(c, p) \/ ReadForPreload(c, p)
                \/ \E v \in Values :
                      Seed(c, p, v) \/ \E n \in 1 .. Current : ReadForSave(c, p, v, n)
                \/ \E n \in 1 .. Current, target \in 1 .. Current : ReadForRollback(c, p, target, n)

ConfigurationSpec == ConfigurationInit /\ [][ConfigurationNext]_configurationVars

-----------------------------------------------------------------------------
(* Properties *)

\* Every revision was prepared against the one before it: of two administrators
\* who opened the same revision the later to save is refused, also when both had
\* passed the check before the write.
NoLostUpdate == \A n \in 1 .. Current : revisions[n].basedOn = n - 1

\* A process answers with a revision that was replaced less than the lifetime of
\* a copy ago, or with a preload the duration of a call longer.
CopyIsRecent ==
    \A p \in Processes :
        Cached(p) /\ cache[p].revision < Current
        => time < revisions[cache[p].revision + 1].createdAt + CacheTtl + CallTime
=============================================================================
