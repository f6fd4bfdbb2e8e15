-------------------------- MODULE ExternalIngestion --------------------------
(***************************************************************************)
(* Ingestion of an external provider's records                             *)
(* (src/server/app/external-ingestion-service.ts and its repository).      *)
(*                                                                         *)
(* A run walks the pages of the provider's feed from the checkpoint of the *)
(* source and stages every record: published, or quarantined when it does  *)
(* not declare the published version as the one it corrects.  Runs have    *)
(* keys of their own and nothing keeps two of them from overlapping; a run *)
(* may die between any two of its statements.                              *)
(*                                                                         *)
(* The feed is the history of one record, version by version, one to a     *)
(* page; a version may declare no predecessor, repeat the contents of the  *)
(* one before, or be malformed.  Abstracted: approval, cadence and quota   *)
(* of the source, the page limit, counters of the run.                     *)
(***************************************************************************)
EXTENDS Naturals

CONSTANTS
    Runs,       \* run keys the scheduler uses
    MaxVersion, \* bound: versions the provider publishes
    MaxWait,    \* bound: the longest retry delay, in units of 30 s
    MaxFaults,  \* bound: provider failures, database failures and deaths of runs
    None

VARIABLES
    feed,       \* what the provider declares of each version
    latest,     \* the newest version it serves
    source,     \* [checkpoint, failures, wait]: wait is the delay left
    run,        \* the rows of the runs
    work,       \* where the process of a run stands
    record,     \* the staged rows by version
    malformed,  \* versions staged only as "INVALID", with their digest
    faults,
    overlapped  \* history variable: two runs have been under way at once

vars == <<feed, latest, source, run, work, record, malformed, faults, overlapped>>

Versions == 1 .. MaxVersion
Kinds    == {"CORRECTION", "NO_PREDECESSOR", "RENUMBERED", "MALFORMED"}

Statuses == {"PUBLISHED", "SUPERSEDED", "QUARANTINED"}
Stored(v)       == record[v] # None
Is(v, status)   == Stored(v) /\ record[v].status = status
Published       == {v \in Versions : Is(v, "PUBLISHED")}
Walking         == {r \in Runs : work[r].at \notin {"idle", "ended"}}

TypeOK ==
    /\ feed \in [Versions -> Kinds] /\ latest \in 0 .. MaxVersion
    /\ source \in [checkpoint : 0 .. MaxVersion, failures : Nat, wait : 0 .. MaxWait]
    /\ run \in [Runs -> {None, "RUNNING", "SUCCEEDED", "FAILED"}]
    /\ \A v \in Versions : Stored(v) =>
          record[v] \in [status : Statuses, correctionOf : Versions \cup {None}]
    /\ malformed \subseteq Versions

Idle == [at |-> "idle", cursor |-> 0, prior |-> None, failures |-> 0]

Init ==
    /\ feed \in [Versions -> Kinds] /\ latest = 0
    /\ source = [checkpoint |-> 0, failures |-> 0, wait |-> 0]
    /\ run = [r \in Runs |-> None] /\ work = [r \in Runs |-> Idle]
    /\ record = [v \in Versions |-> None] /\ malformed = {}
    /\ faults = 0 /\ overlapped = FALSE

-----------------------------------------------------------------------------
(* The provider and the clock *)

ProviderPublishes ==
    /\ latest < MaxVersion /\ latest' = latest + 1
    /\ UNCHANGED <<feed, source, run, work, record, malformed, faults, overlapped>>

TimePasses ==
    /\ source.wait > 0 /\ source' = [source EXCEPT !.wait = @ - 1]
    /\ UNCHANGED <<feed, latest, run, work, record, malformed, faults, overlapped>>

-----------------------------------------------------------------------------
(* A run *)

\* A run key that has a row answers with it, whatever became of that run.
StartRun(r) ==
    /\ source.wait = 0
    /\ run[r] = None
    /\ run' = [run EXCEPT ![r] = "RUNNING"]
    /\ work' = [work EXCEPT ![r] = [Idle EXCEPT !.at = "fetching",
                                                !.cursor = source.checkpoint,
                                                !.failures = source.failures]]
    /\ overlapped' = (overlapped \/ Walking # {})
    /\ UNCHANGED <<feed, latest, source, record, malformed, faults>>

FetchPage(r) ==
    /\ work[r].at = "fetching"
    /\ work' = IF work[r].cursor < latest
               THEN [work EXCEPT ![r].at = "reading", ![r].cursor = @ + 1]
               ELSE [work EXCEPT ![r].at = "succeeding"]
    /\ UNCHANGED <<feed, latest, source, run, record, malformed, faults, overlapped>>

NextPage(r) == work' = [work EXCEPT ![r].at = "fetching"]

\* storeRecord looks for the version and for the published one.
ReadRecord(r) ==
    LET v == work[r].cursor
    IN  /\ work[r].at = "reading" /\ feed[v] # "MALFORMED"
        /\ IF Stored(v) THEN NextPage(r)
           ELSE \E prior \in IF Published = {} THEN {None} ELSE Published :
                  work' = [work EXCEPT ![r].at = "writing", ![r].prior = prior]
        /\ UNCHANGED <<feed, latest, source, run, record, malformed, faults, overlapped>>

Predecessor(v) == IF feed[v] = "NO_PREDECESSOR" \/ v = 1 THEN None ELSE v - 1
AnyLineage(v, prior)  == FALSE
OutOfLineage(v, prior) ==
    prior # None /\ (prior # Predecessor(v) \/ (prior = v - 1 /\ feed[v] = "RENUMBERED"))

PriorStays(v, prior) ==
    [record EXCEPT ![v] = [status |-> "PUBLISHED", correctionOf |-> prior]]
Staged(v, prior) ==
    [w \in Versions |->
        CASE w = v /\ OutOfLineage(v, prior) ->
                [status |-> "QUARANTINED", correctionOf |-> None]
          [] w = v /\ ~OutOfLineage(v, prior) ->
                [status |-> "PUBLISHED", correctionOf |-> prior]
          [] w # v /\ w = prior /\ ~OutOfLineage(v, prior) ->
                [record[w] EXCEPT !.status = "SUPERSEDED"]
          [] OTHER -> record[w]]

\* The version is unique: a run that lost the race for it takes its own
\* exception for a malformed record.
WriteRecord(r) ==
    LET v == work[r].cursor
    IN  /\ work[r].at = "writing"
        /\ IF Stored(v) THEN malformed' = malformed \cup {v} /\ UNCHANGED record
           ELSE record' = Staged(v, work[r].prior) /\ UNCHANGED malformed
        /\ NextPage(r)
        /\ UNCHANGED <<feed, latest, source, run, faults, overlapped>>

QuarantineInvalid(r) ==
    /\ work[r].at = "reading" /\ feed[work[r].cursor] = "MALFORMED"
    /\ malformed' = malformed \cup {work[r].cursor}
    /\ NextPage(r)
    /\ UNCHANGED <<feed, latest, source, run, record, faults, overlapped>>

\* Any exception of storeRecord is handled like that of a malformed record.
StoreFails(r) ==
    /\ work[r].at = "writing" /\ faults < MaxFaults /\ faults' = faults + 1
    /\ malformed' = malformed \cup {work[r].cursor}
    /\ NextPage(r)
    /\ UNCHANGED <<feed, latest, source, run, record, overlapped>>

Succeed(r) ==
    /\ work[r].at = "succeeding"
    /\ run' = [run EXCEPT ![r] = "SUCCEEDED"]
    /\ source' = [checkpoint |-> work[r].cursor, failures |-> 0, wait |-> 0]
    /\ work' = [work EXCEPT ![r].at = "ended"]
    /\ UNCHANGED <<feed, latest, record, malformed, faults, overlapped>>

\* 30 s doubled with every failure, up to the longest delay.
Delay(failures) ==
    LET doubled[n \in 0 .. failures] == IF n = 0 THEN 1 ELSE 2 * doubled[n - 1]
    IN  IF doubled[failures] < MaxWait THEN doubled[failures] ELSE MaxWait

KeepsProgress(r) == work[r].cursor
KeepsCheckpoint(r) == source.checkpoint

\* The provider does not answer or a statement fails; the source keeps its
\* checkpoint and backs off by the failures the run saw when it started.
Fail(r) ==
    /\ work[r].at \in {"fetching", "reading", "writing", "succeeding"}
    /\ faults < MaxFaults /\ faults' = faults + 1
    /\ run' = [run EXCEPT ![r] = "FAILED"]
    /\ source' = [checkpoint |-> KeepsCheckpoint(r), failures |-> source.failures + 1,
                  wait |-> Delay(work[r].failures)]
    /\ work' = [work EXCEPT ![r].at = "ended"]
    /\ UNCHANGED <<feed, latest, record, malformed, overlapped>>

\* The process dies: the row stays RUNNING and answers for its key.
Die(r) ==
    /\ r \in Walking /\ faults < MaxFaults /\ faults' = faults + 1
    /\ work' = [work EXCEPT ![r].at = "ended"]
    /\ UNCHANGED <<feed, latest, source, run, record, malformed, overlapped>>

Next ==
    \/ ProviderPublishes \/ TimePasses
    \/ \E r \in Runs :
          \/ StartRun(r) \/ FetchPage(r) \/ ReadRecord(r) \/ WriteRecord(r)
          \/ QuarantineInvalid(r) \/ StoreFails(r) \/ Succeed(r) \/ Fail(r) \/ Die(r)

Spec == Init /\ [][Next]_vars

-----------------------------------------------------------------------------
(* Properties *)

\* Whatever failed, died or overlapped on the way, every version the checkpoint
\* has passed is staged: published, superseded or in quarantine.
NothingSkipped ==
    \A v \in 1 .. source.checkpoint : Stored(v) \/ v \in malformed

\* Each published or superseded version but the first continues the version it
\* declares, a superseded version has exactly one successor, and no version is
\* superseded that was not published: the lineage is a chain, even when runs
\* raced for it.
Chain ==
    \A v \in Versions :
        /\ Is(v, "PUBLISHED") \/ Is(v, "SUPERSEDED") =>
              record[v].correctionOf \in {None, Predecessor(v)}
        /\ Is(v, "SUPERSEDED") =>
              \E w \in Versions : Stored(w) /\ record[w].correctionOf = v

\* One version of the record is current, as long as no two runs were under way
\* at once (two that were can both publish a first version).
OnePublished ==
    ~overlapped => \A v, w \in Published : v = w
=============================================================================
