-------------------------- MODULE CollectorJournal --------------------------
(***************************************************************************)
(* The market-data collector (services/market-data: spool.rs, and cycle,   *)
(* deliver and run of collector.rs) and the two ClickHouse tables it       *)
(* writes, of which it owns the rows of its collector_id.                  *)
(*                                                                         *)
(* The collector is one task; a step here ends at each await on ClickHouse *)
(* or at a save of the journal, because that is where it can be stopped or *)
(* fail.  At "start" a cycle begins, or goes on after a step that leaves    *)
(* nothing else to do: it delivers what is pending, and collects if        *)
(* nothing is.  `journal` is the copy in memory and `disk` the file it is loaded *)
(* from.  An observation is a market and the snapshot it was taken in, a   *)
(* row keeps the batch it was last inserted in (ReplacingMergeTree with    *)
(* FINAL) and whether it has its raw payload.                              *)
(***************************************************************************)
EXTENDS Naturals, FiniteSets

CONSTANTS
    Markets,
    SaveMayFail,  \* the calls of spool.save that may fail
    MaxSnapshots, \* bound: batches the collector stages
    MaxFailures,  \* bound: calls that fail, or whose reply is lost
    MaxCrashes    \* bound: stops of the collector

ASSUME JournalAssumption ==
    /\ IsFiniteSet(Markets)
    /\ SaveMayFail \subseteq {"stage", "acknowledge"}
    /\ MaxSnapshots \in Nat /\ MaxFailures \in Nat /\ MaxCrashes \in Nat

VARIABLES
    journal,  \* Spool.journal
    disk,     \* journal.json
    cycle,    \* what Collector.cycle does next
    rows,     \* market_observations
    markers,  \* ingestion_batches: the row_count of each batch, 0 without a marker
    taken,    \* snapshots taken
    failures, \* calls that failed
    crashes   \* stops of the collector

store == <<rows, markers>>
collector == <<journal, disk, cycle, taken>>
collectorVars == <<collector, store, failures, crashes>>

Batches == 1..MaxSnapshots
Observations == Markets \X Batches
Journals == [batch : Batches \cup {0}, pending : SUBSET Observations]
NoRow == [batch |-> 0, raw |-> FALSE]
Steps == {"start", "mark", "acknowledge"}

Fails ==
    /\ failures < MaxFailures
    /\ failures' = failures + 1

\* The file is replaced by a rename: a save that fails leaves the old journal,
\* or the new one when only the directory could not be synced.
Save(call) ==
    \/ disk' = journal' /\ UNCHANGED failures
    \/ /\ call \in SaveMayFail
       /\ Fails
       /\ disk' \in {disk, journal'}

\* No market is due, or none answered.
Skip ==
    /\ cycle = "start" /\ journal.pending = {}
    /\ UNCHANGED collectorVars

\* The journal in memory changes before it is saved; after a failed save the next
\* cycle finds the batch pending.
Stage(S) ==
    /\ cycle = "start" /\ journal.pending = {}
    /\ taken < MaxSnapshots
    /\ S # {}
    /\ taken' = taken + 1
    /\ journal' = [batch |-> journal.batch + 1, pending |-> S \X {taken + 1}]
    /\ Save("stage")
    /\ UNCHANGED <<cycle, store, crashes>>

\* The rows of S as this batch, with their payloads, in place of earlier versions.
Inserted(S) ==
    [o \in Observations |->
        IF o \in S THEN [batch |-> journal.batch, raw |-> TRUE] ELSE rows[o]]

\* A failed insert may have stored any part of the batch; the batch stays pending.
\* (Mutant: the error is not looked at.)
ErrorIgnored == "mark"
AfterError == "start"

Insert ==
    /\ cycle = "start" /\ journal.pending # {}
    /\ \/ /\ rows' = Inserted(journal.pending)
          /\ cycle' = "mark"
          /\ UNCHANGED failures
       \/ /\ Fails
          /\ \E S \in SUBSET journal.pending : rows' = Inserted(S)
          /\ cycle' = AfterError
    /\ UNCHANGED <<journal, disk, taken, markers, crashes>>

Marked == [markers EXCEPT ![journal.batch] = Cardinality(journal.pending)]

Mark ==
    /\ cycle = "mark"
    /\ \/ /\ markers' = Marked
          /\ cycle' = "acknowledge"
          /\ UNCHANGED failures
       \/ /\ Fails
          /\ markers' \in {markers, Marked}
          /\ cycle' = "start"
    /\ UNCHANGED <<journal, disk, taken, rows, crashes>>

Acknowledge ==
    /\ cycle = "acknowledge"
    /\ journal' = [journal EXCEPT !.pending = {}]
    /\ Save("acknowledge")
    /\ cycle' = "start"
    /\ UNCHANGED <<taken, store, crashes>>

\* Spool::open.  (Mutant: the pending batch is not loaded.)
LoadedEmpty == [disk EXCEPT !.pending = {}]
Loaded == disk

\* A crash, or a stop signal that drops the cycle at an await.
Crash ==
    /\ crashes < MaxCrashes
    /\ crashes' = crashes + 1
    /\ journal' = Loaded
    /\ cycle' = "start"
    /\ UNCHANGED <<disk, taken, store, failures>>

CollectorInit ==
    /\ journal = [batch |-> 0, pending |-> {}]
    /\ disk = journal
    /\ cycle = "start"
    /\ rows = [o \in Observations |-> NoRow]
    /\ markers = [b \in Batches |-> 0]
    /\ taken = 0 /\ failures = 0 /\ crashes = 0

Deliver == Insert \/ Mark \/ Acknowledge

CollectorNext ==
    \/ Skip
    \/ \E S \in SUBSET Markets : Stage(S)
    \/ Deliver
    \/ Crash

CollectorTypeOK ==
    /\ journal \in Journals /\ disk \in Journals
    /\ cycle \in Steps
    /\ rows \in [Observations -> [batch : Batches \cup {0}, raw : BOOLEAN]]
    /\ markers \in [Batches -> 0..Cardinality(Markets)]
    /\ taken \in 0..MaxSnapshots
    /\ failures \in 0..MaxFailures /\ crashes \in 0..MaxCrashes
=============================================================================
