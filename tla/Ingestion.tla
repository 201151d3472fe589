----------------------------- MODULE Ingestion ------------------------------
(***************************************************************************)
(* The reader of the collector's batches (markets/ingestion.py,            *)
(* process_batch; storage/clickhouse.py, next_batch and batch).            *)
(*                                                                         *)
(* A batch is read from ClickHouse and written to PostgreSQL in one        *)
(* transaction under the lock of the checkpoint row, so there is one       *)
(* reader of a collector; the collector writes between its two queries.    *)
(* What is derived from a row (metrics, signals, alerts) is not modelled:  *)
(* `ingested` is what a committed transaction reconciled.                  *)
(***************************************************************************)
EXTENDS CollectorJournal, FiniteSetsExt

VARIABLES
    checkpoint, \* IngestionCheckpoint.batch_id
    ingested,   \* the observations reconciled with each batch
    ingest      \* the open transaction: the marker and the rows it read

reader == <<checkpoint, ingested, ingest>>

NoBatch == [batch |-> 0, count |-> 0, rows |-> {}]

Ahead == {b \in Batches : markers[b] > 0 /\ b > checkpoint}
RowsOf(b) == {o \in Observations : rows[o].batch = b}

\* The first marker after the checkpoint must be the next batch, else the
\* checkpoint is held.
NextBatch ==
    /\ ingest = NoBatch
    /\ Ahead # {}
    /\ Min(Ahead) = checkpoint + 1
    /\ ingest' = [NoBatch EXCEPT !.batch = Min(Ahead), !.count = markers[Min(Ahead)]]
    /\ UNCHANGED <<checkpoint, ingested>>

\* As many rows as the marker counts, else the checkpoint is held.
ReadBatch ==
    /\ ingest.batch # 0 /\ ingest.rows = {}
    /\ ingest' = IF Cardinality(RowsOf(ingest.batch)) = ingest.count
                 THEN [ingest EXCEPT !.rows = RowsOf(ingest.batch)]
                 ELSE NoBatch
    /\ UNCHANGED <<checkpoint, ingested>>

Reconcile ==
    /\ ingest.rows # {}
    /\ ingested' = [ingested EXCEPT ![ingest.batch] = ingest.rows]
    /\ checkpoint' = ingest.batch
    /\ ingest' = NoBatch

\* A row is refused, a query fails or the worker stops: the transaction rolls back.
RollBack ==
    /\ ingest # NoBatch
    /\ Fails
    /\ ingest' = NoBatch
    /\ UNCHANGED <<checkpoint, ingested>>

IngestionInit ==
    /\ checkpoint = 0
    /\ ingested = [b \in Batches |-> {}]
    /\ ingest = NoBatch

ProcessBatch == (NextBatch \/ ReadBatch \/ Reconcile) /\ UNCHANGED failures

IngestionNext ==
    /\ ProcessBatch \/ RollBack
    /\ UNCHANGED <<collector, store, crashes>>

IngestionTypeOK ==
    /\ checkpoint \in Batches \cup {0}
    /\ ingested \in [Batches -> SUBSET Observations]
    /\ ingest \in [batch : Batches \cup {0}, count : 0..Cardinality(Markets),
                   rows : SUBSET Observations]
=============================================================================
