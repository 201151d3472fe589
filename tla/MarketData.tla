----------------------------- MODULE MarketData -----------------------------
(***************************************************************************)
(* The market-data pipeline: the collector, the ingestion of its batches   *)
(* and the deletion of raw payloads, over the ClickHouse tables they share.*)
(***************************************************************************)
EXTENDS RawDeletion

vars == <<collectorVars, reader, deletion>>

Init == CollectorInit /\ IngestionInit /\ DeletionInit

Next ==
    \/ CollectorNext /\ UNCHANGED <<reader, deletion>>
    \/ IngestionNext /\ UNCHANGED deletion
    \/ DeletionNext

Spec == Init /\ [][Next]_vars

\* The collector delivers every five seconds, the workers poll, ClickHouse works
\* off its mutations and leases lapse.  Failures and stops are finitely many.
Fairness ==
    /\ WF_vars(Deliver /\ UNCHANGED <<reader, deletion>>)
    /\ WF_vars(ProcessBatch /\ UNCHANGED <<collector, store, crashes, deletion>>)
    /\ \A w \in Cleaners :
          WF_vars(ProcessDeletion(w) /\ UNCHANGED <<collectorVars, reader>>)
    /\ WF_vars(Lapse /\ UNCHANGED <<collectorVars, reader>>)
    /\ WF_vars(Execute /\ UNCHANGED <<collector, markers, crashes, reader>>)

FairSpec == Spec /\ Fairness

TypeOK == CollectorTypeOK /\ IngestionTypeOK /\ DeletionTypeOK

----------------------------------------------------------------------------
\* Replays, crashes and lost replies are invisible to a reader of the batches: a
\* batch with a marker is complete, never changes, and is reconciled once, in
\* order, with the observations it was published with.
Log == INSTANCE BatchLog WITH
    published <- [b \in Batches |-> IF markers[b] > 0 THEN RowsOf(b) ELSE {}],
    delivered <- ingested,
    position <- checkpoint

ImplementsBatchLog == Log!Spec

\* docs/market-research.md: a pending batch preserves its increasing batch number
\* and observations through retries: a number is not used for two snapshots.
NumbersAreNotReused ==
    \A p, q \in Observations :
        rows[p].batch # 0 /\ rows[p].batch = rows[q].batch => p[2] = q[2]

\* The payload of a row a job may clear is out of the collector's reach: a cleared
\* payload is never stored again by the replay of a batch.
ClearedStaysCleared ==
    [][\A o \in Observations : rows[o].batch > 0 /\ ~rows[o].raw => ~rows'[o].raw]_vars

\* A job that reports success leaves no payload of its scope, then and later.
SuccessMeansCleared == job.state = "SUCCEEDED" => Eligible(job.upto) = {}

\* Every mutation submitted was counted first, whoever held the lease, and a job
\* submits at most MaxAttempts.
SubmissionsAreCounted ==
    mutations.submitted + Cardinality({w \in Cleaners : Working(w, "submit")}) <= job.attempts

\* A batch that reached the journal file is ingested, through failures and stops.
StagedIsIngested ==
    \A b \in Batches : disk.batch = b /\ disk.pending # {} ~> checkpoint >= b

\* A job ends, whatever replies it misses.
DeletionEnds == Open ~> ~Open

\* A deletion that reports success has cleared its rows, and each submission of a
\* mutation is counted.
DeletionsAreTrue == TypeOK /\ SuccessMeansCleared /\ SubmissionsAreCounted

\* Progress: staged batches arrive and deletions end.
WorkIsDone == StagedIsIngested /\ DeletionEnds
=============================================================================
