--------------------------- MODULE MarketDataProofs ---------------------------
(***************************************************************************)
(* Theorems about MarketData for every number of markets, batches, workers *)
(* and failures: the pipeline implements BatchLog, cleared payloads stay   *)
(* cleared, and deletions are true.  They hold when only the save that     *)
(* acknowledges a batch may fail; see the finding on the one that stages.  *)
(***************************************************************************)
EXTENDS MarketData, FiniteSetTheorems, TLAPS

----------------------------------------------------------------------------
(* The invariant. *)

\* The journal names the last snapshot; the file may lag behind by an
\* acknowledgement only, so that what is pending again is the same batch.
JournalOK ==
    /\ journal.batch = taken /\ disk.batch = taken
    /\ \A o \in disk.pending : o[2] = taken
    /\ journal.pending \in {disk.pending, {}}
    /\ cycle # "start" => journal.pending # {} /\ RowsOf(taken) = journal.pending
    /\ taken > 0 /\ (cycle = "acknowledge" \/ journal.pending = {}) => markers[taken] > 0

\* A row carries the number of its snapshot, and of the last batch only what is
\* pending is stored.
RowsOK ==
    /\ \A o \in Observations : rows[o].batch # 0 => rows[o].batch = o[2] /\ o[2] <= taken
    /\ disk.pending # {} => RowsOf(taken) \subseteq disk.pending

\* A marker counts its rows, all of them; the markers are those of the batches
\* before the last one, and perhaps its own.
MarkersOK ==
    /\ \A b \in Batches :
         /\ b < taken => markers[b] > 0
         /\ b > taken => markers[b] = 0
         /\ markers[b] > 0 => markers[b] = Cardinality(RowsOf(b))
    /\ disk.pending # {} /\ markers[taken] > 0 => RowsOf(taken) = disk.pending

\* The reader is not ahead of the markers and what it has read still holds.
ReaderOK ==
    /\ checkpoint <= taken
    /\ \A b \in 1..checkpoint : markers[b] > 0
    /\ ingest.batch = 0 => ingest = NoBatch
    /\ ingest.batch # 0 =>
         /\ ingest.batch = checkpoint + 1 /\ markers[ingest.batch] > 0
         /\ ingest.count = markers[ingest.batch]
         /\ ingest.rows \in {{}, RowsOf(ingest.batch)}

\* Payloads are cleared below the checkpoint only; who reports success has seen
\* that nothing is left.
ClearedOK ==
    /\ job.upto <= checkpoint
    /\ \A o \in Observations : rows[o].batch > 0 /\ ~rows[o].raw => rows[o].batch < job.upto
    /\ job.state = "NONE" => job.upto = 0 /\ \A w \in Cleaners : cleaner[w].at = "idle"
    /\ \A w \in Cleaners :
         cleaner[w].at = "finish" /\ cleaner[w].verdict = "SUCCEEDED" => Eligible(job.upto) = {}
    /\ SuccessMeansCleared

\* The owner of the lease knows the attempts; it counts before it submits.
Submitting == {w \in Cleaners : Working(w, "submit")}
CountsOK ==
    /\ \A w \in Cleaners :
         /\ job.owner = w /\ cleaner[w].at \in {"status", "summary", "count"} =>
              cleaner[w].attempts = job.attempts
         /\ cleaner[w].at = "count" => cleaner[w].attempts < MaxAttempts
    /\ IsFiniteSet(Submitting)
    /\ SubmissionsAreCounted

PipelineOK == JournalOK /\ RowsOK /\ MarkersOK /\ ReaderOK
Inv == TypeOK /\ PipelineOK /\ ClearedOK /\ CountsOK

----------------------------------------------------------------------------
(* Facts about batches. *)

LEMMA BatchFacts == Batches \subseteq Nat /\ \A b \in Batches : 1 <= b /\ b <= MaxSnapshots
  BY JournalAssumption DEF Batches

\* What is pending is finite and has at most one row per market.
LEMMA SnapshotSize ==
    ASSUME NEW P, NEW n, P \subseteq Observations, \A o \in P : o[2] = n
    PROVE  /\ IsFiniteSet(P)
           /\ Cardinality(P) \in 0..Cardinality(Markets)
           /\ P # {} => Cardinality(P) > 0
<1>1. P \subseteq Markets \X {n}
  BY DEF Observations
<1>2. IsFiniteSet(Markets) /\ IsFiniteSet({n}) /\ Cardinality({n}) = 1
  BY JournalAssumption, FS_Singleton
<1>3. IsFiniteSet(Markets \X {n})
      /\ Cardinality(Markets \X {n}) = Cardinality(Markets) * Cardinality({n})
  BY <1>2, FS_Product
<1>4. IsFiniteSet(P) /\ Cardinality(P) <= Cardinality(Markets \X {n})
  BY <1>1, <1>3, FS_Subset
<1>5. Cardinality(P) \in Nat /\ Cardinality(Markets) \in Nat
  BY <1>2, <1>4, FS_CardinalityType
<1>6. Cardinality(P) <= Cardinality(Markets)
  BY <1>2, <1>3, <1>4, <1>5
<1>7. P # {} => Cardinality(P) # 0
  BY <1>4, FS_EmptySet
<1>8. QED
  BY <1>4, <1>5, <1>6, <1>7

LEMMA InitInv == Init => Inv
<1> SUFFICES ASSUME Init PROVE Inv
  OBVIOUS
<1>1. Cardinality(Markets) \in Nat
  BY JournalAssumption, FS_CardinalityType
<1>2. CollectorTypeOK
  BY <1>1, JournalAssumption DEF Init, CollectorInit, CollectorTypeOK, Journals, Steps, NoRow
<1>3. IngestionTypeOK
  BY <1>1, JournalAssumption DEF Init, IngestionInit, IngestionTypeOK, NoBatch
<1>4. DeletionTypeOK
  BY DeletionAssumption, JournalAssumption DEF Init, DeletionInit, DeletionTypeOK, Idle, Progress
<1>5. \A o \in Observations : rows[o].batch = 0 /\ rows[o].raw = FALSE
  BY DEF Init, CollectorInit, NoRow
<1>6. JournalOK /\ RowsOK
  BY <1>5 DEF Init, CollectorInit, JournalOK, RowsOK
<1>7. MarkersOK
  BY BatchFacts DEF Init, CollectorInit, MarkersOK
<1>8. ReaderOK
  BY DEF Init, CollectorInit, IngestionInit, ReaderOK, NoBatch
<1>9. ClearedOK
  BY <1>5 DEF Init, DeletionInit, IngestionInit, ClearedOK, SuccessMeansCleared, Idle
<1>10. CountsOK
  <2>1. Submitting = {}
    BY DEF Init, DeletionInit, Submitting, Working, Idle
  <2>2. IsFiniteSet({}) /\ Cardinality({}) = 0
    BY FS_EmptySet
  <2>3. \A w \in Cleaners : cleaner[w].at = "idle"
    BY DEF Init, DeletionInit, Idle
  <2>4. SubmissionsAreCounted
    BY <2>1, <2>2 DEF Init, DeletionInit, SubmissionsAreCounted, Submitting
  <2>5. QED
    BY <2>1, <2>2, <2>3, <2>4 DEF CountsOK
<1>11. QED
  BY <1>2, <1>3, <1>4, <1>6, <1>7, <1>8, <1>9, <1>10 DEF Inv, TypeOK, PipelineOK


----------------------------------------------------------------------------
(* What a step leaves alone. *)

\* The numbers of a state.
Numbered ==
    /\ taken \in Nat /\ checkpoint \in Nat /\ job.upto \in Nat /\ job.attempts \in Nat
    /\ \A o \in Observations : rows[o].batch \in Nat
    /\ \A b \in Batches : markers[b] \in Nat
    /\ \A w \in Cleaners : cleaner[w].attempts \in Nat

LEMMA NumbersOf == TypeOK => Numbered
<1> SUFFICES ASSUME TypeOK PROVE Numbered
  OBVIOUS
<1>1. Cardinality(Markets) \in Nat
  BY JournalAssumption, FS_CardinalityType
<1>2. Batches \cup {0} \subseteq Nat
  BY BatchFacts
<1>3. taken \in Nat /\ (\A b \in Batches : markers[b] \in Nat)
  BY <1>1, JournalAssumption DEF TypeOK, CollectorTypeOK
<1>4. \A o \in Observations : rows[o].batch \in Batches \cup {0}
  BY DEF TypeOK, CollectorTypeOK
<1>5. checkpoint \in Nat
  BY <1>2 DEF TypeOK, IngestionTypeOK
<1>6. job.upto \in Batches \cup {0} /\ job.attempts \in 0..MaxAttempts
  BY DEF TypeOK, DeletionTypeOK
<1>7. \A w \in Cleaners : cleaner[w].attempts \in 0..MaxAttempts
  BY DEF TypeOK, DeletionTypeOK
<1>8. QED
  BY <1>2, <1>3, <1>4, <1>5, <1>6, <1>7, DeletionAssumption DEF Numbered

LEMMA NumbersAfter == TypeOK' => Numbered'
  BY NumbersOf, PTL

LEMMA RowsOfSame ==
    ASSUME NEW b, \A o \in Observations : rows'[o].batch = rows[o].batch
    PROVE  RowsOf(b)' = RowsOf(b)
  BY DEF RowsOf

\* The pipeline does not look at the payloads, nor at what was ingested.
LEMMA PipelineKept ==
    ASSUME PipelineOK, \A o \in Observations : rows'[o].batch = rows[o].batch,
           UNCHANGED <<journal, disk, cycle, taken, markers, checkpoint, ingest>>
    PROVE  PipelineOK'
<1>1. \A b : RowsOf(b)' = RowsOf(b)
  BY RowsOfSame
<1>2. JournalOK'
  BY <1>1 DEF PipelineOK, JournalOK
<1>3. RowsOK'
  BY <1>1 DEF PipelineOK, RowsOK
<1>4. MarkersOK'
  BY <1>1 DEF PipelineOK, MarkersOK
<1>5. ReaderOK'
  BY <1>1 DEF PipelineOK, ReaderOK
<1>6. QED
  BY <1>2, <1>3, <1>4, <1>5 DEF PipelineOK

\* A row above the job's reach may be stored again.
LEMMA EligibleKept ==
    ASSUME TypeOK, TypeOK', UNCHANGED job,
           \A o \in Observations :
              \/ rows'[o] = rows[o]
              \/ rows'[o].batch >= job.upto /\ rows[o].batch \notin 1..(job.upto - 1)
    PROVE  Eligible(job.upto)' = Eligible(job.upto)
<1> DEFINE u == job.upto
<1>1. u \in Nat /\ u' = u
  BY NumbersOf DEF Numbered
<1>2. \A o \in Observations : rows'[o].batch \in Nat
  BY NumbersAfter DEF Numbered
<1>3. \A o \in Observations :
        (rows'[o].batch \in 1..(u - 1) /\ rows'[o].raw) <=> (rows[o].batch \in 1..(u - 1) /\ rows[o].raw)
  <2> SUFFICES ASSUME NEW o \in Observations, rows'[o] # rows[o]
               PROVE  rows'[o].batch \notin 1..(u - 1) /\ rows[o].batch \notin 1..(u - 1)
    OBVIOUS
  <2> QED BY <1>1, <1>2
<1>4. QED
  BY <1>1, <1>3 DEF Eligible

LEMMA ClearedKept ==
    ASSUME TypeOK, TypeOK', ClearedOK, UNCHANGED <<job, cleaner>>, checkpoint <= checkpoint',
           \A o \in Observations :
              \/ rows'[o] = rows[o]
              \/ /\ rows'[o].batch >= job.upto /\ rows'[o].raw
                 /\ rows[o].batch \notin 1..(job.upto - 1)
    PROVE  ClearedOK'
<1>1. Eligible(job.upto)' = Eligible(job.upto)
  BY EligibleKept
<1>2. job'.upto <= checkpoint'
  BY NumbersOf, NumbersAfter DEF ClearedOK, Numbered
<1>3. \A o \in Observations : rows'[o].batch > 0 /\ ~rows'[o].raw => rows'[o].batch < job'.upto
  BY DEF ClearedOK
<1>4. SuccessMeansCleared'
  BY <1>1 DEF ClearedOK, SuccessMeansCleared
<1>5. QED
  BY <1>1, <1>2, <1>3, <1>4 DEF ClearedOK

LEMMA CountsKept ==
    ASSUME CountsOK, UNCHANGED <<job, cleaner, mutations>>
    PROVE  CountsOK'
<1>1. Submitting' = Submitting
  BY DEF Submitting, Working
<1>2. SubmissionsAreCounted'
  BY <1>1 DEF CountsOK, SubmissionsAreCounted, Submitting
<1>3. QED
  BY <1>1, <1>2 DEF CountsOK


----------------------------------------------------------------------------
(* The collector.  What it writes belongs to the last snapshot, which no   *)
(* job can clear: a replay stores again what the batch is.                 *)

\* What the collector keeps of the other two components' state.
Beside == <<reader, deletion>>

LEMMA StageStep ==
    ASSUME "stage" \notin SaveMayFail, TypeOK, PipelineOK, NEW S \in SUBSET Markets, Stage(S),
           UNCHANGED Beside
    PROVE  CollectorTypeOK' /\ PipelineOK'
<1> DEFINE n == taken + 1
           P == S \X {n}
<1>1. taken \in Nat /\ n \in Batches /\ taken' = n /\ P # {} /\ P \subseteq Observations
  <2>1. taken \in Nat /\ taken < MaxSnapshots /\ taken' = n /\ S # {}
    BY NumbersOf DEF Stage, Numbered
  <2>2. n \in Batches
    BY <2>1, JournalAssumption DEF Batches
  <2>3. P # {}
    <3>1. PICK m \in S : TRUE
      BY <2>1
    <3>2. <<m, n>> \in P
      OBVIOUS
    <3>3. QED
      BY <3>2
  <2>4. P \subseteq Observations
    BY <2>2 DEF Observations
  <2>5. QED
    BY <2>1, <2>2, <2>3, <2>4
<1>2. journal' = [batch |-> n, pending |-> P] /\ disk' = journal' /\ failures' = failures
  BY DEF Stage, Save, PipelineOK, JournalOK
<1>3. \A b : RowsOf(b)' = RowsOf(b)
  BY RowsOfSame DEF Stage, store
<1>4. CollectorTypeOK'
  <2>1. journal' \in Journals
    BY <1>1, <1>2 DEF Journals
  <2>2. taken' \in 0..MaxSnapshots
    BY <1>1 DEF Batches
  <2>3. QED
    BY <1>2, <2>1, <2>2 DEF CollectorTypeOK, TypeOK, Stage, store
<1>5. \A o \in P : o[2] = n
  OBVIOUS
<1>6. \A o \in Observations : rows[o].batch # n /\ rows[o].batch \in Nat
  BY <1>1, NumbersOf, BatchFacts DEF PipelineOK, RowsOK, Numbered, Observations
<1>7. RowsOf(n) = {}
  BY <1>1, <1>6 DEF RowsOf
<1>8. cycle' = "start" /\ rows' = rows /\ markers' = markers /\ journal.pending = {}
  BY DEF Stage, store
<1> HIDE DEF P, n
<1>9. JournalOK'
  BY <1>1, <1>2, <1>5, <1>8 DEF JournalOK
<1>10. RowsOK'
  <2>1. \A o \in Observations : rows[o].batch # 0 => rows[o].batch = o[2] /\ o[2] <= n
    BY <1>1, <1>6, NumbersOf DEF PipelineOK, RowsOK, n
  <2>2. QED
    BY <1>1, <1>2, <1>3, <1>7, <1>8, <2>1 DEF RowsOK
<1>11. MarkersOK'
  <2>1. taken > 0 => markers[taken] > 0
    BY <1>8 DEF PipelineOK, JournalOK
  <2>2. \A b \in Batches : b < n => markers[b] > 0
    <3> SUFFICES ASSUME NEW b \in Batches, b < n PROVE markers[b] > 0
      OBVIOUS
    <3>1. b \in Nat /\ b > 0 /\ (b = taken \/ b < taken)
      BY <1>1, BatchFacts DEF n
    <3>2. QED
      BY <2>1, <3>1 DEF PipelineOK, MarkersOK
  <2>3. \A b \in Batches : b >= n => markers[b] = 0
    <3> SUFFICES ASSUME NEW b \in Batches, b >= n PROVE markers[b] = 0
      OBVIOUS
    <3>1. b > taken
      BY <1>1, BatchFacts DEF n
    <3>2. QED
      BY <3>1 DEF PipelineOK, MarkersOK
  <2>4. \A b \in Batches : markers[b] > 0 => markers[b] = Cardinality(RowsOf(b))
    BY DEF PipelineOK, MarkersOK
  <2>5. n \in Nat /\ ~(markers[n] > 0)
    BY <1>1, <2>3 DEF n
  <2>6. \A b \in Batches : b > n => markers[b] = 0
    BY <2>3, <2>5, BatchFacts
  <2>7. QED
    BY <1>1, <1>3, <1>8, <2>2, <2>4, <2>5, <2>6 DEF MarkersOK
<1>12. ReaderOK'
  <2>1. UNCHANGED <<checkpoint, ingest>>
    BY DEF Beside, reader
  <2>2. checkpoint <= n
    BY <1>1, NumbersOf DEF n, PipelineOK, ReaderOK, Numbered
  <2>3. QED
    BY <1>1, <1>3, <1>8, <2>1, <2>2 DEF PipelineOK, ReaderOK
<1>13. QED
  BY <1>4, <1>9, <1>10, <1>11, <1>12 DEF PipelineOK

\* What an insert leaves behind, complete or not.
LEMMA InsertedRows ==
    ASSUME TypeOK, PipelineOK, NEW S \in SUBSET journal.pending, rows' = Inserted(S),
           UNCHANGED taken
    PROVE  /\ S # {} => taken \in Batches /\ journal.pending = disk.pending
           /\ \A o \in S : o \in Observations /\ o[2] = taken
           /\ \A o \in Observations : rows'[o] = IF o \in S THEN [batch |-> taken, raw |-> TRUE] ELSE rows[o]
           /\ RowsOf(taken)' = RowsOf(taken) \cup S
           /\ \A b \in Batches : b # taken \/ markers[b] > 0 => RowsOf(b)' = RowsOf(b)
<1>1. \A o \in S : o \in Observations /\ o[2] = taken /\ journal.pending = disk.pending
  BY DEF PipelineOK, JournalOK, TypeOK, CollectorTypeOK, Journals
<1>2. \A o \in Observations : rows'[o] = IF o \in S THEN [batch |-> taken, raw |-> TRUE] ELSE rows[o]
  BY DEF Inserted, PipelineOK, JournalOK
<1>3. S # {} => taken \in Batches
  BY <1>1 DEF Observations
<1>4. RowsOf(taken)' = RowsOf(taken) \cup S
  BY <1>1, <1>2 DEF RowsOf, PipelineOK, JournalOK, Inserted
<1>5. \A b \in Batches : b # taken => RowsOf(b)' = RowsOf(b)
  <2> SUFFICES ASSUME NEW b \in Batches, b # taken,
                      NEW o \in Observations
               PROVE  rows'[o].batch = b <=> rows[o].batch = b
    BY DEF RowsOf
  <2>1. CASE o \in S
    <3>1. rows[o].batch # b
      BY <1>1, <2>1, BatchFacts DEF PipelineOK, RowsOK
    <3>2. QED
      BY <1>2, <2>1, <3>1
  <2>2. CASE o \notin S
    BY <1>2, <2>2
  <2>3. QED
    BY <2>1, <2>2
<1>6. taken \in Batches /\ markers[taken] > 0 => RowsOf(taken)' = RowsOf(taken)
  <2>1. CASE S = {}
    BY <1>4, <2>1
  <2>2. CASE S # {}
    BY <1>1, <1>4, <2>2 DEF PipelineOK, MarkersOK
  <2>3. QED
    BY <2>1, <2>2
<1>7. QED
  BY <1>1, <1>2, <1>3, <1>4, <1>5, <1>6


LEMMA InsertStep ==
    ASSUME TypeOK, PipelineOK, Insert, UNCHANGED Beside
    PROVE  CollectorTypeOK' /\ PipelineOK'
<1>1. PICK S \in SUBSET journal.pending :
         /\ rows' = Inserted(S)
         /\ cycle' \in {"mark", "start"}
         /\ cycle' = "mark" => S = journal.pending
  BY DEF Insert, AfterError
<1>2. UNCHANGED <<journal, disk, taken, markers, crashes, checkpoint, ingest>>
      /\ journal.pending # {} /\ failures' \in 0..MaxFailures
  BY JournalAssumption DEF Insert, Fails, Beside, reader, TypeOK, CollectorTypeOK
<1>3. /\ S # {} => taken \in Batches
      /\ \A o \in S : o \in Observations /\ o[2] = taken
      /\ \A o \in Observations : rows'[o] = IF o \in S THEN [batch |-> taken, raw |-> TRUE] ELSE rows[o]
      /\ RowsOf(taken)' = RowsOf(taken) \cup S
      /\ \A b \in Batches : b # taken \/ markers[b] > 0 => RowsOf(b)' = RowsOf(b)
  BY <1>1, <1>2, InsertedRows
<1>4. journal.pending = disk.pending /\ disk.pending # {}
  BY <1>2 DEF PipelineOK, JournalOK
<1>5. CollectorTypeOK'
  <2>1. ASSUME NEW o \in Observations
        PROVE  rows'[o] \in [batch : Batches \cup {0}, raw : BOOLEAN]
    <3>1. CASE o \in S
      <4>1. taken \in Batches /\ rows'[o] = [batch |-> taken, raw |-> TRUE]
        BY <1>3, <3>1
      <4>2. QED
        BY <4>1
    <3>2. CASE o \notin S
      BY <1>3, <3>2 DEF TypeOK, CollectorTypeOK
    <3>3. QED
      BY <3>1, <3>2
  <2>2. rows' \in [Observations -> [batch : Batches \cup {0}, raw : BOOLEAN]]
    BY <1>1, <2>1 DEF Inserted
  <2>3. QED
    BY <1>1, <1>2, <2>2 DEF TypeOK, CollectorTypeOK, Steps
<1>6. RowsOf(taken)' \subseteq disk.pending
  BY <1>3, <1>4 DEF PipelineOK, RowsOK
<1>7. JournalOK'
  <2>1. cycle' = "mark" => RowsOf(taken)' = journal.pending
    BY <1>1, <1>3, <1>4, <1>6
  <2>2. QED
    BY <1>1, <1>2, <2>1 DEF PipelineOK, JournalOK
<1>8. RowsOK'
  BY <1>2, <1>3, <1>6, NumbersOf DEF PipelineOK, RowsOK, Numbered
<1>9. MarkersOK'
  <2>1. \A b \in Batches : markers[b] > 0 => markers[b] = Cardinality(RowsOf(b)')
    BY <1>3 DEF PipelineOK, MarkersOK
  <2>2. taken \in Batches
    BY <1>4 DEF PipelineOK, JournalOK, TypeOK, CollectorTypeOK, Journals, Observations
  <2>3. markers[taken] > 0 => RowsOf(taken)' = disk.pending
    BY <1>2, <1>3, <1>4, <2>2 DEF PipelineOK, MarkersOK
  <2>4. QED
    BY <1>2, <2>1, <2>3 DEF PipelineOK, MarkersOK
<1>10. ReaderOK'
  <2>1. ingest.batch # 0 => ingest.batch \in Batches /\ RowsOf(ingest.batch)' = RowsOf(ingest.batch)
    BY <1>2, <1>3 DEF PipelineOK, ReaderOK, TypeOK, IngestionTypeOK
  <2>2. QED
    BY <1>2, <2>1 DEF PipelineOK, ReaderOK
<1>11. QED
  BY <1>5, <1>7, <1>8, <1>9, <1>10 DEF PipelineOK

\* A marker written again has the same count.
LEMMA MarkedSame ==
    ASSUME TypeOK, PipelineOK, cycle = "mark"
    PROVE  /\ taken \in Batches /\ disk.pending # {} /\ RowsOf(taken) = disk.pending
           /\ Cardinality(RowsOf(taken)) \in 0..Cardinality(Markets)
           /\ Cardinality(RowsOf(taken)) > 0
           /\ Marked = [markers EXCEPT ![taken] = Cardinality(RowsOf(taken))]
           /\ markers[taken] > 0 => Marked = markers
<1>1. journal.pending = disk.pending /\ RowsOf(taken) = disk.pending /\ disk.pending # {}
  BY DEF PipelineOK, JournalOK
<1>2. disk.pending \subseteq Observations /\ \A o \in disk.pending : o[2] = taken
  BY DEF PipelineOK, JournalOK, TypeOK, CollectorTypeOK, Journals
<1>3. taken \in Batches
  BY <1>1, <1>2 DEF Observations
<1>4. Cardinality(disk.pending) \in 0..Cardinality(Markets) /\ Cardinality(disk.pending) > 0
  BY <1>1, <1>2, SnapshotSize
<1>5. Marked = [markers EXCEPT ![taken] = Cardinality(RowsOf(taken))]
  BY <1>1 DEF Marked, PipelineOK, JournalOK
<1>6. markers[taken] > 0 => markers[taken] = Cardinality(RowsOf(taken))
  BY <1>3 DEF PipelineOK, MarkersOK
<1>7. markers[taken] > 0 => Marked = markers
  BY <1>5, <1>6 DEF TypeOK, CollectorTypeOK
<1>8. QED
  BY <1>1, <1>3, <1>4, <1>5, <1>7

LEMMA MarkStep ==
    ASSUME TypeOK, PipelineOK, Mark, UNCHANGED Beside
    PROVE  CollectorTypeOK' /\ PipelineOK'
<1> DEFINE n == Cardinality(RowsOf(taken))
<1>1. UNCHANGED <<journal, disk, taken, rows, crashes, checkpoint, ingest>> /\ cycle = "mark"
      /\ failures' \in 0..MaxFailures /\ cycle' \in Steps
  BY JournalAssumption DEF Mark, Fails, Beside, reader, TypeOK, CollectorTypeOK, Steps
<1>2. markers' \in {markers, Marked} /\ (cycle' # "start" => markers' = Marked /\ cycle' = "acknowledge")
  BY DEF Mark
<1>3. /\ taken \in Batches /\ disk.pending # {} /\ RowsOf(taken) = disk.pending
      /\ n \in 0..Cardinality(Markets) /\ n > 0
      /\ Marked = [markers EXCEPT ![taken] = n]
      /\ markers[taken] > 0 => Marked = markers
  BY <1>1, MarkedSame
<1> HIDE DEF n
<1>4. \A b : RowsOf(b)' = RowsOf(b)
  BY <1>1 DEF RowsOf
<1>5. \A b \in Batches : b # taken => markers'[b] = markers[b]
  BY <1>2, <1>3 DEF TypeOK, CollectorTypeOK
<1>6. markers'[taken] \in {markers[taken], n} /\ (markers' = Marked => markers'[taken] = n)
  BY <1>2, <1>3 DEF TypeOK, CollectorTypeOK
<1>7. markers[taken] > 0 => markers'[taken] = markers[taken]
  BY <1>2, <1>3
<1>8. CollectorTypeOK'
  <2>1. markers' \in [Batches -> 0..Cardinality(Markets)]
    BY <1>2, <1>3 DEF TypeOK, CollectorTypeOK
  <2>2. QED
    BY <1>1, <2>1 DEF TypeOK, CollectorTypeOK
<1>9. JournalOK'
  <2>1. cycle' # "start" => markers'[taken] > 0
    BY <1>2, <1>3, <1>6
  <2>2. journal.pending # {} /\ RowsOf(taken) = journal.pending
    BY <1>1 DEF PipelineOK, JournalOK
  <2>3. cycle' = "start" \/ cycle' = "acknowledge"
    BY <1>2
  <2>4. QED
    BY <1>1, <1>4, <2>1, <2>2, <2>3 DEF PipelineOK, JournalOK
<1>10. RowsOK'
  BY <1>1, <1>4 DEF PipelineOK, RowsOK
<1>11. MarkersOK'
  <2>1. \A b \in Batches : b < taken => markers'[b] > 0
    BY <1>3, <1>5, BatchFacts DEF PipelineOK, MarkersOK
  <2>2. \A b \in Batches : b > taken => markers'[b] = 0
    BY <1>3, <1>5, BatchFacts DEF PipelineOK, MarkersOK
  <2>3. \A b \in Batches : markers'[b] > 0 => markers'[b] = Cardinality(RowsOf(b))
    <3>1. markers[taken] > 0 => markers[taken] = n
      BY <1>3 DEF n, PipelineOK, MarkersOK
    <3>2. markers'[taken] > 0 => markers'[taken] = Cardinality(RowsOf(taken))
      BY <1>6, <3>1 DEF n
    <3>3. QED
      BY <1>5, <3>2 DEF PipelineOK, MarkersOK
  <2>4. QED
    BY <1>1, <1>3, <1>4, <2>1, <2>2, <2>3 DEF MarkersOK
<1>12. ReaderOK'
  <2>1. \A b \in Batches : markers[b] > 0 => markers'[b] = markers[b]
    BY <1>5, <1>7
  <2>2. ingest.batch # 0 => ingest.batch \in Batches
    BY DEF TypeOK, IngestionTypeOK
  <2>3. \A b \in 1..checkpoint : b \in Batches
    BY NumbersOf, JournalAssumption DEF TypeOK, IngestionTypeOK, Numbered, Batches
  <2>4. \A b \in 1..checkpoint : markers'[b] > 0
    BY <2>1, <2>3 DEF PipelineOK, ReaderOK
  <2>5. QED
    BY <1>1, <1>4, <2>1, <2>2, <2>4 DEF PipelineOK, ReaderOK
<1>13. QED
  BY <1>8, <1>9, <1>10, <1>11, <1>12 DEF PipelineOK

LEMMA AcknowledgeStep ==
    ASSUME TypeOK, PipelineOK, Acknowledge, UNCHANGED Beside
    PROVE  CollectorTypeOK' /\ PipelineOK'
<1>1. UNCHANGED <<taken, rows, markers, crashes, checkpoint, ingest>>
      /\ cycle = "acknowledge" /\ cycle' = "start"
  BY DEF Acknowledge, store, Beside, reader
<1>2. failures' \in 0..MaxFailures
  BY JournalAssumption DEF Acknowledge, Save, Fails, TypeOK, CollectorTypeOK
<1>3. journal' = [batch |-> taken, pending |-> {}] /\ disk' \in {disk, journal'}
  BY DEF Acknowledge, Save, PipelineOK, JournalOK, TypeOK, CollectorTypeOK, Journals
<1>4. \A b : RowsOf(b)' = RowsOf(b)
  BY <1>1 DEF RowsOf
<1>5. taken > 0 => markers[taken] > 0
  BY <1>1 DEF PipelineOK, JournalOK
<1>6. journal' \in Journals
  BY <1>3 DEF PipelineOK, JournalOK, TypeOK, CollectorTypeOK, Journals
<1>7. CollectorTypeOK'
  BY <1>1, <1>2, <1>3, <1>6 DEF TypeOK, CollectorTypeOK, Steps
<1>8. disk'.pending \in {disk.pending, {}} /\ disk'.batch = taken
  BY <1>3 DEF PipelineOK, JournalOK
<1>9. JournalOK'
  BY <1>1, <1>3, <1>5, <1>8 DEF PipelineOK, JournalOK
<1>10. RowsOK'
  BY <1>1, <1>4, <1>8 DEF PipelineOK, RowsOK
<1>11. MarkersOK'
  BY <1>1, <1>4, <1>8 DEF PipelineOK, MarkersOK
<1>12. ReaderOK'
  BY <1>1, <1>4 DEF PipelineOK, ReaderOK
<1>13. QED
  BY <1>7, <1>9, <1>10, <1>11, <1>12 DEF PipelineOK

LEMMA CrashStep ==
    ASSUME TypeOK, PipelineOK, Crash, UNCHANGED Beside
    PROVE  CollectorTypeOK' /\ PipelineOK'
<1>1. UNCHANGED <<disk, taken, rows, markers, failures, checkpoint, ingest>>
      /\ journal' = disk /\ cycle' = "start" /\ crashes' \in 0..MaxCrashes
  BY JournalAssumption DEF Crash, Loaded, store, Beside, reader, TypeOK, CollectorTypeOK
<1>2. \A b : RowsOf(b)' = RowsOf(b)
  BY <1>1 DEF RowsOf
<1>3. CollectorTypeOK'
  BY <1>1 DEF TypeOK, CollectorTypeOK, Steps
<1>4. JournalOK'
  BY <1>1 DEF PipelineOK, JournalOK
<1>5. RowsOK' /\ MarkersOK' /\ ReaderOK'
  BY <1>1, <1>2 DEF PipelineOK, RowsOK, MarkersOK, ReaderOK
<1>6. QED
  BY <1>3, <1>4, <1>5 DEF PipelineOK


LEMMA CollectorStep ==
    ASSUME "stage" \notin SaveMayFail, Inv, CollectorNext, UNCHANGED Beside
    PROVE  Inv'
<1>1. CollectorTypeOK' /\ PipelineOK'
  <2>1. CASE Skip
    <3>1. UNCHANGED <<journal, disk, cycle, taken, rows, markers, failures, crashes, checkpoint, ingest>>
      BY <2>1 DEF Skip, collectorVars, collector, store, Beside, reader
    <3>2. PipelineOK'
      BY <3>1, PipelineKept DEF Inv
    <3>3. CollectorTypeOK'
      BY <3>1 DEF Inv, TypeOK, CollectorTypeOK
    <3>4. QED
      BY <3>2, <3>3
  <2>2. CASE \E S \in SUBSET Markets : Stage(S)
    BY <2>2, StageStep DEF Inv
  <2>3. CASE Deliver
    BY <2>3, InsertStep, MarkStep, AcknowledgeStep DEF Inv, Deliver
  <2>4. CASE Crash
    BY <2>4, CrashStep DEF Inv
  <2>5. QED
    BY <2>1, <2>2, <2>3, <2>4 DEF CollectorNext
<1>2. UNCHANGED <<checkpoint, ingested, ingest, job, cleaner, mutations, allowed, stalls>>
  BY DEF Beside, reader, deletion
<1>3. TypeOK'
  BY <1>1, <1>2 DEF Inv, TypeOK, IngestionTypeOK, DeletionTypeOK
<1>4. ASSUME NEW o \in Observations, rows'[o] # rows[o]
      PROVE  /\ rows'[o].batch >= job.upto /\ rows'[o].raw
             /\ rows[o].batch \notin 1..(job.upto - 1)
  <2>1. Insert
    BY <1>4 DEF CollectorNext, Skip, Stage, Deliver, Mark, Acknowledge, Crash, store, collectorVars
  <2>2. PICK S \in SUBSET journal.pending : rows' = Inserted(S)
    BY <2>1 DEF Insert
  <2>3. UNCHANGED taken
    BY <2>1 DEF Insert
  <2>4. /\ \A p \in S : p \in Observations /\ p[2] = taken
        /\ rows'[o] = IF o \in S THEN [batch |-> taken, raw |-> TRUE] ELSE rows[o]
    BY <2>2, <2>3, InsertedRows DEF Inv
  <2>5. o \in S /\ o[2] = taken /\ rows'[o].batch = taken /\ rows'[o].raw
    BY <1>4, <2>4
  <2>6. job.upto <= taken /\ taken \in Nat /\ job.upto \in Nat
    BY NumbersOf DEF Numbered, Inv, ClearedOK, PipelineOK, ReaderOK
  <2>7. rows[o].batch = 0 \/ rows[o].batch = taken
    BY <2>5 DEF Inv, PipelineOK, RowsOK
  <2>8. QED
    BY <2>5, <2>6, <2>7
<1>5. checkpoint <= checkpoint'
  BY <1>2, NumbersOf DEF Inv, Numbered
<1>6. ClearedOK'
  BY <1>2, <1>3, <1>4, <1>5, ClearedKept DEF Inv
<1>7. CountsOK'
  BY <1>2, CountsKept DEF Inv
<1>8. QED
  BY <1>1, <1>3, <1>6, <1>7 DEF Inv

----------------------------------------------------------------------------
(* The reader.  A marker stays what it was read as.                        *)

\* The rows of a batch with a marker.
LEMMA MarkedRows ==
    ASSUME TypeOK, PipelineOK, NEW b \in Batches, markers[b] > 0
    PROVE  /\ Cardinality(RowsOf(b)) = markers[b] /\ RowsOf(b) # {}
           /\ RowsOf(b) \subseteq Observations /\ b <= taken
<1>1. Cardinality(RowsOf(b)) = markers[b]
  BY DEF PipelineOK, MarkersOK
<1>2. RowsOf(b) # {}
  BY <1>1, FS_EmptySet
<1>3. b <= taken
  BY NumbersOf, BatchFacts DEF Numbered, PipelineOK, MarkersOK
<1>4. QED
  BY <1>1, <1>2, <1>3 DEF RowsOf

\* The next marker is the one after the checkpoint.
LEMMA NextAhead ==
    ASSUME TypeOK, PipelineOK, Ahead # {}, Min(Ahead) = checkpoint + 1
    PROVE  checkpoint + 1 \in Batches /\ markers[checkpoint + 1] > 0
<1>1. PICK b \in Batches : markers[b] > 0 /\ b > checkpoint
  BY DEF Ahead
<1>2. b <= taken /\ b \in Nat /\ b <= MaxSnapshots /\ checkpoint \in Nat /\ taken \in Nat
  BY <1>1, MarkedRows, BatchFacts, NumbersOf DEF Numbered
<1>3. checkpoint + 1 \in Batches
  BY <1>1, <1>2, JournalAssumption DEF Batches
<1>4. checkpoint + 1 = b \/ checkpoint + 1 < taken
  BY <1>1, <1>2
<1>5. QED
  BY <1>1, <1>3, <1>4 DEF PipelineOK, MarkersOK


LEMMA IngestionStep ==
    ASSUME Inv, IngestionNext, UNCHANGED deletion
    PROVE  Inv'
<1>1. UNCHANGED <<journal, disk, cycle, taken, rows, markers, crashes, job, cleaner, mutations, allowed, stalls>>
  BY DEF IngestionNext, collector, store, deletion
<1>2. failures' \in 0..MaxFailures
  BY JournalAssumption DEF IngestionNext, ProcessBatch, RollBack, Fails, Inv, TypeOK, CollectorTypeOK
<1>3. CollectorTypeOK' /\ DeletionTypeOK'
  BY <1>1, <1>2 DEF Inv, TypeOK, CollectorTypeOK, DeletionTypeOK
<1>4. \A b : RowsOf(b)' = RowsOf(b)
  BY <1>1 DEF RowsOf
<1>5. JournalOK' /\ RowsOK' /\ MarkersOK'
  BY <1>1, <1>4 DEF Inv, PipelineOK, JournalOK, RowsOK, MarkersOK
<1>6. CountsOK'
  BY <1>1, CountsKept DEF Inv
<1>7. checkpoint \in Nat /\ taken \in Nat /\ NoBatch \in [batch : Batches \cup {0}, count : 0..Cardinality(Markets), rows : SUBSET Observations]
  <2>1. Cardinality(Markets) \in Nat
    BY JournalAssumption, FS_CardinalityType
  <2>2. QED
    BY <2>1, NumbersOf DEF Inv, Numbered, NoBatch
<1>8. IngestionTypeOK' /\ ReaderOK' /\ checkpoint <= checkpoint'
  <2>1. CASE NextBatch
    <3> DEFINE n == checkpoint + 1
    <3>1. n \in Batches /\ markers[n] > 0 /\ n # 0
      BY <2>1, NextAhead, <1>7 DEF NextBatch, Inv
    <3>2. ingest' = [batch |-> n, count |-> markers[n], rows |-> {}]
          /\ UNCHANGED <<checkpoint, ingested>>
      BY <2>1 DEF NextBatch, NoBatch
    <3> HIDE DEF n
    <3>3. IngestionTypeOK'
      BY <3>1, <3>2 DEF Inv, TypeOK, CollectorTypeOK, IngestionTypeOK
    <3>4. ReaderOK'
      BY <1>1, <3>1, <3>2 DEF Inv, PipelineOK, ReaderOK, n
    <3>5. QED
      BY <1>7, <3>2, <3>3, <3>4
  <2>2. CASE ReadBatch
    <3>1. UNCHANGED <<checkpoint, ingested>> /\ ingest.batch # 0
      BY <2>2 DEF ReadBatch
    <3>2. ingest.batch \in Batches /\ RowsOf(ingest.batch) \subseteq Observations
      BY <3>1 DEF Inv, TypeOK, IngestionTypeOK, RowsOf
    <3>3. ingest' \in {[ingest EXCEPT !.rows = RowsOf(ingest.batch)], NoBatch}
      BY <2>2 DEF ReadBatch
    <3>4. CASE ingest' = [ingest EXCEPT !.rows = RowsOf(ingest.batch)]
      <4>1. IngestionTypeOK'
        BY <3>1, <3>2, <3>4 DEF Inv, TypeOK, IngestionTypeOK
      <4>2. ingest'.batch = ingest.batch /\ ingest'.count = ingest.count /\ ingest'.rows = RowsOf(ingest.batch)
        BY <3>4 DEF Inv, TypeOK, IngestionTypeOK
      <4>3. ReaderOK'
        BY <1>1, <1>4, <3>1, <4>2 DEF Inv, PipelineOK, ReaderOK
      <4>4. QED
        BY <1>7, <3>1, <4>1, <4>3
    <3>5. CASE ingest' = NoBatch
      BY <1>1, <1>7, <3>1, <3>5 DEF Inv, TypeOK, IngestionTypeOK, PipelineOK, ReaderOK, NoBatch
    <3>6. QED
      BY <3>3, <3>4, <3>5
  <2>3. CASE Reconcile
    <3>1. ingest.batch # 0
      BY <2>3 DEF Reconcile, Inv, PipelineOK, ReaderOK, NoBatch
    <3>2. ingest.batch = checkpoint + 1 /\ ingest.batch \in Batches /\ markers[ingest.batch] > 0
      BY <3>1 DEF Inv, PipelineOK, ReaderOK, TypeOK, IngestionTypeOK
    <3>3. ingest.batch <= taken
      BY <3>2, MarkedRows DEF Inv
    <3>4. checkpoint' = checkpoint + 1 /\ ingest' = NoBatch
      BY <2>3, <3>2 DEF Reconcile
    <3>5. ingested' \in [Batches -> SUBSET Observations]
      BY <2>3, <3>2 DEF Reconcile, Inv, TypeOK, IngestionTypeOK
    <3>6. IngestionTypeOK'
      BY <1>7, <3>2, <3>4, <3>5 DEF IngestionTypeOK
    <3>7. \A b \in 1..checkpoint' : markers[b] > 0
      BY <1>7, <3>2, <3>4 DEF Inv, PipelineOK, ReaderOK
    <3>8. ReaderOK'
      BY <1>1, <3>2, <3>3, <3>4, <3>7 DEF ReaderOK, NoBatch
    <3>9. QED
      BY <1>7, <3>4, <3>6, <3>8
  <2>4. CASE RollBack
    BY <1>1, <1>7, <2>4 DEF RollBack, Inv, TypeOK, IngestionTypeOK, PipelineOK, ReaderOK, NoBatch
  <2>5. QED
    BY <2>1, <2>2, <2>3, <2>4 DEF IngestionNext, ProcessBatch
<1>9. TypeOK'
  BY <1>3, <1>8 DEF TypeOK
<1>10. ClearedOK'
  BY <1>1, <1>8, <1>9, ClearedKept DEF Inv
<1>11. QED
  BY <1>5, <1>6, <1>8, <1>9, <1>10 DEF Inv, PipelineOK


----------------------------------------------------------------------------
(* The deletion.  A worker that lost its lease can neither count nor end   *)
(* the job, and what it had counted bounds what it still submits.          *)

\* Worker w goes on with the local state r, alone.
Puts(w, r) == cleaner'[w] = r /\ \A v \in Cleaners \ {w} : cleaner'[v] = cleaner[v]

\* No deletion step touches a batch, and only Execute touches a row.
LEMMA DeletionFrame ==
    ASSUME Inv, UNCHANGED <<collector, markers, crashes, reader>>, failures' \in 0..MaxFailures,
           rows' \in [Observations -> [batch : Batches \cup {0}, raw : BOOLEAN]],
           \A o \in Observations : rows'[o].batch = rows[o].batch
    PROVE  CollectorTypeOK' /\ IngestionTypeOK' /\ PipelineOK'
<1>1. UNCHANGED <<journal, disk, cycle, taken, markers, crashes, checkpoint, ingested, ingest>>
  BY DEF collector, reader
<1>2. CollectorTypeOK' /\ IngestionTypeOK'
  BY <1>1 DEF Inv, TypeOK, CollectorTypeOK, IngestionTypeOK
<1>3. PipelineOK'
  BY <1>1, PipelineKept DEF Inv
<1>4. QED
  BY <1>2, <1>3

\* Success is reported only after a look that found nothing.
LEMMA ClearedAgain ==
    ASSUME Inv, UNCHANGED <<rows, checkpoint>>, job'.upto = job.upto,
           job'.state = "NONE" => job.state = "NONE" /\ UNCHANGED cleaner,
           job'.state = "SUCCEEDED" => job.state = "SUCCEEDED" \/ Eligible(job.upto) = {},
           \A w \in Cleaners :
              cleaner'[w].at = "finish" /\ cleaner'[w].verdict = "SUCCEEDED" =>
                 \/ cleaner[w].at = "finish" /\ cleaner[w].verdict = "SUCCEEDED"
                 \/ Eligible(job.upto) = {}
    PROVE  ClearedOK'
<1>1. Eligible(job.upto)' = Eligible(job.upto)
  BY DEF Eligible
<1>2. SuccessMeansCleared'
  BY <1>1 DEF SuccessMeansCleared, Inv, ClearedOK
<1>3. QED
  BY <1>1, <1>2 DEF Inv, ClearedOK

\* A submission is counted before the worker reaches it.
LEMMA CountsAfter ==
    ASSUME Inv, NEW w \in Cleaners, NEW r, Puts(w, r),
           r.at \in {"status", "summary", "count"} /\ job'.owner = w => r.attempts = job'.attempts,
           r.at = "count" => r.attempts < MaxAttempts,
           job'.owner = w \/ (job'.owner = job.owner /\ job'.attempts = job.attempts),
           \/ r.at # "submit" /\ UNCHANGED mutations /\ job'.attempts = job.attempts
           \/ r.at = "submit" /\ UNCHANGED mutations /\ job'.attempts = job.attempts + 1
           \/ /\ r.at # "submit" /\ cleaner[w].at = "submit" /\ job'.attempts = job.attempts
              /\ mutations'.submitted = mutations.submitted + 1
    PROVE  CountsOK'
<1> DEFINE n == Cardinality(Submitting)
           m == Cardinality(Submitting \ {w})
           k == Cardinality(Submitting \cup {w})
<1>1. IsFiniteSet(Submitting)
  BY DEF Inv, CountsOK
<1>2. IsFiniteSet(Submitting \ {w}) /\ IsFiniteSet(Submitting \cup {w})
  BY <1>1, FS_RemoveElement, FS_AddElement
<1>3. n \in Nat /\ m \in Nat /\ k \in Nat
  BY <1>1, <1>2, FS_CardinalityType
<1>4. m = IF w \in Submitting THEN n - 1 ELSE n
  BY <1>1, FS_RemoveElement
<1>5. k = IF w \in Submitting THEN n ELSE n + 1
  BY <1>1, FS_AddElement
<1>6. Submitting' = IF r.at = "submit" THEN Submitting \cup {w} ELSE Submitting \ {w}
  BY DEF Puts, Submitting, Working
<1>7. w \in Submitting <=> cleaner[w].at = "submit"
  BY DEF Submitting, Working
<1>8. mutations.submitted \in Nat /\ job.attempts \in Nat /\ mutations.submitted + n <= job.attempts
  BY NumbersOf DEF Inv, TypeOK, DeletionTypeOK, Numbered, CountsOK, SubmissionsAreCounted, Submitting
<1> HIDE DEF n, m, k
<1>9. mutations'.submitted + Cardinality(Submitting') <= job'.attempts
  <2>1. CASE r.at = "submit"
    <3>1. Cardinality(Submitting') = k /\ UNCHANGED mutations /\ job'.attempts = job.attempts + 1
      BY <1>6, <2>1 DEF k
    <3>2. QED
      BY <1>3, <1>5, <1>8, <3>1
  <2>2. CASE r.at # "submit"
    <3>1. Cardinality(Submitting') = m /\ job'.attempts = job.attempts
      BY <1>6, <2>2 DEF m
    <3>2. CASE UNCHANGED mutations
      BY <1>3, <1>4, <1>8, <3>1, <3>2
    <3>3. CASE cleaner[w].at = "submit" /\ mutations'.submitted = mutations.submitted + 1
      BY <1>3, <1>4, <1>7, <1>8, <3>1, <3>3
    <3>4. QED
      BY <2>2, <3>2, <3>3
  <2>3. QED
    BY <2>1, <2>2
<1>10. SubmissionsAreCounted' /\ IsFiniteSet(Submitting')
  BY <1>2, <1>6, <1>9 DEF SubmissionsAreCounted, Submitting
<1>11. ASSUME NEW v \in Cleaners
       PROVE  /\ job'.owner = v /\ cleaner'[v].at \in {"status", "summary", "count"} =>
                   cleaner'[v].attempts = job'.attempts
              /\ cleaner'[v].at = "count" => cleaner'[v].attempts < MaxAttempts
  <2>1. CASE v = w
    BY <2>1 DEF Puts
  <2>2. CASE v # w
    <3>1. cleaner'[v] = cleaner[v]
      BY <2>2 DEF Puts
    <3>2. QED
      BY <2>2, <3>1 DEF Inv, CountsOK
  <2>3. QED
    BY <2>1, <2>2
<1>12. QED
  BY <1>10, <1>11 DEF CountsOK

\* The local states of a worker.
CleanerRecord ==
    [at : {"idle", "status", "summary", "count", "submit", "finish"},
     attempts : 0..MaxAttempts, seen : Progress, verdict : {"SUCCEEDED", "FAILED"}]

LEMMA IdleRecord == Idle \in CleanerRecord /\ Idle.at = "idle"
  BY DeletionAssumption DEF Idle, CleanerRecord, Progress

\* A step that gives a worker the local state r, whole.
LEMMA PutsWhole ==
    ASSUME TypeOK, NEW w \in Cleaners, NEW r \in CleanerRecord, cleaner' = [cleaner EXCEPT ![w] = r]
    PROVE  Puts(w, r) /\ cleaner' \in [Cleaners -> CleanerRecord]
<1>1. cleaner \in [Cleaners -> CleanerRecord]
  BY DEF TypeOK, DeletionTypeOK, CleanerRecord
<1>2. QED
  BY <1>1 DEF Puts

\* The next step of the worker, or another field.
LEMMA PutsField ==
    ASSUME TypeOK, NEW w \in Cleaners
    PROVE  /\ cleaner[w] \in CleanerRecord
           /\ \A step \in {"count", "submit"} :
                Advance(w, step) => cleaner' = [cleaner EXCEPT ![w] = [cleaner[w] EXCEPT !.at = step]]
           /\ \A verdict \in {"SUCCEEDED", "FAILED"} :
                Finished(w, verdict) =>
                   cleaner' = [cleaner EXCEPT ![w] = [cleaner[w] EXCEPT !.at = "finish", !.verdict = verdict]]
  BY DEF TypeOK, DeletionTypeOK, CleanerRecord, Advance, Finished


LEMMA DeletionTypes ==
    ASSUME Inv
    PROVE  /\ job.state \in {"NONE", "PENDING", "RUNNING", "SUCCEEDED", "FAILED"}
           /\ job.upto \in Batches \cup {0} /\ job.owner \in Cleaners \cup {Nobody}
           /\ job.lapsed \in BOOLEAN /\ job.attempts \in 0..MaxAttempts /\ job.attempts \in Nat
           /\ mutations.submitted \in Nat /\ mutations.undone \in Nat
           /\ \A w \in Cleaners : cleaner[w] \in CleanerRecord
  BY NumbersOf DEF Inv, TypeOK, DeletionTypeOK, CleanerRecord, Numbered

LEMMA EnqueueStep ==
    ASSUME Inv, NEW c \in Batches, Enqueue(c), UNCHANGED <<rows, checkpoint>>
    PROVE  DeletionTypeOK' /\ ClearedOK' /\ CountsOK'
<1>1. job' = [job EXCEPT !.state = "PENDING", !.upto = c] /\ job.state = "NONE" /\ c <= checkpoint
      /\ UNCHANGED <<cleaner, mutations, allowed, stalls>>
  BY NumbersOf DEF Enqueue, Inv, Numbered
<1>2. job'.state = "PENDING" /\ job'.upto = c /\ job'.owner = job.owner /\ job'.attempts = job.attempts
  BY <1>1 DEF Inv, TypeOK, DeletionTypeOK
<1>3. DeletionTypeOK'
  BY <1>1 DEF Inv, TypeOK, DeletionTypeOK
<1>4. ClearedOK'
  <2>1. job.upto = 0 /\ \A w \in Cleaners : cleaner[w].at = "idle"
    BY <1>1 DEF Inv, ClearedOK
  <2>2. \A o \in Observations : ~(rows[o].batch > 0 /\ ~rows[o].raw)
    BY <2>1, NumbersOf DEF Inv, ClearedOK, Numbered
  <2>3. QED
    BY <1>1, <1>2, <2>1, <2>2 DEF ClearedOK, SuccessMeansCleared
<1>5. CountsOK'
  <2>1. Submitting' = Submitting
    BY <1>1 DEF Submitting, Working
  <2>2. SubmissionsAreCounted'
    BY <1>1, <1>2, <2>1 DEF Inv, CountsOK, SubmissionsAreCounted, Submitting
  <2>3. QED
    BY <1>1, <1>2, <2>1, <2>2 DEF Inv, CountsOK
<1>6. QED
  BY <1>3, <1>4, <1>5

LEMMA ClaimStep ==
    ASSUME Inv, NEW w \in Cleaners, Claim(w), UNCHANGED <<rows, checkpoint>>
    PROVE  DeletionTypeOK' /\ ClearedOK' /\ CountsOK'
<1> DEFINE r == [Idle EXCEPT !.at = "status", !.attempts = job.attempts]
<1>1. job' = [job EXCEPT !.state = "RUNNING", !.owner = w, !.lapsed = FALSE]
      /\ cleaner' = [cleaner EXCEPT ![w] = r] /\ UNCHANGED <<mutations, allowed, stalls>>
  BY DEF Claim
<1>2. job'.state = "RUNNING" /\ job'.upto = job.upto /\ job'.owner = w /\ job'.attempts = job.attempts
  BY <1>1 DEF Inv, TypeOK, DeletionTypeOK
<1>3. r \in CleanerRecord /\ r.at = "status" /\ r.attempts = job.attempts
  BY DeletionTypes, IdleRecord DEF CleanerRecord
<1> HIDE DEF r
<1>4. Puts(w, r) /\ cleaner' \in [Cleaners -> CleanerRecord]
  BY <1>1, <1>3, PutsWhole DEF Inv
<1>5. DeletionTypeOK'
  BY <1>1, <1>4 DEF Inv, TypeOK, DeletionTypeOK, CleanerRecord
<1>6. ClearedOK'
  BY <1>2, <1>3, <1>4, ClearedAgain DEF Puts
<1>7. CountsOK'
  BY <1>1, <1>2, <1>3, <1>4, CountsAfter
<1>8. QED
  BY <1>5, <1>6, <1>7

\* A step of worker w that leaves the job and the mutations alone.
LEMMA AloneStep ==
    ASSUME Inv, NEW w \in Cleaners, NEW r \in CleanerRecord, cleaner' = [cleaner EXCEPT ![w] = r],
           UNCHANGED <<rows, checkpoint, job, mutations, allowed, stalls>>,
           r.at # "submit", job.state # "NONE",
           r.at \in {"status", "summary", "count"} /\ job.owner = w => r.attempts = job.attempts,
           r.at = "count" => r.attempts < MaxAttempts,
           r.at = "finish" /\ r.verdict = "SUCCEEDED" => Eligible(job.upto) = {}
    PROVE  DeletionTypeOK' /\ ClearedOK' /\ CountsOK'
<1>1. Puts(w, r) /\ cleaner' \in [Cleaners -> CleanerRecord]
  BY PutsWhole DEF Inv
<1>2. DeletionTypeOK'
  BY <1>1 DEF Inv, TypeOK, DeletionTypeOK, CleanerRecord
<1>3. ClearedOK'
  BY <1>1, ClearedAgain DEF Puts
<1>4. CountsOK'
  BY <1>1, CountsAfter
<1>5. QED
  BY <1>2, <1>3, <1>4

\* A worker is at work on a job.
LEMMA AtWork ==
    ASSUME Inv, NEW w \in Cleaners, cleaner[w].at # "idle"
    PROVE  job.state # "NONE"
  BY DEF Inv, ClearedOK

LEMMA LeaveAlone ==
    ASSUME Inv, NEW w \in Cleaners, Leave(w), cleaner[w].at # "idle",
           UNCHANGED <<rows, checkpoint, job, mutations, allowed, stalls>>
    PROVE  DeletionTypeOK' /\ ClearedOK' /\ CountsOK'
<1>1. cleaner' = [cleaner EXCEPT ![w] = Idle]
  BY DEF Leave
<1>2. QED
  BY <1>1, IdleRecord, AtWork, AloneStep

LEMMA MutationStatusStep ==
    ASSUME Inv, NEW w \in Cleaners, MutationStatus(w), UNCHANGED <<rows, checkpoint>>
    PROVE  DeletionTypeOK' /\ ClearedOK' /\ CountsOK'
<1> DEFINE seen == CASE mutations.submitted = 0 -> "none"
                     [] mutations.undone > 0 -> "running"
                     [] OTHER -> "done"
<1>1. seen \in Progress
      /\ cleaner' = [cleaner EXCEPT ![w] = [cleaner[w] EXCEPT !.at = "summary", !.seen = seen]]
  <2>1. seen \in Progress
    BY DEF Progress
  <2>2. cleaner' = [cleaner EXCEPT ![w].at = "summary", ![w].seen = seen]
    BY DEF MutationStatus
  <2> HIDE DEF seen
  <2>3. cleaner \in [Cleaners -> CleanerRecord]
    BY DEF Inv, TypeOK, DeletionTypeOK, CleanerRecord
  <2>4. QED
    BY <2>1, <2>2, <2>3 DEF CleanerRecord
<1> HIDE DEF seen
<1> DEFINE r == [cleaner[w] EXCEPT !.at = "summary", !.seen = seen]
<1>2. cleaner[w].at = "status" /\ UNCHANGED <<job, mutations, allowed, stalls>>
  BY DEF MutationStatus, Working
<1>3. r \in CleanerRecord /\ r.at = "summary" /\ r.attempts = cleaner[w].attempts
  BY <1>1, DeletionTypes DEF CleanerRecord
<1>4. cleaner' = [cleaner EXCEPT ![w] = r]
  BY <1>1
<1> HIDE DEF r
<1>5. job.owner = w => r.attempts = job.attempts
  BY <1>2, <1>3 DEF Inv, CountsOK
<1>6. job.state # "NONE"
  BY <1>2, AtWork
<1>7. QED
  BY <1>2, <1>3, <1>4, <1>5, <1>6, AloneStep

LEMMA SummaryStep ==
    ASSUME Inv, NEW w \in Cleaners, Summary(w), UNCHANGED <<rows, checkpoint>>
    PROVE  DeletionTypeOK' /\ ClearedOK' /\ CountsOK'
<1>1. cleaner[w].at = "summary" /\ UNCHANGED <<job, mutations, allowed, stalls>>
  BY DEF Summary, Working
<1>2. job.state # "NONE"
  BY <1>1, AtWork
<1>3. ASSUME NEW verdict \in {"SUCCEEDED", "FAILED"}, Finished(w, verdict),
             verdict = "SUCCEEDED" => Eligible(job.upto) = {}
      PROVE  DeletionTypeOK' /\ ClearedOK' /\ CountsOK'
  <2> DEFINE r == [cleaner[w] EXCEPT !.at = "finish", !.verdict = verdict]
  <2>1. cleaner' = [cleaner EXCEPT ![w] = r]
    BY <1>3, PutsField DEF Inv
  <2>2. r \in CleanerRecord /\ r.at = "finish" /\ r.verdict = verdict
    BY DeletionTypes DEF CleanerRecord
  <2> HIDE DEF r
  <2>3. QED
    BY <1>1, <1>2, <1>3, <2>1, <2>2, AloneStep
<1>4. ASSUME Advance(w, "count"), ~Refused(w)
      PROVE  DeletionTypeOK' /\ ClearedOK' /\ CountsOK'
  <2> DEFINE r == [cleaner[w] EXCEPT !.at = "count"]
  <2>1. cleaner' = [cleaner EXCEPT ![w] = r]
    BY <1>4, PutsField DEF Inv
  <2>2. r \in CleanerRecord /\ r.at = "count" /\ r.attempts = cleaner[w].attempts
    BY DeletionTypes DEF CleanerRecord
  <2>3. job.owner = w => cleaner[w].attempts = job.attempts
    BY <1>1 DEF Inv, CountsOK
  <2>4. cleaner[w].attempts < MaxAttempts
    <3>1. cleaner[w].attempts \in Nat
      BY NumbersOf DEF Numbered, Inv
    <3>2. QED
      BY <1>4, <3>1, DeletionAssumption DEF Refused
  <2> HIDE DEF r
  <2>5. QED
    BY <1>1, <1>2, <2>1, <2>2, <2>3, <2>4, AloneStep
<1>5. CASE Cleared(w) /\ Finished(w, "SUCCEEDED")
  BY <1>3, <1>5 DEF Cleared
<1>6. CASE Finished(w, "FAILED")
  BY <1>3, <1>6
<1>7. CASE Leave(w)
  BY <1>1, <1>7, LeaveAlone
<1>8. CASE Advance(w, "count") /\ ~Refused(w)
  BY <1>4, <1>8
<1>9. QED
  BY <1>5, <1>6, <1>7, <1>8 DEF Summary


LEMMA CountStep ==
    ASSUME Inv, NEW w \in Cleaners, Count(w), UNCHANGED <<rows, checkpoint>>
    PROVE  DeletionTypeOK' /\ ClearedOK' /\ CountsOK'
<1>1. cleaner[w].at = "count" /\ UNCHANGED <<mutations, allowed, stalls>>
  BY DEF Count, Working
<1>2. CASE ~Owned(w)
  <2>1. Leave(w) /\ UNCHANGED job
    BY <1>2 DEF Count
  <2>2. QED
    BY <1>1, <2>1, LeaveAlone
<1>3. CASE Owned(w)
  <2> DEFINE r == [cleaner[w] EXCEPT !.at = "submit"]
             n == cleaner[w].attempts + 1
  <2>1. Advance(w, "submit") /\ job' = [job EXCEPT !.attempts = n]
    BY <1>3 DEF Count
  <2>2. cleaner' = [cleaner EXCEPT ![w] = r]
    BY <2>1, PutsField DEF Inv
  <2>3. r \in CleanerRecord /\ r.at = "submit"
    BY DeletionTypes DEF CleanerRecord
  <2>4. cleaner[w].attempts = job.attempts /\ cleaner[w].attempts < MaxAttempts
    BY <1>1, <1>3 DEF Owned, Inv, CountsOK
  <2>5. n \in 0..MaxAttempts /\ n = job.attempts + 1
    BY <2>4, DeletionTypes, DeletionAssumption
  <2> HIDE DEF r, n
  <2>6. Puts(w, r) /\ cleaner' \in [Cleaners -> CleanerRecord]
    BY <2>2, <2>3, PutsWhole DEF Inv
  <2>7. DeletionTypeOK'
    BY <1>1, <2>1, <2>5, <2>6 DEF Inv, TypeOK, DeletionTypeOK, CleanerRecord
  <2>8. /\ job'.state = job.state /\ job'.upto = job.upto /\ job'.owner = w
        /\ job'.attempts = n /\ job.state = "RUNNING"
    BY <1>3, <2>1 DEF Owned, Inv, TypeOK, DeletionTypeOK
  <2>9. ClearedOK'
    BY <2>3, <2>6, <2>8, ClearedAgain DEF Puts
  <2>10. CountsOK'
    <3>1. r.at = "submit" /\ UNCHANGED mutations /\ job'.attempts = job.attempts + 1
      BY <1>1, <2>3, <2>5, <2>8
    <3>2. r.at \in {"status", "summary", "count"} /\ job'.owner = w => r.attempts = job'.attempts
      BY <2>3
    <3>3. r.at = "count" => r.attempts < MaxAttempts
      BY <2>3
    <3>4. job'.owner = w \/ (job'.owner = job.owner /\ job'.attempts = job.attempts)
      BY <2>8
    <3>5. QED
      BY <2>6, <3>1, <3>2, <3>3, <3>4, CountsAfter
  <2>11. QED
    BY <2>7, <2>9, <2>10
<1>4. QED
  BY <1>2, <1>3

LEMMA SubmitStep ==
    ASSUME Inv, NEW w \in Cleaners, Submit(w), UNCHANGED <<rows, checkpoint>>
    PROVE  DeletionTypeOK' /\ ClearedOK' /\ CountsOK'
<1>1. cleaner[w].at = "submit" /\ UNCHANGED <<job, allowed, stalls>>
      /\ cleaner' = [cleaner EXCEPT ![w] = Idle]
      /\ mutations' = [submitted |-> mutations.submitted + 1, undone |-> mutations.undone + 1]
  BY DEF Submit, Working, Leave
<1>2. Puts(w, Idle) /\ cleaner' \in [Cleaners -> CleanerRecord]
  BY <1>1, IdleRecord, PutsWhole DEF Inv
<1>3. mutations' \in [submitted : Nat, undone : Nat] /\ mutations'.submitted = mutations.submitted + 1
  BY <1>1, DeletionTypes
<1>4. DeletionTypeOK'
  BY <1>1, <1>2, <1>3 DEF Inv, TypeOK, DeletionTypeOK, CleanerRecord
<1>5. ClearedOK'
  BY <1>1, <1>2, IdleRecord, AtWork, ClearedAgain DEF Puts
<1>6. CountsOK'
  BY <1>1, <1>2, <1>3, IdleRecord, CountsAfter
<1>7. QED
  BY <1>4, <1>5, <1>6

LEMMA FinishStep ==
    ASSUME Inv, NEW w \in Cleaners, Finish(w), UNCHANGED <<rows, checkpoint>>
    PROVE  DeletionTypeOK' /\ ClearedOK' /\ CountsOK'
<1>1. cleaner[w].at = "finish" /\ UNCHANGED <<mutations, allowed, stalls>> /\ Leave(w)
  BY DEF Finish, Working
<1>2. CASE ~Owned(w)
  <2>1. UNCHANGED job
    BY <1>2 DEF Finish
  <2>2. QED
    BY <1>1, <2>1, LeaveAlone
<1>3. CASE Owned(w)
  <2> DEFINE verdict == cleaner[w].verdict
  <2>1. job' = [job EXCEPT !.state = verdict] /\ cleaner' = [cleaner EXCEPT ![w] = Idle]
    BY <1>1, <1>3 DEF Finish, Leave
  <2>2. verdict \in {"SUCCEEDED", "FAILED"}
    BY DeletionTypes DEF CleanerRecord
  <2>3. verdict = "SUCCEEDED" => Eligible(job.upto) = {}
    BY <1>1 DEF Inv, ClearedOK
  <2> HIDE DEF verdict
  <2>4. Puts(w, Idle) /\ cleaner' \in [Cleaners -> CleanerRecord]
    BY <2>1, IdleRecord, PutsWhole DEF Inv
  <2>5. DeletionTypeOK'
    BY <1>1, <2>1, <2>2, <2>4 DEF Inv, TypeOK, DeletionTypeOK, CleanerRecord
  <2>6. /\ job'.state = verdict /\ job'.upto = job.upto /\ job'.owner = job.owner
        /\ job'.attempts = job.attempts
    BY <2>1 DEF Inv, TypeOK, DeletionTypeOK
  <2>7. ClearedOK'
    BY <2>2, <2>3, <2>4, <2>6, IdleRecord, ClearedAgain DEF Puts
  <2>8. CountsOK'
    BY <1>1, <2>4, <2>6, IdleRecord, CountsAfter
  <2>9. QED
    BY <2>5, <2>7, <2>8
<1>4. QED
  BY <1>2, <1>3

LEMMA LapseStep ==
    ASSUME Inv, Lapse, UNCHANGED <<rows, checkpoint>>
    PROVE  DeletionTypeOK' /\ ClearedOK' /\ CountsOK'
<1>1. job' = [job EXCEPT !.lapsed = TRUE] /\ UNCHANGED <<cleaner, mutations, allowed>>
      /\ stalls' \in 0..MaxStalls
  BY DeletionAssumption DEF Lapse, Inv, TypeOK, DeletionTypeOK
<1>2. /\ job'.state = job.state /\ job'.upto = job.upto /\ job'.owner = job.owner
      /\ job'.attempts = job.attempts
  BY <1>1 DEF Inv, TypeOK, DeletionTypeOK
<1>3. DeletionTypeOK'
  BY <1>1 DEF Inv, TypeOK, DeletionTypeOK
<1>4. ClearedOK'
  BY <1>1, <1>2, ClearedAgain
<1>5. Submitting' = Submitting
  BY <1>1 DEF Submitting, Working
<1>6. CountsOK'
  BY <1>1, <1>2, <1>5 DEF Inv, CountsOK, SubmissionsAreCounted, Submitting
<1>7. QED
  BY <1>3, <1>4, <1>6

LEMMA RevokeStep ==
    ASSUME Inv, Revoke, UNCHANGED <<rows, checkpoint>>
    PROVE  DeletionTypeOK' /\ ClearedOK' /\ CountsOK'
<1>1. UNCHANGED <<job, cleaner, mutations, stalls>> /\ allowed' \in BOOLEAN
  BY DEF Revoke
<1>2. DeletionTypeOK'
  BY <1>1 DEF Inv, TypeOK, DeletionTypeOK
<1>3. ClearedOK'
  BY <1>1, ClearedAgain
<1>4. CountsOK'
  BY <1>1, CountsKept DEF Inv
<1>5. QED
  BY <1>2, <1>3, <1>4

\* The mutation clears what the job may clear, and nothing above its reach.
LEMMA ExecuteStep ==
    ASSUME Inv, Execute, UNCHANGED checkpoint
    PROVE  /\ DeletionTypeOK' /\ ClearedOK' /\ CountsOK'
           /\ rows' \in [Observations -> [batch : Batches \cup {0}, raw : BOOLEAN]]
           /\ \A o \in Observations : rows'[o].batch = rows[o].batch
<1>1. UNCHANGED <<job, cleaner, allowed, stalls>> /\ mutations.undone > 0
      /\ mutations' = [mutations EXCEPT !.undone = mutations.undone - 1]
  BY DEF Execute
<1>2. mutations' \in [submitted : Nat, undone : Nat] /\ mutations'.submitted = mutations.submitted
  BY <1>1 DEF Inv, TypeOK, DeletionTypeOK
<1>3. \A o \in Observations :
        rows'[o] = [rows[o] EXCEPT !.raw = rows[o].raw /\ o \notin Eligible(job.upto)]
  BY DEF Execute
<1>4. \A o \in Observations : rows[o] \in [batch : Batches \cup {0}, raw : BOOLEAN]
  BY DEF Inv, TypeOK, CollectorTypeOK
<1>5. \A o \in Observations :
        /\ rows'[o] \in [batch : Batches \cup {0}, raw : BOOLEAN]
        /\ rows'[o].batch = rows[o].batch
        /\ rows'[o].raw <=> rows[o].raw /\ o \notin Eligible(job.upto)
  <2> TAKE o \in Observations
  <2> DEFINE kept == rows[o].raw /\ o \notin Eligible(job.upto)
  <2>1. rows'[o] = [rows[o] EXCEPT !.raw = kept] /\ kept \in BOOLEAN
    BY <1>3, <1>4
  <2> HIDE DEF kept
  <2>2. /\ rows'[o] \in [batch : Batches \cup {0}, raw : BOOLEAN]
        /\ rows'[o].batch = rows[o].batch
        /\ rows'[o].raw = kept
    BY <1>4, <2>1
  <2>3. QED
    BY <2>2 DEF kept
<1>6. rows' \in [Observations -> [batch : Batches \cup {0}, raw : BOOLEAN]]
  BY <1>5 DEF Execute
<1>7. DeletionTypeOK'
  BY <1>1, <1>2 DEF Inv, TypeOK, DeletionTypeOK
<1>8. Eligible(job.upto)' = {}
  BY <1>1, <1>5 DEF Eligible
<1>9. \A o \in Observations : rows'[o].batch > 0 /\ ~rows'[o].raw => rows'[o].batch < job.upto
  <2> SUFFICES ASSUME NEW o \in Observations, rows[o].batch > 0, o \in Eligible(job.upto)
               PROVE  rows[o].batch < job.upto
    BY <1>5 DEF Inv, ClearedOK
  <2>1. rows[o].batch \in 1..(job.upto - 1) /\ job.upto \in Nat
    BY NumbersOf DEF Eligible, Inv, Numbered
  <2>2. QED
    BY <2>1
<1>10. ClearedOK'
  BY <1>1, <1>8, <1>9 DEF Inv, ClearedOK, SuccessMeansCleared
<1>11. Submitting' = Submitting
  BY <1>1 DEF Submitting, Working
<1>12. CountsOK'
  BY <1>1, <1>2, <1>11 DEF Inv, CountsOK, SubmissionsAreCounted, Submitting
<1>13. QED
  BY <1>5, <1>6, <1>7, <1>10, <1>12

LEMMA DeletionStep ==
    ASSUME Inv, DeletionNext
    PROVE  Inv'
<1>1. UNCHANGED <<collector, markers, crashes, reader, checkpoint>>
  BY DEF DeletionNext, reader
<1>2. failures' \in 0..MaxFailures
  BY JournalAssumption DEF DeletionNext, Interrupt, Execute, Fails, Inv, TypeOK, CollectorTypeOK
<1>3. /\ DeletionTypeOK' /\ ClearedOK' /\ CountsOK'
      /\ rows' \in [Observations -> [batch : Batches \cup {0}, raw : BOOLEAN]]
      /\ \A o \in Observations : rows'[o].batch = rows[o].batch
  <2>1. CASE Execute
    BY <1>1, <2>1, ExecuteStep
  <2>2. ASSUME UNCHANGED rows
        PROVE  /\ rows' \in [Observations -> [batch : Batches \cup {0}, raw : BOOLEAN]]
               /\ \A o \in Observations : rows'[o].batch = rows[o].batch
    BY <2>2 DEF Inv, TypeOK, CollectorTypeOK
  <2>3. CASE (\E w \in Cleaners : Interrupt(w)) /\ UNCHANGED rows
    <3>1. PICK w \in Cleaners : Interrupt(w)
      BY <2>3
    <3>2. cleaner[w].at # "idle" /\ Leave(w) /\ UNCHANGED <<job, mutations, allowed, stalls>>
      BY <3>1 DEF Interrupt, Working
    <3>3. QED
      BY <1>1, <2>2, <2>3, <3>2, LeaveAlone
  <2>4. CASE (\E c \in Batches : Enqueue(c)) /\ UNCHANGED rows
    BY <1>1, <2>2, <2>4, EnqueueStep
  <2>5. CASE (\E w \in Cleaners : ProcessDeletion(w)) /\ UNCHANGED rows
    BY <1>1, <2>2, <2>5, ClaimStep, MutationStatusStep, SummaryStep, CountStep, SubmitStep, FinishStep
    DEF ProcessDeletion
  <2>6. CASE (Lapse \/ Revoke) /\ UNCHANGED rows
    BY <1>1, <2>2, <2>6, LapseStep, RevokeStep
  <2>7. QED
    BY <2>1, <2>3, <2>4, <2>5, <2>6 DEF DeletionNext
<1>4. CollectorTypeOK' /\ IngestionTypeOK' /\ PipelineOK'
  BY <1>1, <1>2, <1>3, DeletionFrame
<1>5. QED
  BY <1>3, <1>4 DEF Inv, TypeOK


----------------------------------------------------------------------------
(* The theorems.  The save that stages a batch must not fail half-way: the *)
(* run of MarketDataSave shows the batch numbers used twice when it does.  *)

LEMMA StepInv == ASSUME "stage" \notin SaveMayFail, Inv, [Next]_vars PROVE Inv'
<1>1. CASE CollectorNext /\ UNCHANGED <<reader, deletion>>
  BY <1>1, CollectorStep DEF Beside
<1>2. CASE IngestionNext /\ UNCHANGED deletion
  BY <1>2, IngestionStep
<1>3. CASE DeletionNext
  BY <1>3, DeletionStep
<1>4. CASE UNCHANGED vars
  <2>1. UNCHANGED <<journal, disk, cycle, taken, rows, markers, failures, crashes, checkpoint, ingested, ingest,
                    job, cleaner, mutations, allowed, stalls>>
    BY <1>4 DEF vars, collectorVars, collector, store, reader, deletion
  <2>2. TypeOK'
    BY <2>1 DEF Inv, TypeOK, CollectorTypeOK, IngestionTypeOK, DeletionTypeOK
  <2>3. PipelineOK'
    BY <2>1, PipelineKept DEF Inv
  <2>4. CountsOK'
    BY <2>1, CountsKept DEF Inv
  <2>5. checkpoint <= checkpoint'
    BY <2>1, NumbersOf DEF Inv, Numbered
  <2>6. ClearedOK'
    BY <2>1, <2>2, <2>5, ClearedKept DEF Inv
  <2>7. QED
    BY <2>2, <2>3, <2>4, <2>6 DEF Inv
<1>5. QED
  BY <1>1, <1>2, <1>3, <1>4 DEF Next

LEMMA Invariant == ASSUME "stage" \notin SaveMayFail PROVE Spec => []Inv
<1>1. Inv /\ [Next]_vars => Inv'
  BY StepInv
<1>2. QED
  BY <1>1, InitInv, PTL DEF Spec

\* A deletion that reports success has cleared its rows, then and later, and every
\* mutation submitted was counted first (operations/raw_data.py).
THEOREM DeletionsStayTrue ==
    ASSUME "stage" \notin SaveMayFail PROVE Spec => []DeletionsAreTrue
<1>1. Inv => DeletionsAreTrue
  BY DEF Inv, ClearedOK, CountsOK, DeletionsAreTrue
<1>2. QED
  BY <1>1, Invariant, PTL

\* No two snapshots share a batch number (spool.rs), unless the save that stages one
\* fails after the number was taken.
THEOREM NumbersStayUnique ==
    ASSUME "stage" \notin SaveMayFail PROVE Spec => []NumbersAreNotReused
<1>1. Inv => NumbersAreNotReused
  BY DEF Inv, PipelineOK, RowsOK, NumbersAreNotReused
<1>2. QED
  BY <1>1, Invariant, PTL

\* The replay of a batch never restores a payload that a deletion cleared
\* (storage/raw.py, the bound on batch_id).
THEOREM ClearedStay ==
    ASSUME "stage" \notin SaveMayFail PROVE Spec => ClearedStaysCleared
<1>1. Inv /\ [Next]_vars =>
        [\A o \in Observations : rows[o].batch > 0 /\ ~rows[o].raw => ~rows'[o].raw]_vars
  <2> SUFFICES ASSUME Inv, Next, NEW o \in Observations, rows[o].batch > 0, ~rows[o].raw
               PROVE  ~rows'[o].raw
    OBVIOUS
  <2>1. CASE rows'[o] = rows[o]
    BY <2>1
  <2>2. CASE Insert
    <3>1. PICK S \in SUBSET journal.pending : rows' = Inserted(S)
      BY <2>2 DEF Insert
    <3>2. UNCHANGED taken
      BY <2>2 DEF Insert
    <3>3. rows[o].batch < job.upto /\ job.upto <= taken /\ rows[o].batch = o[2]
      <4>1. rows[o].batch \in Nat /\ job.upto \in Nat /\ checkpoint \in Nat /\ taken \in Nat
        BY NumbersOf DEF Inv, Numbered
      <4>2. job.upto <= checkpoint /\ checkpoint <= taken /\ rows[o].batch < job.upto /\ rows[o].batch = o[2]
        BY <4>1 DEF Inv, ClearedOK, PipelineOK, ReaderOK, RowsOK
      <4>3. QED
        BY <4>1, <4>2
    <3>4. o \notin S
      <4>1. rows[o].batch \in Nat /\ job.upto \in Nat /\ taken \in Nat
        BY NumbersOf DEF Inv, Numbered
      <4>2. o[2] # taken
        BY <3>3, <4>1
      <4>3. QED
        BY <3>1, <3>2, <4>2, InsertedRows DEF Inv
    <3>5. rows'[o] = rows[o]
      BY <3>1, <3>2, <3>4, InsertedRows DEF Inv
    <3>6. QED
      BY <3>5
  <2>3. CASE Execute
    <3>1. rows'[o] = [rows[o] EXCEPT !.raw = rows[o].raw /\ o \notin Eligible(job.upto)]
      BY <2>3 DEF Execute
    <3>2. rows[o] \in [batch : Batches \cup {0}, raw : BOOLEAN]
      BY DEF Inv, TypeOK, CollectorTypeOK
    <3>3. QED
      BY <3>1, <3>2
  <2>4. QED
    BY <2>1, <2>2, <2>3
    DEF Next, CollectorNext, Skip, Stage, Deliver, Mark, Acknowledge, Crash, IngestionNext, DeletionNext,
        store, collectorVars
<1>2. QED
  BY <1>1, Invariant, PTL DEF Spec, ClearedStaysCleared


----------------------------------------------------------------------------
(* The pipeline implements BatchLog: the marker publishes a batch, the     *)
(* commit of the reader delivers it, and every other step stutters.        *)

ContentOf(b) == IF markers[b] > 0 THEN RowsOf(b) ELSE {}
Contents == [b \in Batches |-> ContentOf(b)]

\* A step that marks no batch and inserts into none that is marked.
LEMMA ContentsKept ==
    ASSUME UNCHANGED markers, \A b \in Batches : markers[b] > 0 => RowsOf(b)' = RowsOf(b)
    PROVE  Contents' = Contents
<1>1. \A b \in Batches : ContentOf(b)' = ContentOf(b)
  BY DEF ContentOf
<1>2. QED
  BY <1>1 DEF Contents

\* The collector publishes nothing new with what it inserts.
LEMMA CollectorContents ==
    ASSUME Inv, CollectorNext, ~Mark
    PROVE  Contents' = Contents
<1>1. UNCHANGED markers
  BY DEF CollectorNext, Skip, Stage, Deliver, Insert, Acknowledge, Crash, store, collectorVars
<1>2. CASE Insert
  <2>1. PICK S \in SUBSET journal.pending : rows' = Inserted(S)
    BY <1>2 DEF Insert
  <2>2. UNCHANGED taken
    BY <1>2 DEF Insert
  <2>3. \A b \in Batches : markers[b] > 0 => RowsOf(b)' = RowsOf(b)
    BY <2>1, <2>2, InsertedRows DEF Inv
  <2>4. QED
    BY <1>1, <2>3, ContentsKept
<1>3. CASE ~Insert
  <2>1. UNCHANGED rows
    BY <1>3 DEF CollectorNext, Skip, Stage, Deliver, Acknowledge, Crash, store, collectorVars
  <2>2. \A b : RowsOf(b)' = RowsOf(b)
    BY <2>1 DEF RowsOf
  <2>3. QED
    BY <1>1, <2>2, ContentsKept
<1>4. QED
  BY <1>2, <1>3

\* The first marker of the last batch publishes its rows, next in order.
LEMMA MarkPublishes ==
    ASSUME Inv, Mark, UNCHANGED Beside,
           NEW n \in Batches, NEW S, n = taken, S = RowsOf(taken)
    PROVE  Log!Publish(n, S) \/ Contents' = Contents
<1>1. UNCHANGED <<rows, checkpoint, ingested>> /\ cycle = "mark"
  BY DEF Mark, Beside, reader
<1>2. /\ taken \in Batches /\ disk.pending # {} /\ RowsOf(taken) = disk.pending
      /\ Cardinality(RowsOf(taken)) > 0
      /\ Marked = [markers EXCEPT ![taken] = Cardinality(RowsOf(taken))]
      /\ markers[taken] > 0 => Marked = markers
  BY <1>1, MarkedSame DEF Inv
<1>3. \A b : RowsOf(b)' = RowsOf(b)
  BY <1>1 DEF RowsOf
<1>4. CASE markers' = markers
  BY <1>3, <1>4, ContentsKept
<1>5. CASE markers' = Marked /\ ~(markers[taken] > 0)
  <2>1. \A b \in Batches : b # taken => ContentOf(b)' = ContentOf(b)
    BY <1>2, <1>3, <1>5 DEF ContentOf, Inv, TypeOK, CollectorTypeOK
  <2>2. ContentOf(taken)' = RowsOf(taken)
    <3>1. taken' = taken /\ markers'[taken] = Cardinality(RowsOf(taken))
      BY <1>2, <1>5 DEF Mark, Inv, TypeOK, CollectorTypeOK
    <3>2. QED
      BY <1>2, <1>3, <3>1 DEF ContentOf
  <2>3. Contents' = [Contents EXCEPT ![taken] = RowsOf(taken)]
    <3>1. taken' = taken
      BY DEF Mark
    <3>2. \A b \in Batches : Contents'[b] = [Contents EXCEPT ![taken] = RowsOf(taken)][b]
      BY <2>1, <2>2, <3>1 DEF Contents
    <3>3. QED
      BY <3>2 DEF Contents
  <2>4. Log!Published = 1..(taken - 1)
    <3>1. taken \in Nat /\ taken > 0 /\ taken <= MaxSnapshots
      BY <1>2, BatchFacts
    <3>2. \A b \in Batches : b \in Log!Published <=> markers[b] > 0
      BY MarkedRows DEF Log!Published, Inv
    <3>3. \A b \in Batches : markers[b] > 0 <=> b < taken
      BY <1>5, <3>1, BatchFacts DEF Inv, PipelineOK, MarkersOK
    <3>4. Log!Published \subseteq Batches
      BY DEF Log!Published
    <3>5. \A b : b \in 1..(taken - 1) <=> b \in Batches /\ b < taken
      BY <3>1, JournalAssumption DEF Batches
    <3>6. QED
      BY <3>2, <3>3, <3>4, <3>5
  <2>5. \A c \in Batches : Contents[c] \cap RowsOf(taken) = {}
    <3> SUFFICES ASSUME NEW c \in Batches, NEW o \in ContentOf(c), o \in RowsOf(taken) PROVE FALSE
      BY DEF Contents
    <3>1. markers[c] > 0 /\ rows[o].batch = c
      BY DEF ContentOf, RowsOf
    <3>2. QED
      BY <1>5, <3>1 DEF RowsOf
  <2>6. Contents' = [Contents EXCEPT ![n] = S] /\ Log!Published = 1..(n - 1)
        /\ \A c \in Batches : Contents[c] \cap S = {}
    BY <2>3, <2>4, <2>5
  <2>7. QED
    BY <1>1, <2>6 DEF Log!Publish, Log!Published, Contents, ContentOf
<1>6. QED
  BY <1>2, <1>4, <1>5 DEF Mark

\* The commit delivers the next batch as it was published.
LEMMA ReconcileDelivers ==
    ASSUME Inv, Reconcile, UNCHANGED store
    PROVE  ingest.batch \in Batches /\ Log!Deliver(ingest.batch)
<1>1. ingest.batch # 0
  BY DEF Reconcile, Inv, PipelineOK, ReaderOK, NoBatch
<1>2. /\ ingest.batch = checkpoint + 1 /\ ingest.batch \in Batches /\ markers[ingest.batch] > 0
      /\ ingest.rows = RowsOf(ingest.batch)
  BY <1>1 DEF Reconcile, Inv, PipelineOK, ReaderOK, TypeOK, IngestionTypeOK
<1>3. RowsOf(ingest.batch) # {}
  BY <1>2, MarkedRows DEF Inv
<1>4. \A b \in Batches : ContentOf(b)' = ContentOf(b)
  BY DEF ContentOf, RowsOf, store
<1>5. ingest.batch \in Log!Published
  BY <1>2, <1>3 DEF Log!Published
<1>6. UNCHANGED Contents
  BY <1>4 DEF Contents
<1>7. ingested' = [ingested EXCEPT ![ingest.batch] = Contents[ingest.batch]] /\ checkpoint' = ingest.batch
  BY <1>2 DEF Reconcile, Contents, ContentOf
<1>8. QED
  BY <1>2, <1>5, <1>6, <1>7 DEF Log!Deliver, Contents, ContentOf

\* Replays, crashes, lost replies and deletions are invisible to a reader of the
\* batches (spool.rs, collector.rs, ingestion.py, storage/raw.py).
THEOREM PipelineImplementsLog ==
    ASSUME "stage" \notin SaveMayFail PROVE Spec => ImplementsBatchLog
<1>1. Init => Log!Init
  BY DEF Init, CollectorInit, IngestionInit, Log!Init
<1>2. Inv /\ [Next]_vars => [Log!Next]_Log!vars
  <2> SUFFICES ASSUME Inv, [Next]_vars
               PROVE  Log!Next \/ UNCHANGED <<Contents, ingested, checkpoint>>
    BY DEF Log!vars, Contents, ContentOf
  <2>1. CASE CollectorNext /\ UNCHANGED <<reader, deletion>>
    <3>1. UNCHANGED <<ingested, checkpoint>> /\ UNCHANGED Beside
      BY <2>1 DEF reader, Beside
    <3>2. CASE Mark
      <4>1. taken \in Batches /\ RowsOf(taken) \in (SUBSET Observations) \ {{}}
        <5>1. taken \in Batches /\ RowsOf(taken) = disk.pending /\ disk.pending # {}
          BY <3>2, MarkedSame DEF Mark, Inv
        <5>2. QED
          BY <5>1 DEF RowsOf
      <4>2. PICK b \in Batches, S \in (SUBSET Observations) \ {{}} : b = taken /\ S = RowsOf(taken)
        BY <4>1
      <4>3. CASE Log!Publish(b, S)
        BY <4>3 DEF Log!Next
      <4>4. CASE Contents' = Contents
        BY <3>1, <4>4
      <4>5. Log!Publish(b, S) \/ Contents' = Contents
        BY <3>1, <3>2, <4>2, MarkPublishes
      <4>6. QED
        BY <4>3, <4>4, <4>5
    <3>3. CASE ~Mark
      BY <2>1, <3>1, <3>3, CollectorContents
    <3>4. QED
      BY <3>2, <3>3
  <2>2. CASE IngestionNext /\ UNCHANGED deletion
    <3>1. CASE Reconcile
      BY <2>2, <3>1, ReconcileDelivers DEF IngestionNext, Log!Next
    <3>2. CASE ~Reconcile
      <4>1. UNCHANGED <<rows, markers, ingested, checkpoint>>
        BY <2>2, <3>2 DEF IngestionNext, ProcessBatch, NextBatch, ReadBatch, RollBack, store
      <4>2. \A b : RowsOf(b)' = RowsOf(b)
        BY <4>1 DEF RowsOf
      <4>3. QED
        BY <4>1, <4>2, ContentsKept
    <3>3. QED
      BY <3>1, <3>2
  <2>3. CASE DeletionNext
    <3>1. UNCHANGED <<markers, ingested, checkpoint>>
      BY <2>3 DEF DeletionNext, reader
    <3>2. \A o \in Observations : rows'[o].batch = rows[o].batch
      BY <2>3, <3>1, ExecuteStep DEF DeletionNext
    <3>3. \A b : RowsOf(b)' = RowsOf(b)
      BY <3>2, RowsOfSame
    <3>4. QED
      BY <3>1, <3>3, ContentsKept
  <2>4. CASE UNCHANGED vars
    <3>1. UNCHANGED <<rows, markers, ingested, checkpoint>>
      BY <2>4 DEF vars, collectorVars, store, reader
    <3>2. \A b : RowsOf(b)' = RowsOf(b)
      BY <3>1 DEF RowsOf
    <3>3. QED
      BY <3>1, <3>2, ContentsKept
  <2>5. QED
    BY <2>1, <2>2, <2>3, <2>4 DEF Next
<1>3. QED
  BY <1>1, <1>2, Invariant, PTL DEF Spec, ImplementsBatchLog, Log!Spec
=============================================================================
