--------------------------- MODULE CollectionProofs ---------------------------
(***************************************************************************)
(* Theorems about CollectionPlan and Sources.                              *)
(*                                                                         *)
(* For every set of topics, markets and exchanges and any limits: the plan *)
(* that is published, adopted and shown is one plan, and the collector     *)
(* never returns to an older one.  For every set of workers, sources,      *)
(* items, links and versions: what is stored of a source stands together.  *)
(*                                                                         *)
(* PlanIsTrue is not inductive.  The strengthening follows every copy of a *)
(* manifest and of an acknowledgement, the delayed writes included: none   *)
(* is newer than the plan, one of the plan's revision is the plan's        *)
(* manifest, and the file of the collector is never behind its memory nor  *)
(* the memory behind an acknowledgement.                                   *)
(***************************************************************************)
EXTENDS CollectionPlan, Sources, Sums, TLAPS

PlanRecord == [revision : Nat, managed : BOOLEAN, controls : BOOLEAN, coverage : BOOLEAN,
               sources : [Platform -> BOOLEAN]]
CycleRecord == [platform : Platform \cup {NoMarket}, todo : SUBSET Market,
                asked : Market \cup {NoMarket}]

\* A manifest the collector accepts, of a plan not newer than p.
Sound(s, p) ==
    /\ s.schema \in 1..3 /\ s.universe \subseteq Market
    /\ s.revision \in Nat /\ s.revision <= p.revision
    /\ Valid(s)

Acks == {ack} \cup {w.value : w \in {x \in late : x.key = "ack"}}

PlanTyped ==
    /\ plan \in PlanRecord /\ plan.revision \in 1..MaxRevision
    /\ topic \in [Topic -> {"absent", "on", "off"}]
    /\ target \in [Topic \X Market -> Tiers \cup {"absent", "paused"}]
    /\ cycle \in CycleRecord
    /\ planFaults \in 0..PlanFaults

\* Every copy of a manifest is sound, the copies of a revision agree, and those of the
\* present revision are the present manifest.
CopiesAgree ==
    /\ \A s \in Manifests \ {NoPlan} : Sound(s, plan)
    /\ \A s \in Manifests \ {NoPlan} : s.revision = plan.revision => s = Manifest
    /\ \A r, s \in Manifests \ {NoPlan} : r.revision = s.revision => r = s

\* The file is not behind the memory, nor the memory behind what it acknowledged.
MemoryIsAhead ==
    /\ adopted # NoPlan => disk # NoPlan /\ adopted.revision <= disk.revision
    /\ \A a \in Acks \ {NoPlan} :
          adopted # NoPlan /\ a.revision \in Nat /\ a.revision <= adopted.revision

\* The market that is asked for was wanted when it was asked for, and the collector
\* adopts nothing until the answer is there.
AskedIsWanted ==
    /\ \A m \in cycle.todo : PlatformOf[m] = cycle.platform
    /\ cycle.asked # NoMarket =>
         /\ PlatformOf[cycle.asked] = cycle.platform
         /\ Control(adopted, cycle.platform)
         /\ Managed(adopted) => cycle.asked \in adopted.universe

PlanInv == PlanTyped /\ CopiesAgree /\ MemoryIsAhead /\ AskedIsWanted

-----------------------------------------------------------------------------

(* The manifest *)

LEMMA ManifestTyped ==
    ASSUME PlanTyped
    PROVE  /\ Manifest.schema \in 1..3 /\ Manifest.universe \subseteq Market
           /\ Manifest.revision = plan.revision /\ Manifest.revision \in Nat
           /\ Manifest.revision > 0
           /\ Manifest.universe = Selected(topic, target, Tiers)
           /\ Manifest.enabled = plan.managed
           /\ plan.controls => Manifest.sources = plan.sources
<1> DEFINE s == Manifest
<1>1. /\ s.schema \in 1..3 /\ s.revision = plan.revision /\ s.enabled = plan.managed
      /\ s.universe = Selected(topic, target, Tiers)
      /\ plan.controls => s.sources = plan.sources
  BY DEF Manifest
<1>2. Selected(topic, target, Tiers) \subseteq Market
  BY DEF Selected
<1>3. plan.revision \in Nat /\ plan.revision > 0
  BY PlanAssumption DEF PlanTyped, PlanRecord
<1> HIDE DEF s
<1>4. QED
  BY <1>1, <1>2, <1>3 DEF s

\* A plan within the capacities has a manifest the collector accepts: one that is not of
\* schema 3 selects no standard market.
LEMMA ManifestValid ==
    ASSUME PlanTyped, WithinCapacity(topic, target)
    PROVE  Valid(Manifest)
<1> DEFINE both == Selected(topic, target, Tiers)
           priority == Selected(topic, target, {"priority"})
           standard == Selected(topic, target, {"standard"})
<1>1. standard = {} => both = priority
  BY DEF Selected, Tiers
<1>2. Manifest.schema = 3 \/ standard = {}
  BY DEF Manifest
<1>3. \A p \in Platform : /\ Cardinality(On(p, priority)) <= PriorityLimit
                          /\ Cardinality(On(p, both)) <= TotalLimit
  BY DEF WithinCapacity
<1>4. Manifest.universe = both /\ Manifest.revision > 0
  BY ManifestTyped
<1>5. \A p \in Platform : Cardinality(On(p, Manifest.universe))
                            <= IF Manifest.schema = 3 THEN TotalLimit ELSE PriorityLimit
  <2> SUFFICES ASSUME NEW p \in Platform
               PROVE  Cardinality(On(p, both)) <= IF Manifest.schema = 3 THEN TotalLimit ELSE PriorityLimit
    BY <1>4
  <2>1. CASE Manifest.schema = 3
    BY <1>3, <2>1
  <2>2. CASE Manifest.schema # 3
    <3>1. both = priority
      BY <1>1, <1>2, <2>2
    <3>2. Cardinality(On(p, both)) <= PriorityLimit
      BY <1>3, <3>1
    <3>3. QED
      BY <2>2, <3>2
  <2>3. QED
    BY <2>1, <2>2
<1>6. QED
  BY <1>4, <1>5 DEF Valid

\* The manifest is a function of the plan's tables.
LEMMA ManifestSame ==
    ASSUME UNCHANGED operatorVars PROVE Manifest' = Manifest
  BY DEF operatorVars, Manifest, Selected

LEMMA ManifestSound ==
    ASSUME PlanTyped, WithinCapacity(topic, target) PROVE Sound(Manifest, plan)
<1>1. plan.revision <= plan.revision
  BY PlanAssumption DEF PlanTyped, PlanRecord
<1>2. QED
  BY <1>1, ManifestTyped, ManifestValid DEF Sound

-----------------------------------------------------------------------------
(* The steps *)

LEMMA PlanInitially == PlanInit => PlanInv
<1> SUFFICES ASSUME PlanInit PROVE PlanInv
  OBVIOUS
<1>1. PlanTyped
  BY PlanAssumption DEF PlanInit, PlanTyped, PlanRecord, CycleRecord, Idle
<1>2. Manifests = {NoPlan} /\ Acks = {NoPlan}
  BY DEF PlanInit, Manifests, Acks
<1>3. CopiesAgree /\ MemoryIsAhead
  BY <1>2 DEF CopiesAgree, MemoryIsAhead, PlanInit
<1>4. AskedIsWanted
  BY DEF PlanInit, Idle, AskedIsWanted
<1>5. QED
  BY <1>1, <1>3, <1>4 DEF PlanInv

\* An edit makes a plan newer than every copy.
LEMMA EditInv ==
    ASSUME PlanInv, NEW p \in PlanRecord, p.revision = plan.revision,
           NEW tp \in [Topic -> {"absent", "on", "off"}],
           NEW tg \in [Topic \X Market -> Tiers \cup {"absent", "paused"}],
           RecordChange(p, tp, tg)
    PROVE  PlanInv'
<1> DEFINE n == plan.revision
<1>1. n \in 1..MaxRevision /\ n \in Nat /\ n < MaxRevision /\ MaxRevision \in Nat
  BY PlanAssumption DEF RecordChange, PlanInv, PlanTyped, PlanRecord
<1>2. /\ plan' = [p EXCEPT !.revision = n + 1] /\ topic' = tp /\ target' = tg
      /\ UNCHANGED <<published, ack, late, adopted, disk, cycle, planFaults>>
  BY DEF RecordChange
<1> HIDE DEF n
<1>3. plan' \in PlanRecord /\ plan'.revision = n + 1
  BY <1>1, <1>2 DEF PlanRecord
<1>4. PlanTyped'
  BY <1>1, <1>2, <1>3 DEF PlanInv, PlanTyped
<1>5. Manifests' = Manifests /\ Acks' = Acks
  BY <1>2 DEF Manifests, Acks
<1>6. \A s \in Manifests \ {NoPlan} : s.revision \in Nat /\ s.revision <= n
  BY DEF PlanInv, CopiesAgree, Sound, n
<1>7. CopiesAgree'
  <2>1. \A s \in Manifests \ {NoPlan} : Sound(s, plan)'
    BY <1>1, <1>3, <1>6 DEF PlanInv, CopiesAgree, Sound, Valid
  <2>2. \A s \in Manifests \ {NoPlan} : s.revision # n + 1
    BY <1>1, <1>6
  <2>3. \A r, s \in Manifests \ {NoPlan} : r.revision = s.revision => r = s
    BY DEF PlanInv, CopiesAgree
  <2>4. QED
    BY <1>3, <1>5, <2>1, <2>2, <2>3 DEF CopiesAgree
<1>8. MemoryIsAhead' /\ AskedIsWanted'
  BY <1>2, <1>5 DEF PlanInv, MemoryIsAhead, AskedIsWanted
<1>9. QED
  BY <1>4, <1>7, <1>8 DEF PlanInv

\* The copies may spread, the plan stays: what is new is its manifest.
LEMMA CopiesSpread ==
    ASSUME PlanInv, UNCHANGED operatorVars,
           \A s \in Manifests' \ {NoPlan} :
              s \in Manifests \/ (s = Manifest /\ WithinCapacity(topic, target))
    PROVE  CopiesAgree'
<1>1. Manifest' = Manifest /\ plan' = plan
  BY ManifestSame DEF operatorVars
<1>2. WithinCapacity(topic, target) => Sound(Manifest, plan)
  BY ManifestSound DEF PlanInv
<1>3. Manifest.revision = plan.revision
  BY ManifestTyped DEF PlanInv
<1>4. \A s \in Manifests' \ {NoPlan} : /\ Sound(s, plan)
                                       /\ s.revision = plan.revision => s = Manifest
  BY <1>2 DEF PlanInv, CopiesAgree
<1>5. \A r, s \in Manifests' \ {NoPlan} : r.revision = s.revision => r = s
  BY <1>3, <1>4 DEF PlanInv, CopiesAgree
<1>6. \A s : Sound(s, plan)' <=> Sound(s, plan)
  BY <1>1 DEF Sound, Valid
<1>7. QED
  BY <1>1, <1>4, <1>5, <1>6 DEF CopiesAgree


\* A fault is counted.
LEMMA FaultCounts == ASSUME PlanTyped, Fault PROVE planFaults' \in 0..PlanFaults
  BY PlanAssumption DEF PlanTyped, Fault

LEMMA PublishInv == ASSUME PlanInv, Publish PROVE PlanInv'
<1> DEFINE write == [key |-> "selection", value |-> Manifest]
<1>1. /\ UNCHANGED operatorVars /\ UNCHANGED <<ack, adopted, disk, cycle>>
      /\ WithinCapacity(topic, target)
      /\ \/ published' = Manifest /\ UNCHANGED <<late, planFaults>>
         \/ Fault /\ late' = late \cup {write} /\ UNCHANGED published
  BY DEF Publish
<1>2. write.key = "selection" /\ write.value = Manifest
  OBVIOUS
<1> HIDE DEF write
<1>3. Manifests' \subseteq Manifests \cup {Manifest}
  BY <1>1, <1>2 DEF Manifests
<1>4. Acks' = Acks
  BY <1>1, <1>2 DEF Acks
<1>5. CopiesAgree'
  BY <1>1, <1>3, CopiesSpread
<1>6. PlanTyped'
  <2>1. planFaults' \in 0..PlanFaults
    BY <1>1, FaultCounts DEF PlanInv, PlanTyped
  <2>2. QED
    BY <1>1, <2>1 DEF PlanInv, PlanTyped, operatorVars
<1>7. MemoryIsAhead' /\ AskedIsWanted'
  BY <1>1, <1>4 DEF PlanInv, MemoryIsAhead, AskedIsWanted
<1>8. QED
  BY <1>5, <1>6, <1>7 DEF PlanInv

\* Redis writes what was late or drops a key: copies get fewer.
LEMMA RedisInv ==
    ASSUME PlanInv, UNCHANGED operatorVars, UNCHANGED <<adopted, disk, cycle>>,
           Manifests' \subseteq Manifests \cup {NoPlan}, Acks' \subseteq Acks \cup {NoPlan},
           planFaults' \in 0..PlanFaults
    PROVE  PlanInv'
<1>1. CopiesAgree'
  BY CopiesSpread
<1>2. PlanTyped'
  BY DEF PlanInv, PlanTyped, operatorVars
<1>3. MemoryIsAhead' /\ AskedIsWanted'
  BY DEF PlanInv, MemoryIsAhead, AskedIsWanted
<1>4. QED
  BY <1>1, <1>2, <1>3 DEF PlanInv

LEMMA LateWriteInv == ASSUME PlanInv, NEW w \in late, LateWrite(w) PROVE PlanInv'
<1>1. /\ UNCHANGED operatorVars /\ UNCHANGED <<adopted, disk, cycle, planFaults>>
      /\ late' = late \ {w}
      /\ published' = IF w.key = "selection" THEN w.value ELSE published
      /\ ack' = IF w.key = "ack" THEN w.value ELSE ack
  BY DEF LateWrite
<1>2. Manifests' \subseteq Manifests
  BY <1>1 DEF Manifests
<1>3. Acks' \subseteq Acks
  BY <1>1 DEF Acks
<1>4. QED
  BY <1>1, <1>2, <1>3, RedisInv DEF PlanInv, PlanTyped

LEMMA ExpireInv == ASSUME PlanInv, Expire PROVE PlanInv'
<1>1. Manifests' \subseteq Manifests \cup {NoPlan} /\ Acks' \subseteq Acks \cup {NoPlan}
  BY DEF Expire, Manifests, Acks
<1>2. planFaults' \in 0..PlanFaults
  BY FaultCounts DEF Expire, PlanInv
<1>3. QED
  BY <1>1, <1>2, RedisInv DEF Expire

\* What the collector adopts is newer than what it held, and newer than all it has
\* acknowledged.
LEMMA Adopts ==
    ASSUME PlanInv, RefreshConfiguration, UNCHANGED published
    PROVE  /\ \/ adopted' = adopted /\ disk' = disk
              \/ /\ published # NoPlan
                 /\ adopted # NoPlan => published.revision > adopted.revision
                 /\ adopted' \in {adopted, published} /\ disk' \in {disk, published}
                 /\ adopted' # adopted => disk' = adopted'
           /\ planFaults' \in 0..PlanFaults
           /\ \A w \in late' \ late :
                 w.key = "ack" /\ adopted' # NoPlan /\ w.value = AckOf(adopted')
           /\ ack' = ack \/ (adopted' # NoPlan /\ ack' = AckOf(adopted'))
<1>1. CASE Unreachable
  <2> DEFINE write == [key |-> "ack", value |-> AckOf(adopted)]
  <2>1. /\ UNCHANGED <<adopted, disk, ack>>
        /\ Fault
        /\ late' = late \/ (adopted # NoPlan /\ late' = late \cup {write})
    BY <1>1 DEF Unreachable
  <2>2. write.key = "ack" /\ write.value = AckOf(adopted)
    OBVIOUS
  <2> HIDE DEF write
  <2>3. QED
    BY <2>1, <2>2, FaultCounts DEF PlanInv
<1>2. CASE (UNCHANGED planFaults \/ Fault) /\ ApplySelection /\ Acknowledge
  <2> DEFINE write == [key |-> "ack", value |-> AckOf(adopted')]
  <2>1. write.key = "ack" /\ write.value = AckOf(adopted')
    OBVIOUS
  <2>2. /\ late' = late \/ (adopted' # NoPlan /\ late' = late \cup {write})
        /\ ack' = ack \/ (adopted' # NoPlan /\ ack' = AckOf(adopted'))
    BY <1>2 DEF Acknowledge
  <2> HIDE DEF write
  <2>3. planFaults' \in 0..PlanFaults
    BY <1>2, FaultCounts DEF PlanInv, PlanTyped
  <2>4. \/ adopted' = adopted /\ disk' = disk
        \/ /\ published # NoPlan
           /\ adopted # NoPlan => published.revision > adopted.revision
           /\ adopted' \in {adopted, published} /\ disk' \in {disk, published}
           /\ adopted' # adopted => disk' = adopted'
    BY <1>2 DEF ApplySelection, Supersedes
  <2>5. QED
    BY <2>1, <2>2, <2>3, <2>4
<1>3. QED
  BY <1>1, <1>2 DEF RefreshConfiguration

LEMMA RefreshKeeps ==
    ASSUME PlanInv, RefreshConfiguration, UNCHANGED operatorVars, UNCHANGED published
    PROVE  /\ CopiesAgree' /\ MemoryIsAhead' /\ planFaults' \in 0..PlanFaults
           /\ adopted' # NoPlan => adopted'.universe \subseteq Market
<1>1. /\ \/ adopted' = adopted /\ disk' = disk
         \/ /\ published # NoPlan
            /\ adopted # NoPlan => published.revision > adopted.revision
            /\ adopted' \in {adopted, published} /\ disk' \in {disk, published}
            /\ adopted' # adopted => disk' = adopted'
      /\ planFaults' \in 0..PlanFaults
      /\ \A w \in late' \ late :
            w.key = "ack" /\ adopted' # NoPlan /\ w.value = AckOf(adopted')
      /\ ack' = ack \/ (adopted' # NoPlan /\ ack' = AckOf(adopted'))
  BY Adopts
<1>2. Manifests' \subseteq Manifests
  <2>1. {w.value : w \in {x \in late' : x.key = "selection"}}
          \subseteq {w.value : w \in {x \in late : x.key = "selection"}}
    BY <1>1
  <2>2. adopted' \in {adopted, published} /\ disk' \in {disk, published}
    BY <1>1
  <2>3. QED
    BY <2>1, <2>2 DEF Manifests
<1>3. Acks' \subseteq Acks \cup {AckOf(adopted')} /\ (adopted' = NoPlan => Acks' \subseteq Acks)
  <2>1. ASSUME NEW w \in late', w.key = "ack"
        PROVE  w \in late \/ (adopted' # NoPlan /\ w.value = AckOf(adopted'))
    BY <1>1
  <2>2. QED
    BY <1>1, <2>1 DEF Acks
<1>4. \A s \in Manifests \ {NoPlan} : s.revision \in Nat /\ s.universe \subseteq Market
  BY DEF PlanInv, CopiesAgree, Sound
<1>5. published \in Manifests /\ adopted \in Manifests /\ disk \in Manifests
        /\ adopted' \in Manifests /\ disk' \in Manifests
  BY <1>1 DEF Manifests
<1>6. adopted # NoPlan => adopted' # NoPlan /\ adopted.revision <= adopted'.revision
  BY <1>1, <1>4, <1>5
<1>7. adopted' # NoPlan => disk' # NoPlan /\ adopted'.revision <= disk'.revision
  <2>1. CASE adopted' = adopted /\ disk' = disk
    BY <2>1 DEF PlanInv, MemoryIsAhead
  <2>2. CASE adopted' # adopted
    <3>1. disk' = adopted'
      BY <1>1, <2>2
    <3>2. adopted' # NoPlan => adopted'.revision \in Nat
      BY <1>4, <1>5
    <3>3. QED
      BY <3>1, <3>2
  <2>3. CASE adopted' = adopted /\ disk' = published /\ disk' # disk
    <3>1. published # NoPlan /\ (adopted # NoPlan => published.revision > adopted.revision)
      BY <1>1, <2>3
    <3>2. adopted # NoPlan => adopted.revision <= published.revision
      BY <1>4, <1>5, <3>1
    <3>3. QED
      BY <2>3, <3>1, <3>2
  <2>4. QED
    BY <1>1, <2>1, <2>2, <2>3
<1>8. \A a \in Acks' \ {NoPlan} :
         adopted' # NoPlan /\ a.revision \in Nat /\ a.revision <= adopted'.revision
  <2> SUFFICES ASSUME NEW a \in Acks' \ {NoPlan}
               PROVE  adopted' # NoPlan /\ a.revision \in Nat /\ a.revision <= adopted'.revision
    OBVIOUS
  <2>1. CASE a \in Acks
    <3>1. adopted # NoPlan /\ a.revision \in Nat /\ a.revision <= adopted.revision
      BY <2>1 DEF PlanInv, MemoryIsAhead
    <3>2. adopted' # NoPlan /\ adopted.revision \in Nat /\ adopted'.revision \in Nat
            /\ adopted.revision <= adopted'.revision
      BY <1>4, <1>5, <1>6, <3>1
    <3>3. QED
      BY <3>1, <3>2
  <2>2. CASE a \notin Acks
    <3>1. adopted' # NoPlan /\ a = AckOf(adopted')
      BY <1>3, <2>2
    <3>2. a.revision = adopted'.revision /\ adopted'.revision \in Nat
      BY <1>4, <1>5, <3>1 DEF AckOf
    <3>3. QED
      BY <3>1, <3>2
  <2>3. QED
    BY <2>1, <2>2
<1>9. CopiesAgree'
  BY <1>2, CopiesSpread
<1>10. QED
  BY <1>1, <1>4, <1>5, <1>7, <1>8, <1>9 DEF MemoryIsAhead

LEMMA IdleCycle == Idle \in CycleRecord /\ Idle.asked = NoMarket /\ Idle.todo = {}
  BY DEF Idle, CycleRecord

LEMMA StartPlatformInv ==
    ASSUME PlanInv, NEW p \in Platform, StartPlatform(p) PROVE PlanInv'
<1> DEFINE todo == On(p, IF Managed(adopted') THEN adopted'.universe ELSE Discovered)
           started == [Idle EXCEPT !.platform = p, !.todo = todo]
<1>1. /\ RefreshConfiguration /\ UNCHANGED operatorVars /\ UNCHANGED published
      /\ cycle' = Idle \/ cycle' = started
  BY DEF StartPlatform
<1>2. CopiesAgree' /\ MemoryIsAhead' /\ planFaults' \in 0..PlanFaults
        /\ (adopted' # NoPlan => adopted'.universe \subseteq Market)
  BY <1>1, RefreshKeeps
<1>3. todo \subseteq Market /\ \A m \in todo : PlatformOf[m] = p
  BY <1>2, PlanAssumption DEF On, Managed
<1> HIDE DEF todo
<1>4. started \in CycleRecord /\ started.asked = NoMarket /\ started.todo = todo /\ started.platform = p
  BY <1>3 DEF Idle, CycleRecord
<1> HIDE DEF started
<1>5. PlanTyped'
  BY <1>1, <1>2, <1>4, IdleCycle DEF PlanInv, PlanTyped, operatorVars
<1>6. AskedIsWanted'
  BY <1>1, <1>3, <1>4, IdleCycle DEF AskedIsWanted
<1>7. QED
  BY <1>2, <1>5, <1>6 DEF PlanInv

LEMMA NextMarketInv ==
    ASSUME PlanInv, NEW m \in Market, NextMarket(m) PROVE PlanInv'
<1> DEFINE rest == [cycle EXCEPT !.todo = cycle.todo \ {m}]
           asking == [rest EXCEPT !.asked = m]
<1>1. /\ RefreshConfiguration /\ UNCHANGED operatorVars /\ UNCHANGED published
      /\ cycle.asked = NoMarket /\ m \in cycle.todo
      /\ \/ cycle' = Idle \/ cycle' = rest
         \/ /\ cycle' = asking /\ Control(adopted', cycle.platform)
            /\ Managed(adopted') => m \in adopted'.universe
  BY DEF NextMarket
<1>2. CopiesAgree' /\ MemoryIsAhead' /\ planFaults' \in 0..PlanFaults
  BY <1>1, RefreshKeeps
<1>3. cycle \in CycleRecord
  BY DEF PlanInv, PlanTyped
<1>4. /\ rest \in CycleRecord /\ rest.platform = cycle.platform
      /\ rest.todo = cycle.todo \ {m} /\ rest.asked = NoMarket
  BY <1>1, <1>3 DEF CycleRecord
<1> HIDE DEF rest
<1>5. /\ asking \in CycleRecord /\ asking.platform = cycle.platform
      /\ asking.todo = cycle.todo \ {m} /\ asking.asked = m
  BY <1>4 DEF CycleRecord
<1> HIDE DEF asking
<1>6. PlanTyped'
  BY <1>1, <1>2, <1>4, <1>5, IdleCycle DEF PlanInv, PlanTyped, operatorVars
<1>7. \A k \in cycle.todo : PlatformOf[k] = cycle.platform
  BY DEF PlanInv, AskedIsWanted
<1>8. AskedIsWanted'
  BY <1>1, <1>4, <1>5, <1>7, IdleCycle DEF AskedIsWanted
<1>9. QED
  BY <1>2, <1>6, <1>8 DEF PlanInv

\* Between requests, and after a stop, which loses nothing that was adopted.
LEMMA RestsInv ==
    ASSUME PlanInv, Answer \/ EndPlatform \/ StopCollector PROVE PlanInv'
<1>1. UNCHANGED operatorVars /\ UNCHANGED <<published, ack, late, disk>> /\ adopted' \in {adopted, disk}
        /\ planFaults' \in 0..PlanFaults
  BY FaultCounts DEF Answer, EndPlatform, StopCollector, PlanInv, PlanTyped
<1>2. Manifests' \subseteq Manifests /\ Acks' = Acks
  BY <1>1 DEF Manifests, Acks
<1>3. CopiesAgree'
  BY <1>1, <1>2, CopiesSpread
<1>4. cycle' = Idle \/ (adopted' = adopted /\ cycle' = [cycle EXCEPT !.asked = NoMarket])
  BY DEF Answer, EndPlatform, StopCollector
<1>5. [cycle EXCEPT !.asked = NoMarket] \in CycleRecord
        /\ [cycle EXCEPT !.asked = NoMarket].asked = NoMarket
        /\ [cycle EXCEPT !.asked = NoMarket].todo = cycle.todo
        /\ [cycle EXCEPT !.asked = NoMarket].platform = cycle.platform
  BY DEF PlanInv, PlanTyped, CycleRecord
<1>6. PlanTyped'
  BY <1>1, <1>4, <1>5, IdleCycle DEF PlanInv, PlanTyped, operatorVars
<1>7. AskedIsWanted'
  BY <1>4, <1>5, IdleCycle DEF PlanInv, AskedIsWanted
<1>8. MemoryIsAhead'
  <2>1. \A s \in Manifests \ {NoPlan} : s.revision \in Nat
    BY DEF PlanInv, CopiesAgree, Sound
  <2>2. adopted \in Manifests /\ disk \in Manifests
    BY DEF Manifests
  <2>3. CASE adopted' = adopted
    BY <1>1, <1>2, <2>3 DEF PlanInv, MemoryIsAhead
  <2>4. CASE adopted' = disk
    <3>1. adopted' # NoPlan => disk' # NoPlan /\ adopted'.revision <= disk'.revision
      BY <1>1, <2>1, <2>2, <2>4
    <3>2. ASSUME NEW a \in Acks \ {NoPlan}
          PROVE  disk # NoPlan /\ a.revision \in Nat /\ a.revision <= disk.revision
      <4>1. /\ adopted # NoPlan /\ a.revision \in Nat /\ a.revision <= adopted.revision
            /\ disk # NoPlan /\ adopted.revision <= disk.revision
        BY DEF PlanInv, MemoryIsAhead
      <4>2. adopted.revision \in Nat /\ disk.revision \in Nat
        BY <2>1, <2>2, <4>1
      <4>3. QED
        BY <4>1, <4>2
    <3>3. QED
      BY <1>2, <2>4, <3>1, <3>2 DEF MemoryIsAhead
  <2>5. QED
    BY <1>1, <2>3, <2>4
<1>9. QED
  BY <1>3, <1>6, <1>7, <1>8 DEF PlanInv


LEMMA PlanRows ==
    ASSUME PlanTyped
    PROVE  /\ plan \in PlanRecord
           /\ topic \in [Topic -> {"absent", "on", "off"}]
           /\ target \in [Topic \X Market -> Tiers \cup {"absent", "paused"}]
           /\ [plan EXCEPT !.managed = TRUE] \in PlanRecord
           /\ [plan EXCEPT !.managed = TRUE].revision = plan.revision
           /\ [plan EXCEPT !.coverage = TRUE, !.controls = TRUE] \in PlanRecord
           /\ [plan EXCEPT !.coverage = TRUE, !.controls = TRUE].revision = plan.revision
           /\ \A src \in [Platform -> BOOLEAN] :
                /\ [plan EXCEPT !.sources = src, !.controls = TRUE] \in PlanRecord
                /\ [plan EXCEPT !.sources = src, !.controls = TRUE].revision = plan.revision
  BY DEF PlanTyped, PlanRecord

LEMMA EditsInv == ASSUME PlanInv, Edit PROVE PlanInv'
<1>0. PlanTyped
  BY DEF PlanInv
<1>1. ASSUME NEW t \in Topic, NEW state \in {"on", "off"}, SaveTopic(t, state) PROVE PlanInv'
  <2> DEFINE tp == [topic EXCEPT ![t] = state]
  <2>1. tp \in [Topic -> {"absent", "on", "off"}] /\ RecordChange(plan, tp, target)
    BY <1>0, <1>1, PlanRows DEF SaveTopic
  <2> HIDE DEF tp
  <2>2. QED
    BY <1>0, <2>1, PlanRows, EditInv
<1>2. ASSUME NEW t \in Topic, NEW m \in Market, NEW state \in Tiers \cup {"paused"},
             SaveTarget(t, m, state)
      PROVE  PlanInv'
  <2> DEFINE tg == [target EXCEPT ![<<t, m>>] = state]
  <2>1. tg \in [Topic \X Market -> Tiers \cup {"absent", "paused"}] /\ RecordChange(plan, topic, tg)
    BY <1>0, <1>2, PlanRows DEF SaveTarget
  <2> HIDE DEF tg
  <2>2. QED
    BY <1>0, <2>1, PlanRows, EditInv
<1>3. ASSUME NEW t \in Topic, NEW ms \in SUBSET Market, ImportTopic(t, ms) PROVE PlanInv'
  <2> DEFINE new(x) == IF topic[x] = "absent" THEN "on" ELSE topic[x]
             kept == IF plan.managed THEN {} ELSE {Baseline} \X Discovered
             tp == [x \in Topic |->
                      IF x = t \/ (x = Baseline /\ ~plan.managed) THEN new(x) ELSE topic[x]]
             tg == [x \in Topic \X Market |->
                      IF x \in kept \cup ({t} \X ms) /\ target[x] = "absent"
                      THEN "priority" ELSE target[x]]
             p == [plan EXCEPT !.managed = TRUE]
  <2>1. RecordChange(p, tp, tg)
    BY <1>3 DEF ImportTopic
  <2>2. tp \in [Topic -> {"absent", "on", "off"}]
    BY <1>0, PlanRows
  <2>3. tg \in [Topic \X Market -> Tiers \cup {"absent", "paused"}]
    BY <1>0, PlanRows DEF Tiers
  <2>4. p \in PlanRecord /\ p.revision = plan.revision
    BY <1>0, PlanRows
  <2> HIDE DEF tp, tg, p
  <2>5. QED
    BY <2>1, <2>2, <2>3, <2>4, EditInv
<1>4. ASSUME NEW src \in [Platform -> BOOLEAN], ConfigureCollection(src) PROVE PlanInv'
  <2> DEFINE p == [plan EXCEPT !.sources = src, !.controls = TRUE]
  <2>1. p \in PlanRecord /\ p.revision = plan.revision /\ RecordChange(p, topic, target)
    BY <1>0, <1>4, PlanRows DEF ConfigureCollection
  <2> HIDE DEF p
  <2>2. QED
    BY <1>0, <2>1, PlanRows, EditInv
<1>5. CASE ConfigureCoverage
  <2> DEFINE p == [plan EXCEPT !.coverage = TRUE, !.controls = TRUE]
  <2>1. p \in PlanRecord /\ p.revision = plan.revision /\ RecordChange(p, topic, target)
    BY <1>0, <1>5, PlanRows DEF ConfigureCoverage
  <2> HIDE DEF p
  <2>2. QED
    BY <1>0, <2>1, PlanRows, EditInv
<1>6. ASSUME NEW t \in Topic, NEW ms \in SUBSET Market, NEW tier \in Tiers,
             SelectCatalog(t, ms, tier)
      PROVE  PlanInv'
  <2> DEFINE p == [plan EXCEPT !.coverage = TRUE, !.controls = TRUE]
             tg == [x \in Topic \X Market |-> IF x \in {t} \X ms THEN tier ELSE target[x]]
  <2>1. p \in PlanRecord /\ p.revision = plan.revision
    BY <1>0, PlanRows
  <2>2. tg \in [Topic \X Market -> Tiers \cup {"absent", "paused"}]
    BY <1>0, PlanRows
  <2>3. RecordChange(p, topic, tg)
    BY <1>6 DEF SelectCatalog
  <2> HIDE DEF p, tg
  <2>4. QED
    BY <1>0, <2>1, <2>2, <2>3, PlanRows, EditInv
<1>7. QED
  BY <1>1, <1>2, <1>3, <1>4, <1>5, <1>6 DEF Edit

LEMMA PlanStep == PlanInv /\ [PlanNext]_planVars => PlanInv'
<1> SUFFICES ASSUME PlanInv, [PlanNext]_planVars PROVE PlanInv'
  OBVIOUS
<1>1. CASE UNCHANGED planVars
  <2>1. UNCHANGED operatorVars /\ UNCHANGED <<published, ack, late, adopted, disk, cycle, planFaults>>
    BY <1>1 DEF planVars, operatorVars
  <2>2. Manifests' = Manifests /\ Acks' = Acks
    BY <2>1 DEF Manifests, Acks
  <2>3. QED
    BY <2>1, <2>2, RedisInv DEF PlanInv, PlanTyped
<1>2. CASE Collect \/ StopCollector
  BY <1>2, StartPlatformInv, NextMarketInv, RestsInv DEF Collect
<1>3. QED
  BY <1>1, <1>2, EditsInv, PublishInv, LateWriteInv, ExpireInv DEF PlanNext

-----------------------------------------------------------------------------
(* What follows *)

\* The status tells the truth: a plan shown as applied is the one adopted.
LEMMA StatusIsTrue == ASSUME PlanInv PROVE AppliedIsTrue
<1>1. ASSUME Applied PROVE adopted # NoPlan /\ adopted = Manifest
  <2>1. ack # NoPlan /\ ack.revision = plan.revision
    BY <1>1 DEF Applied
  <2>2. ack \in Acks /\ adopted \in Manifests
    BY DEF Acks, Manifests
  <2>3. adopted # NoPlan /\ plan.revision \in Nat /\ plan.revision <= adopted.revision
    BY <2>1, <2>2 DEF PlanInv, MemoryIsAhead
  <2>4. adopted.revision \in Nat /\ adopted.revision <= plan.revision
    BY <2>2, <2>3 DEF PlanInv, CopiesAgree, Sound
  <2>5. adopted.revision = plan.revision
    BY <2>3, <2>4
  <2>6. QED
    BY <2>2, <2>3, <2>5 DEF PlanInv, CopiesAgree
<1>2. ASSUME NEW p \in Platform, ShownPaused(p), cycle.asked # NoMarket,
             PlatformOf[cycle.asked] = p
      PROVE  FALSE
  <2>1. Applied /\ adopted # NoPlan /\ adopted = Manifest
    BY <1>1, <1>2 DEF ShownPaused
  <2>2. /\ cycle.platform = p /\ Control(adopted, p)
        /\ Managed(adopted) => cycle.asked \in adopted.universe
    BY <1>2 DEF PlanInv, AskedIsWanted
  <2>3. /\ adopted.universe = Selected(topic, target, Tiers)
        /\ adopted.enabled = plan.managed
        /\ plan.controls => adopted.sources = plan.sources
    BY <2>1, ManifestTyped DEF PlanInv
  <2>4. CASE plan.managed /\ On(p, Selected(topic, target, Tiers)) = {}
    <3>1. cycle.asked \in adopted.universe
      BY <2>1, <2>2, <2>3, <2>4 DEF Managed
    <3>2. cycle.asked \in On(p, Selected(topic, target, Tiers))
      BY <1>2, <2>3, <3>1 DEF On
    <3>3. QED
      BY <2>4, <3>2
  <2>5. CASE plan.controls /\ ~plan.sources[p]
    BY <2>1, <2>2, <2>3, <2>5 DEF Control
  <2>6. QED
    BY <1>2, <2>4, <2>5 DEF ShownPaused
<1>3. \A p \in Platform : ShownPaused(p) => On(p, {cycle.asked} \ {NoMarket}) = {}
  BY <1>2 DEF On
<1>4. QED
  BY <1>1, <1>3 DEF AppliedIsTrue

\* Every manifest anywhere is one the collector accepts, revisions are not used twice,
\* and the status of the console is true (publish_selection, selection_status, record_change
\* and the collector's refresh_selection).
THEOREM PlanStaysTrue == PlanSpec => []PlanIsTrue
<1>1. PlanInv => PlanIsTrue
  <2> SUFFICES ASSUME PlanInv PROVE PlanIsTrue
    OBVIOUS
  <2>1. PlanTypeOK
    <3>1. \A s \in Manifests \ {NoPlan} : s.schema \in 1..3 /\ s.universe \subseteq Market
      BY DEF PlanInv, CopiesAgree, Sound
    <3>2. QED
      BY <3>1 DEF PlanInv, PlanTyped, PlanTypeOK, PlanRecord, CycleRecord
  <2>2. PublishedIsAdoptable
    <3>1. Manifest.revision = plan.revision
      BY ManifestTyped DEF PlanInv
    <3>2. \A s \in Manifests \ {NoPlan} : Valid(s) /\ (s.revision = plan.revision => s = Manifest)
      BY DEF PlanInv, CopiesAgree, Sound
    <3>3. \A r, s \in Manifests \ {NoPlan} : r.revision = s.revision => r = s
      BY DEF PlanInv, CopiesAgree
    <3>4. QED
      BY <3>1, <3>2, <3>3 DEF PublishedIsAdoptable
  <2>3. QED
    BY <2>1, <2>2, StatusIsTrue DEF PlanIsTrue
<1>2. QED
  BY <1>1, PlanInitially, PlanStep, PTL DEF PlanSpec

\* The collector never returns to an older plan, across restarts too (apply_selection
\* and the journal it is saved in).
THEOREM AdoptionStaysForward == PlanSpec => AdoptionMovesForward
<1>1. PlanInv /\ [PlanNext]_planVars =>
        [adopted # NoPlan =>
           adopted' # NoPlan /\ (adopted' = adopted \/ adopted'.revision > adopted.revision)]_adopted
  <2> SUFFICES ASSUME PlanInv, [PlanNext]_planVars, adopted # NoPlan, adopted' # adopted
               PROVE  adopted' # NoPlan /\ adopted'.revision > adopted.revision
    OBVIOUS
  <2>1. \/ StopCollector
        \/ RefreshConfiguration /\ UNCHANGED published
    BY DEF PlanNext, planVars, Edit, SaveTopic, SaveTarget, ImportTopic, ConfigureCollection,
           ConfigureCoverage, SelectCatalog, RecordChange, Publish, LateWrite, Expire, Collect,
           StartPlatform, NextMarket, Answer, EndPlatform
  <2>2. CASE RefreshConfiguration /\ UNCHANGED published
    BY <2>2, Adopts
  <2>3. CASE StopCollector
    <3>1. adopted' = disk /\ disk # NoPlan /\ adopted.revision <= disk.revision
      BY <2>3 DEF StopCollector, PlanInv, MemoryIsAhead
    <3>2. adopted \in Manifests /\ disk \in Manifests
      BY DEF Manifests
    <3>3. adopted.revision \in Nat /\ disk.revision \in Nat /\ adopted.revision # disk.revision
      BY <3>1, <3>2 DEF PlanInv, CopiesAgree, Sound
    <3>4. QED
      BY <3>1, <3>3
  <2>4. QED
    BY <2>1, <2>2, <2>3
<1>2. QED
  BY <1>1, PlanInitially, PlanStep, PTL DEF PlanSpec, AdoptionMovesForward


-----------------------------------------------------------------------------
(***************************************************************************)
(* Sources.  SourcesOK is not inductive.  The strengthening says what an   *)
(* answer on its way is good for: if the lease is still its poll's, every  *)
(* stored revision was given by that version of the feed or an earlier     *)
(* one, and no stored document of the link is newer than the page that was *)
(* fetched.  A worker without the lease may hold anything.                 *)
(***************************************************************************)
Holder == NewsWorker \cup {NoWorker}
PageText == [url : Link, version : Nat]
Revision == [url : Link, text : Nat, dated : BOOLEAN, document : PageText \cup {NoDocument}]
ItemRow == [revisions : Seq(Revision), due : BOOLEAN, lease : Holder]
SourceRow ==
    [enabled : BOOLEAN, due : BOOLEAN, lease : Holder, lapsed : BOOLEAN, etag : Nat,
     result : {"", "failed", "empty", "partial", "updated", "unchanged"},
     count : Nat, rejected : BOOLEAN, undated : BOOLEAN, succeeded : BOOLEAN]
FeedJob == [source : EvidenceSource, reply : {"none", "body", "unmodified"}, version : Nat, etag : Nat]
PageJob == [source : EvidenceSource, item : ExternalId, url : Link, version : Nat]

SourcesTyped ==
    /\ sources \in [EvidenceSource -> SourceRow]
    /\ items \in [EvidenceSource -> [ExternalId -> ItemRow]]
    /\ newsWorkers \in [NewsWorker -> [turn : {"source", "document"}, job : FeedJob \cup PageJob \cup {NoJob}]]
    /\ \A s \in EvidenceSource : feeds[s] \in DOMAIN Body[s]
    /\ feeds \in [EvidenceSource -> Nat] /\ pageVersion \in [PageUrl -> Nat \ {0}]

\* The revision says what an entry of the first n versions of the feed says.
Given(s, n, r) == \E v \in 1..n : \E e \in ToSet(Body[s][v].entries) : e.url = r.url /\ e.text = r.text
GivenBy(s, n, R) == \A x \in ExternalId : \A r \in ToSet(R[x].revisions) : Given(s, n, r)

\* The document was read from the link, in a version it has had.
ReadFrom(r, P) ==
    r.document # NoDocument =>
        /\ r.url \in PageUrl /\ r.document.url = r.url
        /\ r.document.version \in 1..P[r.url]
AllRead(R, P) == \A x \in ExternalId : \A r \in ToSet(R[x].revisions) : ReadFrom(r, P)

\* Revision q may follow r.
Follows(r, q) ==
    r.url = q.url =>
        /\ r.text <= q.text
        /\ NoDocument \notin {r.document, q.document} => r.document.version <= q.document.version
Forward(revisions) == \A i, j \in DOMAIN revisions : i < j => Follows(revisions[i], revisions[j])
AllForward(R) == \A x \in ExternalId : Forward(R[x].revisions)

\* The validator of a source, and the rows of its items.
StoredIn(R, e) == \E x \in ExternalId : \E r \in ToSet(R[x].revisions) : r.url = e.url /\ r.text = e.text
Stands(s, S, R) ==
    S.etag > 0 =>
        /\ S.etag \in DOMAIN Body[s]
        /\ S.result # "failed"
        /\ \A e \in ToSet(Body[s][S.etag].entries) : StoredIn(R, e)
        /\ (S.result = "partial") <=> Partial(Body[s][S.etag])

\* A source from a to b: the validator is the same, and what it stood for, or dropped.
KeepsValidator(a, b) ==
    b.etag > 0 =>
        /\ b.etag = a.etag
        /\ a.result # "failed" => b.result # "failed" /\ ((b.result = "partial") <=> (a.result = "partial"))

\* What the answer to a request is good for.
NewestBody(w, K, S, R, F) ==
    K.turn = "source" /\ K.job # NoJob =>
        /\ K.job \in FeedJob
        /\ K.job.reply # "none" =>
             /\ K.job.version \in 1..F[K.job.source]
             /\ S[K.job.source].lease = w => GivenBy(K.job.source, K.job.version, R[K.job.source])
NewestPage(w, K, R, P) ==
    K.turn = "document" /\ K.job # NoJob =>
        /\ K.job \in PageJob
        /\ R[K.job.source][K.job.item].revisions # <<>>
        /\ K.job.version > 0 =>
             /\ K.job.url \in PageUrl /\ K.job.version \in 1..P[K.job.url]
             /\ R[K.job.source][K.job.item].lease = w =>
                  \A r \in ToSet(R[K.job.source][K.job.item].revisions) :
                      r.document # NoDocument /\ r.url = K.job.url => r.document.version <= K.job.version

RowsSound(s, S, R, F, P) ==
    GivenBy(s, F[s], R[s]) /\ AllRead(R[s], P) /\ AllForward(R[s]) /\ Stands(s, S[s], R[s])

SourcesInv ==
    /\ SourcesTyped
    /\ \A s \in EvidenceSource : RowsSound(s, sources, items, feeds, pageVersion)
    /\ \A w \in NewsWorker : /\ NewestBody(w, newsWorkers[w], sources, items, feeds)
                             /\ NewestPage(w, newsWorkers[w], items, pageVersion)

-----------------------------------------------------------------------------
(* The entries of a body, one after another *)

FilingStep(rows, entries, g, t) ==
    IF t = {} THEN rows ELSE WithEntry(g[t \ {Max(t)}], entries[Max(t)])
IsFiling(rows, entries, D, g) == g = [t \in SUBSET D |-> FilingStep(rows, entries, g, t)]

LEMMA FilingIs ==
    ASSUME NEW rows, NEW body
    PROVE  WithEntries(rows, body) =
             (CHOOSE g : IsFiling(rows, body.entries, DOMAIN body.entries, g))[DOMAIN body.entries]
  BY DEF WithEntries, FoldLeft, MapThenFoldSet, IsFiling, FilingStep

LEMMA LastOfRange ==
    ASSUME NEW k \in Nat, NEW t \in SUBSET (1..(k + 1)), k + 1 \in t
    PROVE  Max(t) = k + 1
<1>1. \A y \in t : k + 1 >= y
  OBVIOUS
<1>2. \A x \in t : (\A y \in t : x >= y) => x = k + 1
  OBVIOUS
<1>3. QED
  BY <1>1, <1>2 DEF Max

LEMMA RangeLoses ==
    ASSUME NEW k \in Nat, NEW t \in SUBSET (1..(k + 1)), t # {}
    PROVE  t \ {Max(t)} \in SUBSET (1..k)
<1>1. CASE k + 1 \in t
  <2>1. Max(t) = k + 1
    BY <1>1, LastOfRange
  <2>2. QED
    BY <2>1
<1>2. CASE k + 1 \notin t
  <2>1. \A y \in 1..(k + 1) : y # k + 1 => y \in 1..k
    OBVIOUS
  <2>2. t \subseteq 1..k
    BY <1>2, <2>1
  <2>3. QED
    BY <2>2
<1>3. QED
  BY <1>1, <1>2

LEMMA FilingExists ==
    ASSUME NEW rows, NEW entries
    PROVE  \A k \in Nat : \E g : IsFiling(rows, entries, 1..k, g)
<1> DEFINE Good == {k \in Nat : \E g : IsFiling(rows, entries, 1..k, g)}
<1>1. 0 \in Good
  <2> DEFINE g == [t \in SUBSET (1..0) |-> rows]
  <2>1. \A t \in SUBSET (1..0) : t = {}
    OBVIOUS
  <2>2. \A t \in SUBSET (1..0) : FilingStep(rows, entries, g, t) = rows
    BY <2>1 DEF FilingStep
  <2>3. IsFiling(rows, entries, 1..0, g)
    BY <2>2 DEF IsFiling
  <2>4. QED
    BY <2>3
<1>2. ASSUME NEW k \in Good PROVE k + 1 \in Good
  <2>0. k \in Nat /\ k + 1 \in Nat
    OBVIOUS
  <2>1. PICK g : g = [t \in SUBSET (1..k) |-> FilingStep(rows, entries, g, t)]
    BY DEF IsFiling
  <2> DEFINE h == [t \in SUBSET (1..(k + 1)) |-> FilingStep(rows, entries, g, t)]
  <2>2. \A t \in SUBSET (1..k) : t \in SUBSET (1..(k + 1))
    BY <2>0
  <2>3. \A t \in SUBSET (1..k) : g[t] = FilingStep(rows, entries, g, t)
    BY <2>1
  <2>4. \A t \in SUBSET (1..k) : h[t] = g[t]
    BY <2>2, <2>3
  <2>5. \A t \in SUBSET (1..(k + 1)) : FilingStep(rows, entries, g, t) = FilingStep(rows, entries, h, t)
    <3> HIDE DEF h
    <3> TAKE t \in SUBSET (1..(k + 1))
    <3>1. t # {} => g[t \ {Max(t)}] = h[t \ {Max(t)}]
      BY <2>0, <2>4, RangeLoses
    <3>2. QED
      BY <3>1 DEF FilingStep
  <2>6. h = [t \in SUBSET (1..(k + 1)) |-> FilingStep(rows, entries, h, t)]
    BY <2>5
  <2>7. IsFiling(rows, entries, 1..(k + 1), h)
    BY <2>6 DEF IsFiling
  <2>8. QED
    BY <2>0, <2>7
<1>3. Good = Nat
  <2> HIDE DEF Good
  <2>1. Good \subseteq Nat
    BY DEF Good
  <2>2. QED
    BY <1>1, <1>2, <2>1, NatInductionOn
<1>4. QED
  BY <1>3

\* The rows after each entry.
Stages(rows, body, h) ==
    /\ h[0] = rows
    /\ \A k \in Nat : k < Len(body.entries) => h[k + 1] = WithEntry(h[k], body.entries[k + 1])
    /\ WithEntries(rows, body) = h[Len(body.entries)]

LEMMA StagesExist ==
    ASSUME NEW rows, NEW body, body.entries \in Seq(Entry)
    PROVE  \E h : Stages(rows, body, h)
<1> DEFINE n == Len(body.entries)
           g == CHOOSE f : IsFiling(rows, body.entries, 1..n, f)
<1>1. n \in Nat /\ DOMAIN body.entries = 1..n
  OBVIOUS
<1>2. IsFiling(rows, body.entries, 1..n, g)
  BY <1>1, FilingExists
<1>3. WithEntries(rows, body) = g[1..n]
  BY <1>1, FilingIs
<1> HIDE DEF g
<1>4. \A t \in SUBSET (1..n) : g[t] = FilingStep(rows, body.entries, g, t)
  BY <1>2 DEF IsFiling
<1> DEFINE h == [k \in Nat |-> g[1..k]]
<1>5. h[0] = rows
  <2>1. 1..0 = {} /\ {} \in SUBSET (1..n)
    OBVIOUS
  <2>2. g[{}] = rows
    BY <1>4, <2>1 DEF FilingStep
  <2>3. QED
    BY <2>1, <2>2
<1>6. ASSUME NEW k \in Nat, k < n PROVE h[k + 1] = WithEntry(h[k], body.entries[k + 1])
  <2> DEFINE t == 1..(k + 1)
  <2>0. \A y \in 1..(k + 1) : y \in 1..n
    BY <1>1, <1>6
  <2>1. t \in SUBSET (1..n) /\ t \in SUBSET (1..(k + 1)) /\ k + 1 \in t /\ t # {}
    BY <2>0
  <2>2. Max(t) = k + 1
    BY <2>1, LastOfRange
  <2>3. t \ {k + 1} = 1..k
    OBVIOUS
  <2> HIDE DEF t
  <2>4. g[t] = WithEntry(g[1..k], body.entries[k + 1])
    BY <1>4, <2>1, <2>2, <2>3 DEF FilingStep
  <2>5. h[k + 1] = g[t] /\ h[k] = g[1..k]
    BY DEF t
  <2>6. QED
    BY <2>4, <2>5
<1>7. WithEntries(rows, body) = h[n]
  BY <1>1, <1>3
<1> HIDE DEF h
<1>8. QED
  BY <1>5, <1>6, <1>7 DEF Stages

-----------------------------------------------------------------------------
(* Revisions of an item *)

LEMMA ToSetHas ==
    ASSUME NEW s, NEW i \in DOMAIN s
    PROVE  s[i] \in ToSet(s)
  BY DEF ToSet

LEMMA ToSetGrows ==
    ASSUME NEW T, NEW s \in Seq(T), NEW q \in T
    PROVE  ToSet(Append(s, q)) = ToSet(s) \cup {q}
<1>1. /\ Len(Append(s, q)) = Len(s) + 1 /\ DOMAIN Append(s, q) = 1..(Len(s) + 1) /\ DOMAIN s = 1..Len(s)
      /\ \A i \in 1..Len(s) : Append(s, q)[i] = s[i]
      /\ Append(s, q)[Len(s) + 1] = q
  OBVIOUS
<1>2. 1..(Len(s) + 1) = 1..Len(s) \cup {Len(s) + 1}
  OBVIOUS
<1>3. QED
  BY <1>1, <1>2 DEF ToSet

LEMMA LastRevision ==
    ASSUME NEW s \in Seq(Revision), s # <<>>
    PROVE  /\ Last(s) \in Revision /\ Last(s) \in ToSet(s)
           /\ Forward(s) => \A r \in ToSet(s) : Follows(r, Last(s))
<1>1. Last(s) = s[Len(s)] /\ Len(s) \in DOMAIN s /\ DOMAIN s = 1..Len(s) /\ Len(s) \in Nat
  BY DEF Last
<1>2. Last(s) \in ToSet(s) /\ \A i \in DOMAIN s : s[i] \in Revision
  BY <1>1, ToSetHas
<1>3. ASSUME Forward(s), NEW r \in ToSet(s) PROVE Follows(r, Last(s))
  <2>1. PICK i \in DOMAIN s : r = s[i]
    BY DEF ToSet
  <2>2. CASE i < Len(s)
    BY <1>1, <1>3, <2>1, <2>2 DEF Forward
  <2>3. CASE i = Len(s)
    <3>1. r = Last(s) /\ r \in Revision
      BY <1>1, <1>2, <2>1, <2>3
    <3>2. r.text \in Nat /\ (r.document # NoDocument => r.document.version \in Nat)
      BY <3>1 DEF Revision, PageText
    <3>3. r.text <= r.text /\ (r.document # NoDocument => r.document.version <= r.document.version)
      BY <3>2
    <3>4. QED
      BY <3>1, <3>3 DEF Follows
  <2>4. QED
    BY <1>1, <2>2, <2>3
<1>4. QED
  BY <1>1, <1>2, <1>3

LEMMA ForwardGrows ==
    ASSUME NEW s \in Seq(Revision), NEW q \in Revision, Forward(s),
           \A r \in ToSet(s) : Follows(r, q)
    PROVE  Forward(Append(s, q))
<1>1. /\ DOMAIN Append(s, q) = 1..(Len(s) + 1) /\ DOMAIN s = 1..Len(s) /\ Len(s) \in Nat
      /\ \A i \in 1..Len(s) : Append(s, q)[i] = s[i]
      /\ Append(s, q)[Len(s) + 1] = q
  OBVIOUS
<1> DEFINE t == Append(s, q)
<1> HIDE DEF t
<1> SUFFICES ASSUME NEW i \in 1..(Len(s) + 1), NEW j \in 1..(Len(s) + 1), i < j
             PROVE  Follows(t[i], t[j])
  BY <1>1 DEF Forward, t
<1>2. i \in 1..Len(s) /\ t[i] = s[i] /\ (j \in 1..Len(s) \/ j = Len(s) + 1)
  BY <1>1 DEF t
<1>3. CASE j \in 1..Len(s)
  BY <1>1, <1>2, <1>3 DEF Forward, t
<1>4. CASE j = Len(s) + 1
  <2>1. s[i] \in ToSet(s) /\ t[j] = q
    BY <1>1, <1>2, <1>4, ToSetHas DEF t
  <2>2. QED
    BY <1>2, <2>1
<1>5. QED
  BY <1>2, <1>3, <1>4

\* The rows Q hold what R held and what the first n versions of the feed gave, with
\* no document that R had not for the link.
Extends(s, n, R, Q) ==
    /\ Q \in [ExternalId -> ItemRow]
    /\ \A x \in ExternalId : Q[x].lease = R[x].lease
    /\ \A x \in ExternalId : ToSet(R[x].revisions) \subseteq ToSet(Q[x].revisions)
    /\ \A x \in ExternalId : \A q \in ToSet(Q[x].revisions) :
          q.document # NoDocument =>
             \E r \in ToSet(R[x].revisions) : r.url = q.url /\ r.document = q.document
    /\ GivenBy(s, n, Q) /\ AllForward(Q)

LEMMA ExtendsSelf ==
    ASSUME NEW s, NEW n, NEW R \in [ExternalId -> ItemRow], GivenBy(s, n, R), AllForward(R)
    PROVE  Extends(s, n, R, R)
  BY DEF Extends

LEMMA ExtendsOn ==
    ASSUME NEW s, NEW n, NEW R, NEW Q, NEW T, Extends(s, n, R, Q), Extends(s, n, Q, T)
    PROVE  Extends(s, n, R, T)
<1>1. /\ T \in [ExternalId -> ItemRow] /\ GivenBy(s, n, T) /\ AllForward(T)
      /\ \A x \in ExternalId : T[x].lease = R[x].lease
      /\ \A x \in ExternalId : ToSet(R[x].revisions) \subseteq ToSet(T[x].revisions)
  BY DEF Extends
<1>2. ASSUME NEW x \in ExternalId, NEW t \in ToSet(T[x].revisions), t.document # NoDocument
      PROVE  \E r \in ToSet(R[x].revisions) : r.url = t.url /\ r.document = t.document
  <2>1. PICK q \in ToSet(Q[x].revisions) : q.url = t.url /\ q.document = t.document
    BY <1>2 DEF Extends
  <2>2. PICK r \in ToSet(R[x].revisions) : r.url = q.url /\ r.document = q.document
    BY <1>2, <2>1 DEF Extends
  <2>3. QED
    BY <2>1, <2>2
<1>3. QED
  BY <1>1, <1>2 DEF Extends

LEMMA StoredStays ==
    ASSUME NEW s, NEW n, NEW R, NEW Q, Extends(s, n, R, Q), NEW e, StoredIn(R, e)
    PROVE  StoredIn(Q, e)
  BY DEF StoredIn, Extends

LEMMA ItemOfIs ==
    ASSUME NEW R, NEW e \in Entry
    PROVE  ItemOf(R, e) \in ExternalId
  BY DEF ItemOf, Entry

LEMMA EntryTyped ==
    ASSUME NEW s \in EvidenceSource, NEW n \in DOMAIN Body[s]
    PROVE  /\ Body[s][n].entries \in Seq(Entry)
           /\ ToSet(Body[s][n].entries) \subseteq Entry
           /\ n \in Nat /\ n > 0 /\ DOMAIN Body[s] = 1..Len(Body[s]) /\ 1..n \subseteq DOMAIN Body[s]
<1> DEFINE T == [entries : Seq(Entry), flaws : SUBSET {"rejected", "truncated"}]
<1>0. \A b \in T : b.entries \in Seq(Entry)
  OBVIOUS
<1>1. Body[s] \in Seq(T)
  BY PublisherAssumption
<1> HIDE DEF T
<1>4. DOMAIN Body[s] = 1..Len(Body[s]) /\ Len(Body[s]) \in Nat
  BY <1>1
<1>2. Body[s][n].entries \in Seq(Entry)
  <2>1. Body[s][n] \in T
    BY <1>1, <1>4
  <2>2. QED
    BY <1>0, <2>1
<1>3. ToSet(Body[s][n].entries) \subseteq Entry
  BY <1>2 DEF ToSet
<1>5. QED
  BY <1>2, <1>3, <1>4

LEMMA GivenBefore ==
    ASSUME NEW s \in EvidenceSource, NEW n \in DOMAIN Body[s], NEW e \in ToSet(Body[s][n].entries),
           NEW r, Given(s, n, r), r.url = e.url
    PROVE  r.text <= e.text
<1>1. PICK v \in 1..n : \E f \in ToSet(Body[s][v].entries) : f.url = r.url /\ f.text = r.text
  BY DEF Given
<1>2. PICK f \in ToSet(Body[s][v].entries) : f.url = r.url /\ f.text = r.text
  BY <1>1
<1>3. v \in DOMAIN Body[s] /\ v <= n
  BY EntryTyped
<1>4. f.text <= e.text
  BY <1>2, <1>3, PublisherAssumption
<1>5. QED
  BY <1>2, <1>4

LEMMA EntryExtends ==
    ASSUME NEW s \in EvidenceSource, NEW n \in DOMAIN Body[s], NEW e \in ToSet(Body[s][n].entries),
           NEW R \in [ExternalId -> ItemRow], GivenBy(s, n, R), AllForward(R)
    PROVE  Extends(s, n, R, WithEntry(R, e)) /\ StoredIn(WithEntry(R, e), e)
<1> DEFINE x == ItemOf(R, e)
           previous == R[x].revisions
           kept == previous # <<>> /\ Last(previous).url = e.url
           document == IF kept THEN Last(previous).document ELSE NoDocument
           q == [url |-> e.url, text |-> e.text, dated |-> e.dated, document |-> document]
           changed == ~(previous # <<>> /\ Last(previous) = q)
           Q == [R EXCEPT ![x] = [R[x] EXCEPT !.revisions = Append(previous, q), !.due = TRUE]]
<1>1. e \in Entry
  BY EntryTyped
<1>2. x \in ExternalId
  BY <1>1, ItemOfIs
<1>3. WithEntry(R, e) = IF ~changed THEN R ELSE Q
  <2>1. WithEntry(R, e) = [R EXCEPT ![x] = Revised(R[x], e)]
    BY DEF WithEntry
  <2>2. Revised(R[x], e) = IF ~changed THEN R[x]
                           ELSE [R[x] EXCEPT !.revisions = Append(previous, q), !.due = TRUE]
    BY DEF Revised, Latest
  <2>3. [R EXCEPT ![x] = R[x]] = R
    OBVIOUS
  <2> HIDE DEF x, q, changed
  <2>4. QED
    BY <2>1, <2>2, <2>3
<1>4. e.url \in Link /\ e.text \in Nat /\ e.dated \in BOOLEAN
  BY <1>1 DEF Entry
<1> HIDE DEF x
<1>5. previous \in Seq(Revision)
  BY <1>2 DEF ItemRow
<1> HIDE DEF previous
<1>6. previous # <<>> => Last(previous) \in Revision /\ Last(previous) \in ToSet(previous)
  BY <1>5, LastRevision
<1>7. document \in PageText \cup {NoDocument}
  BY <1>6 DEF Revision
<1>8. /\ q \in Revision /\ q.url = e.url /\ q.text = e.text /\ q.document = document
  BY <1>4, <1>7 DEF Revision
<1>9. document # NoDocument => kept /\ document = Last(previous).document
  OBVIOUS
<1> HIDE DEF document, q
<1>10. \A r \in ToSet(previous) : Given(s, n, r)
  BY <1>2 DEF GivenBy, previous
<1>11. Forward(previous)
  BY <1>2 DEF AllForward, previous
<1>12. ASSUME NEW r \in ToSet(previous) PROVE Follows(r, q)
  <2> SUFFICES ASSUME r.url = e.url
               PROVE  /\ r.text <= q.text
                      /\ NoDocument \notin {r.document, q.document} => r.document.version <= q.document.version
    BY <1>8 DEF Follows
  <2>1. r.text <= q.text
    BY <1>8, <1>10, GivenBefore
  <2>2. ASSUME NoDocument \notin {r.document, q.document}
        PROVE  r.document.version <= q.document.version
    <3>1. kept /\ q.document = Last(previous).document
      BY <1>8, <1>9, <2>2
    <3>2. Follows(r, Last(previous))
      BY <1>5, <1>11, <3>1, LastRevision
    <3>3. QED
      BY <2>2, <3>1, <3>2 DEF Follows
  <2>3. QED
    BY <2>1, <2>2
<1>13. CASE changed
  <2>1. Append(previous, q) \in Seq(Revision)
    BY <1>5, <1>8
  <2> DEFINE longer == Append(previous, q)
  <2>0. Q = [R EXCEPT ![x] = [R[x] EXCEPT !.revisions = longer, !.due = TRUE]] /\ longer \in Seq(Revision)
    BY <2>1
  <2> HIDE DEF Q, longer
  <2>2. /\ Q \in [ExternalId -> ItemRow]
        /\ Q[x].revisions = longer /\ Q[x].lease = R[x].lease
        /\ \A y \in ExternalId : y # x => Q[y] = R[y]
    BY <1>2, <2>0 DEF ItemRow
  <2>3. ToSet(Q[x].revisions) = ToSet(R[x].revisions) \cup {q}
    BY <1>5, <1>8, <2>2, ToSetGrows DEF previous, longer
  <2>4. GivenBy(s, n, Q)
    <3>1. n \in 1..n
      BY EntryTyped
    <3>2. Given(s, n, q)
      BY <1>8, <3>1 DEF Given
    <3>3. QED
      BY <2>2, <2>3, <3>2 DEF GivenBy
  <2>5. AllForward(Q)
    <3>1. Forward(Q[x].revisions)
      BY <1>5, <1>8, <1>11, <1>12, <2>2, ForwardGrows DEF longer
    <3>2. QED
      BY <2>2, <3>1 DEF AllForward
  <2>6. ASSUME NEW y \in ExternalId, NEW t \in ToSet(Q[y].revisions), t.document # NoDocument
        PROVE  \E r \in ToSet(R[y].revisions) : r.url = t.url /\ r.document = t.document
    <3>1. CASE t \in ToSet(R[y].revisions)
      BY <3>1
    <3>2. CASE y = x /\ t = q
      <4>1. kept /\ q.document = Last(previous).document
        BY <1>8, <1>9, <2>6, <3>2
      <4>2. Last(previous) \in ToSet(R[y].revisions) /\ Last(previous).url = t.url
        BY <1>6, <1>8, <3>2, <4>1 DEF previous
      <4>3. QED
        BY <3>2, <4>1, <4>2
    <3>3. QED
      BY <2>2, <2>3, <2>6, <3>1, <3>2
  <2>7. StoredIn(Q, e)
    BY <1>2, <1>8, <2>3 DEF StoredIn
  <2>8. Extends(s, n, R, Q)
    BY <2>2, <2>3, <2>4, <2>5, <2>6 DEF Extends
  <2>9. QED
    BY <1>3, <1>13, <2>7, <2>8
<1>14. CASE ~changed
  <2>1. Last(previous) \in ToSet(R[x].revisions) /\ Last(previous).url = e.url /\ Last(previous).text = e.text
    BY <1>6, <1>8, <1>14 DEF previous
  <2>2. StoredIn(R, e)
    BY <1>2, <2>1 DEF StoredIn
  <2>3. QED
    BY <1>3, <1>14, <2>2, ExtendsSelf
<1>15. QED
  BY <1>13, <1>14

LEMMA BodyExtends ==
    ASSUME NEW s \in EvidenceSource, NEW n \in DOMAIN Body[s],
           NEW R \in [ExternalId -> ItemRow], GivenBy(s, n, R), AllForward(R)
    PROVE  /\ Extends(s, n, R, WithEntries(R, Body[s][n]))
           /\ \A e \in ToSet(Body[s][n].entries) : StoredIn(WithEntries(R, Body[s][n]), e)
<1> DEFINE entries == Body[s][n].entries
<1>1. entries \in Seq(Entry) /\ Len(entries) \in Nat /\ DOMAIN entries = 1..Len(entries)
  BY EntryTyped
<1>2. PICK h : Stages(R, Body[s][n], h)
  BY <1>1, StagesExist
<1> DEFINE Filed(k) == /\ Extends(s, n, R, h[k])
                       /\ \A i \in 1..k : StoredIn(h[k], entries[i])
           Good == {k \in Nat : k <= Len(entries) => Filed(k)}
<1>3. 0 \in Good
  <2>1. h[0] = R
    BY <1>2 DEF Stages
  <2>2. 1..0 = {} /\ 0 \in Nat
    OBVIOUS
  <2>3. QED
    BY <2>1, <2>2, ExtendsSelf
<1>4. ASSUME NEW k \in Good PROVE k + 1 \in Good
  <2> SUFFICES ASSUME k + 1 <= Len(entries) PROVE k \in Nat /\ Filed(k + 1)
    OBVIOUS
  <2>1. k \in Nat /\ k < Len(entries) /\ k <= Len(entries)
    BY <1>1
  <2>2. Filed(k)
    BY <2>1
  <2>3. h[k + 1] = WithEntry(h[k], entries[k + 1])
    BY <1>2, <2>1 DEF Stages
  <2>4. k + 1 \in DOMAIN entries
    BY <1>1, <2>1
  <2>5. entries[k + 1] \in ToSet(Body[s][n].entries)
    BY <2>4, ToSetHas
  <2>6. h[k] \in [ExternalId -> ItemRow] /\ GivenBy(s, n, h[k]) /\ AllForward(h[k])
    BY <2>2 DEF Extends
  <2>7. Extends(s, n, h[k], h[k + 1]) /\ StoredIn(h[k + 1], entries[k + 1])
    BY <2>3, <2>5, <2>6, EntryExtends
  <2>8. Extends(s, n, R, h[k + 1])
    BY <2>2, <2>7, ExtendsOn
  <2>9. \A i \in 1..(k + 1) : i \in 1..k \/ i = k + 1
    BY <2>1
  <2>10. \A i \in 1..k : StoredIn(h[k + 1], entries[i])
    BY <2>2, <2>7, StoredStays
  <2>11. QED
    BY <2>1, <2>7, <2>8, <2>9, <2>10
<1>5. Good = Nat
  <2> HIDE DEF Good
  <2>1. Good \subseteq Nat
    BY DEF Good
  <2>2. QED
    BY <1>3, <1>4, <2>1, NatInductionOn
<1>6. Filed(Len(entries))
  BY <1>1, <1>5
<1>7. WithEntries(R, Body[s][n]) = h[Len(entries)]
  BY <1>2 DEF Stages
<1>8. ASSUME NEW e \in ToSet(entries) PROVE StoredIn(h[Len(entries)], e)
  <2>1. PICK i \in DOMAIN entries : e = entries[i]
    BY DEF ToSet
  <2>2. QED
    BY <1>1, <1>6, <2>1
<1>9. QED
  BY <1>6, <1>7, <1>8

-----------------------------------------------------------------------------
(* What a step leaves of the answers on their way *)

\* Later numbers.
Later(F, F2) == \A s \in EvidenceSource : F[s] \in Nat /\ F2[s] \in Nat /\ F[s] <= F2[s]
LaterPages(P, P2) == \A u \in PageUrl : P[u] \in Nat /\ P2[u] \in Nat /\ P[u] <= P2[u]

\* The rows Q say nothing of a link that R did not say; the item i2 has no document
\* that i had not.
TextsIn(R, Q) ==
    \A x \in ExternalId : \A q \in ToSet(Q[x].revisions) :
        \E r \in ToSet(R[x].revisions) : r.url = q.url /\ r.text = q.text
DocumentsIn(i, i2) ==
    \A q \in ToSet(i2.revisions) :
        q.document # NoDocument => \E r \in ToSet(i.revisions) : r.url = q.url /\ r.document = q.document

\* The leases that worker v still has protect what it is doing.
Protects(v, S, R, S2, R2) ==
    /\ \A s \in EvidenceSource : S2[s].lease = v => S[s].lease = v /\ TextsIn(R[s], R2[s])
    /\ \A s \in EvidenceSource, x \in ExternalId :
         /\ R[s][x].revisions # <<>> => R2[s][x].revisions # <<>>
         /\ R2[s][x].lease = v => R[s][x].lease = v /\ DocumentsIn(R[s][x], R2[s][x])

LEMMA GivenStays ==
    ASSUME NEW s, NEW n, NEW R, NEW Q, GivenBy(s, n, R), TextsIn(R, Q)
    PROVE  GivenBy(s, n, Q)
  BY DEF GivenBy, TextsIn, Given

LEMMA GivenLater ==
    ASSUME NEW s, NEW n \in Nat, NEW m \in Nat, n <= m, NEW R, GivenBy(s, n, R)
    PROVE  GivenBy(s, m, R)
<1>1. \A v \in 1..n : v \in 1..m
  OBVIOUS
<1>2. QED
  BY <1>1 DEF GivenBy, Given

LEMMA BodyStays ==
    ASSUME NEW v, NEW K, NEW S, NEW R, NEW F, NEW S2, NEW R2, NEW F2,
           NewestBody(v, K, S, R, F), Protects(v, S, R, S2, R2), Later(F, F2)
    PROVE  NewestBody(v, K, S2, R2, F2)
<1> SUFFICES ASSUME K.turn = "source", K.job # NoJob, K.job.reply # "none"
             PROVE  /\ K.job.version \in 1..F2[K.job.source]
                    /\ S2[K.job.source].lease = v => GivenBy(K.job.source, K.job.version, R2[K.job.source])
  BY DEF NewestBody
<1>1. K.job \in FeedJob /\ K.job.source \in EvidenceSource
  BY DEF NewestBody, FeedJob
<1>2. K.job.version \in 1..F[K.job.source]
  BY DEF NewestBody
<1>3. K.job.version \in 1..F2[K.job.source]
  BY <1>1, <1>2 DEF Later
<1>4. ASSUME S2[K.job.source].lease = v
      PROVE  GivenBy(K.job.source, K.job.version, R2[K.job.source])
  <2>1. S[K.job.source].lease = v /\ TextsIn(R[K.job.source], R2[K.job.source])
    BY <1>1, <1>4 DEF Protects
  <2>2. GivenBy(K.job.source, K.job.version, R[K.job.source])
    BY <2>1 DEF NewestBody
  <2>3. QED
    BY <2>1, <2>2, GivenStays
<1>5. QED
  BY <1>3, <1>4

LEMMA PageStays ==
    ASSUME NEW v, NEW K, NEW S, NEW R, NEW P, NEW S2, NEW R2, NEW P2,
           NewestPage(v, K, R, P), Protects(v, S, R, S2, R2), LaterPages(P, P2)
    PROVE  NewestPage(v, K, R2, P2)
<1> SUFFICES ASSUME K.turn = "document", K.job # NoJob
             PROVE  /\ K.job \in PageJob
                    /\ R2[K.job.source][K.job.item].revisions # <<>>
                    /\ K.job.version > 0 =>
                         /\ K.job.url \in PageUrl /\ K.job.version \in 1..P2[K.job.url]
                         /\ R2[K.job.source][K.job.item].lease = v =>
                              \A r \in ToSet(R2[K.job.source][K.job.item].revisions) :
                                  r.document # NoDocument /\ r.url = K.job.url =>
                                      r.document.version <= K.job.version
  BY DEF NewestPage
<1> DEFINE s == K.job.source
           x == K.job.item
<1>1. K.job \in PageJob /\ s \in EvidenceSource /\ x \in ExternalId
  BY DEF NewestPage, PageJob
<1>2. R2[s][x].revisions # <<>>
  BY <1>1 DEF NewestPage, Protects
<1>3. ASSUME K.job.version > 0
      PROVE  K.job.url \in PageUrl /\ K.job.version \in 1..P2[K.job.url]
  <2>1. K.job.url \in PageUrl /\ K.job.version \in 1..P[K.job.url]
    BY <1>3 DEF NewestPage
  <2>2. QED
    BY <2>1 DEF LaterPages
<1>4. ASSUME K.job.version > 0, R2[s][x].lease = v, NEW q \in ToSet(R2[s][x].revisions),
             q.document # NoDocument, q.url = K.job.url
      PROVE  q.document.version <= K.job.version
  <2>1. R[s][x].lease = v /\ DocumentsIn(R[s][x], R2[s][x])
    BY <1>1, <1>4 DEF Protects
  <2>2. PICK r \in ToSet(R[s][x].revisions) : r.url = q.url /\ r.document = q.document
    BY <1>4, <2>1 DEF DocumentsIn
  <2>3. r.document.version <= K.job.version
    BY <1>4, <2>1, <2>2 DEF NewestPage
  <2>4. QED
    BY <2>2, <2>3
<1>5. QED
  BY <1>1, <1>2, <1>3, <1>4

LEMMA SameIn ==
    ASSUME NEW R, NEW Q, \A x \in ExternalId : Q[x].revisions = R[x].revisions
    PROVE  TextsIn(R, Q) /\ \A x \in ExternalId : DocumentsIn(R[x], Q[x])
  BY DEF TextsIn, DocumentsIn

\* Leases that are cleared, or taken by w, protect the other workers.
LEMMA LeasesProtect ==
    ASSUME NEW S, NEW R, NEW S2, NEW R2, NEW w, NEW v \in NewsWorker, v # w,
           \A s \in EvidenceSource : S2[s].lease \in {S[s].lease, NoWorker, w},
           \A s \in EvidenceSource, x \in ExternalId :
              /\ R2[s][x].revisions = R[s][x].revisions
              /\ R2[s][x].lease \in {R[s][x].lease, NoWorker, w}
    PROVE  Protects(v, S, R, S2, R2)
<1>1. v # NoWorker
  BY SourcesAssumption
<1>2. \A s \in EvidenceSource : S2[s].lease = v => S[s].lease = v
  BY <1>1
<1>3. \A s \in EvidenceSource, x \in ExternalId : R2[s][x].lease = v => R[s][x].lease = v
  BY <1>1
<1>4. \A s \in EvidenceSource : TextsIn(R[s], R2[s]) /\ \A x \in ExternalId : DocumentsIn(R[s][x], R2[s][x])
  BY SameIn
<1>5. QED
  BY <1>2, <1>3, <1>4 DEF Protects

LEMMA RowsStay ==
    ASSUME NEW s \in EvidenceSource, NEW S, NEW R, NEW F, NEW P, NEW S2, NEW R2, NEW F2, NEW P2,
           RowsSound(s, S, R, F, P), Later(F, F2), LaterPages(P, P2),
           \A x \in ExternalId : R2[s][x].revisions = R[s][x].revisions,
           KeepsValidator(S[s], S2[s])
    PROVE  RowsSound(s, S2, R2, F2, P2)
<1>1. GivenBy(s, F2[s], R2[s])
  <2>1. GivenBy(s, F2[s], R[s])
    BY GivenLater DEF RowsSound, Later
  <2>2. QED
    BY <2>1, GivenStays, SameIn
<1>2. AllRead(R2[s], P2)
  <2> SUFFICES ASSUME NEW x \in ExternalId, NEW r \in ToSet(R[s][x].revisions), ReadFrom(r, P)
               PROVE  ReadFrom(r, P2)
    BY DEF AllRead, RowsSound
  <2>1. r.url \in PageUrl /\ r.document.version \in 1..P[r.url] => r.document.version \in 1..P2[r.url]
    BY DEF LaterPages
  <2>2. QED
    BY <2>1 DEF ReadFrom
<1>3. AllForward(R2[s])
  BY DEF AllForward, RowsSound
<1>4. Stands(s, S2[s], R2[s])
  <2>1. \A e : StoredIn(R[s], e) => StoredIn(R2[s], e)
    BY DEF StoredIn
  <2>2. SUFFICES ASSUME S2[s].etag > 0
                 PROVE  /\ S2[s].etag \in DOMAIN Body[s]
                        /\ S2[s].result # "failed"
                        /\ \A e \in ToSet(Body[s][S2[s].etag].entries) : StoredIn(R2[s], e)
                        /\ (S2[s].result = "partial") <=> Partial(Body[s][S2[s].etag])
    BY DEF Stands
  <2>3. S2[s].etag = S[s].etag
    BY <2>2 DEF KeepsValidator
  <2>4. /\ S[s].etag \in DOMAIN Body[s]
        /\ S[s].result # "failed"
        /\ \A e \in ToSet(Body[s][S[s].etag].entries) : StoredIn(R[s], e)
        /\ (S[s].result = "partial") <=> Partial(Body[s][S[s].etag])
    BY <2>2, <2>3 DEF Stands, RowsSound
  <2>5. S2[s].result # "failed" /\ ((S2[s].result = "partial") <=> (S[s].result = "partial"))
    BY <2>2, <2>4 DEF KeepsValidator
  <2>6. QED
    BY <2>1, <2>3, <2>4, <2>5
<1>5. QED
  BY <1>1, <1>2, <1>3, <1>4 DEF RowsSound

LEMMA SameValidator ==
    \A a, b : (b.etag = a.etag /\ b.result = a.result) \/ b.etag = 0 => KeepsValidator(a, b)
  BY DEF KeepsValidator

LEMMA NumbersStay ==
    ASSUME SourcesTyped
    PROVE  Later(feeds, feeds) /\ LaterPages(pageVersion, pageVersion)
  BY DEF SourcesTyped, Later, LaterPages

\* A step of worker w (or of nobody) that writes no revision.
LEMMA QuietStep ==
    ASSUME SourcesInv, SourcesTyped', NEW w,
           \A s \in EvidenceSource : KeepsValidator(sources[s], sources'[s]),
           \A s \in EvidenceSource : sources'[s].lease \in {sources[s].lease, NoWorker, w},
           \A s \in EvidenceSource, x \in ExternalId :
              /\ items'[s][x].revisions = items[s][x].revisions
              /\ items'[s][x].lease \in {items[s][x].lease, NoWorker, w},
           Later(feeds, feeds'), LaterPages(pageVersion, pageVersion'),
           \A v \in NewsWorker : v # w => newsWorkers'[v] = newsWorkers[v],
           w \in NewsWorker => /\ NewestBody(w, newsWorkers'[w], sources', items', feeds')
                               /\ NewestPage(w, newsWorkers'[w], items', pageVersion')
    PROVE  SourcesInv'
<1>1. ASSUME NEW s \in EvidenceSource PROVE RowsSound(s, sources', items', feeds', pageVersion')
  BY RowsStay DEF SourcesInv
<1>2. ASSUME NEW v \in NewsWorker, v # w
      PROVE  /\ NewestBody(v, newsWorkers'[v], sources', items', feeds')
             /\ NewestPage(v, newsWorkers'[v], items', pageVersion')
  <2>1. Protects(v, sources, items, sources', items')
    BY <1>2, LeasesProtect
  <2>2. newsWorkers'[v] = newsWorkers[v]
    BY <1>2
  <2>3. NewestBody(v, newsWorkers[v], sources', items', feeds')
    BY <2>1, BodyStays DEF SourcesInv
  <2>4. NewestPage(v, newsWorkers[v], items', pageVersion')
    BY <2>1, PageStays DEF SourcesInv
  <2>5. QED
    BY <2>2, <2>3, <2>4
<1>3. QED
  BY <1>1, <1>2 DEF SourcesInv

LEMMA AtRest ==
    ASSUME NEW w, NEW K, K.job = NoJob, NEW S, NEW R, NEW F, NEW P
    PROVE  NewestBody(w, K, S, R, F) /\ NewestPage(w, K, R, P)
  BY DEF NewestBody, NewestPage

\* What a worker does next.
LEMMA Turned ==
    ASSUME SourcesTyped, NEW w \in NewsWorker, NEW next \in {"source", "document"},
           NEW job \in FeedJob \cup PageJob \cup {NoJob}, Turn(w, next, job)
    PROVE  /\ newsWorkers' \in [NewsWorker -> [turn : {"source", "document"}, job : FeedJob \cup PageJob \cup {NoJob}]]
           /\ newsWorkers'[w].turn = next /\ newsWorkers'[w].job = job
           /\ \A v \in NewsWorker : v # w => newsWorkers'[v] = newsWorkers[v]
<1>1. newsWorkers \in [NewsWorker -> [turn : {"source", "document"}, job : FeedJob \cup PageJob \cup {NoJob}]]
  BY DEF SourcesTyped
<1>2. newsWorkers' = [newsWorkers EXCEPT ![w] = [turn |-> next, job |-> job]]
  BY DEF Turn
<1>3. [turn |-> next, job |-> job] \in [turn : {"source", "document"}, job : FeedJob \cup PageJob \cup {NoJob}]
  OBVIOUS
<1>4. QED
  BY <1>1, <1>2, <1>3

\* A step that changes only what a worker does next.
LEMMA OnlyTurns ==
    ASSUME SourcesInv, NEW w \in NewsWorker, NEW next \in {"source", "document"},
           NEW job \in FeedJob \cup PageJob \cup {NoJob}, Turn(w, next, job),
           UNCHANGED <<sources, items, feeds, pageVersion>>,
           LET K == newsWorkers'[w]
           IN  NewestBody(w, K, sources, items, feeds) /\ NewestPage(w, K, items, pageVersion)
    PROVE  SourcesInv'
<1>1. SourcesTyped
  BY DEF SourcesInv
<1>2. newsWorkers' \in [NewsWorker -> [turn : {"source", "document"}, job : FeedJob \cup PageJob \cup {NoJob}]]
      /\ \A v \in NewsWorker : v # w => newsWorkers'[v] = newsWorkers[v]
  BY <1>1, Turned
<1>3. SourcesTyped'
  BY <1>1, <1>2 DEF SourcesTyped
<1>4. Later(feeds, feeds') /\ LaterPages(pageVersion, pageVersion')
  BY <1>1, NumbersStay
<1>5. /\ NewestBody(w, newsWorkers'[w], sources', items', feeds')
      /\ NewestPage(w, newsWorkers'[w], items', pageVersion')
  OBVIOUS
<1>6. \A s \in EvidenceSource : KeepsValidator(sources[s], sources'[s])
  BY SameValidator
<1>7. QED
  BY <1>2, <1>3, <1>4, <1>5, <1>6, QuietStep

LEMMA StopKeeps ==
    ASSUME SourcesInv, NEW w \in NewsWorker,
           StopNewsWorker(w) \/ NothingToPoll(w) \/ NoDocumentToPoll(w)
    PROVE  SourcesInv'
<1>1. PICK next \in {"source", "document"} : Turn(w, next, NoJob)
  BY DEF StopNewsWorker, NothingToPoll, NoDocumentToPoll
<1>2. UNCHANGED <<sources, items, feeds, pageVersion>>
  BY DEF StopNewsWorker, NothingToPoll, NoDocumentToPoll
<1>3. newsWorkers'[w].job = NoJob
  BY <1>1, Turned DEF SourcesInv
<1>4. QED
  BY <1>1, <1>2, <1>3, AtRest, OnlyTurns

LEMMA FeedAnswersKeeps ==
    ASSUME SourcesInv, NEW w \in NewsWorker, FeedAnswers(w)
    PROVE  SourcesInv'
<1> DEFINE job == newsWorkers[w].job
           s == job.source
           answered == [job EXCEPT !.version = feeds[s],
                                   !.reply = IF job.etag = feeds[s] THEN "unmodified" ELSE "body"]
<1>1. newsWorkers[w].turn = "source" /\ job # NoJob /\ Turn(w, "source", answered)
      /\ UNCHANGED <<sources, items, feeds, pageVersion>>
  BY DEF FeedAnswers
<1>2. job \in FeedJob /\ s \in EvidenceSource
  BY <1>1 DEF SourcesInv, NewestBody, FeedJob
<1>3. feeds[s] \in Nat /\ feeds[s] \in 1..feeds[s]
  <2>1. feeds[s] \in DOMAIN Body[s]
    BY <1>2 DEF SourcesInv, SourcesTyped
  <2>2. QED
    BY <1>2, <2>1, EntryTyped
<1>4. answered \in FeedJob /\ answered.source = s /\ answered.version = feeds[s]
  BY <1>2, <1>3 DEF FeedJob
<1> HIDE DEF job, s, answered
<1>5. newsWorkers'[w].turn = "source" /\ newsWorkers'[w].job = answered
  BY <1>1, <1>4, Turned DEF SourcesInv
<1>6. GivenBy(s, feeds[s], items[s])
  BY <1>2 DEF SourcesInv, RowsSound
<1>7. NewestBody(w, newsWorkers'[w], sources, items, feeds)
  BY <1>3, <1>4, <1>5, <1>6 DEF NewestBody
<1>8. NewestPage(w, newsWorkers'[w], items, pageVersion)
  BY <1>5 DEF NewestPage
<1>9. QED
  BY <1>1, <1>4, <1>7, <1>8, OnlyTurns

LEMMA PageAnswersKeeps ==
    ASSUME SourcesInv, NEW w \in NewsWorker, PageAnswers(w)
    PROVE  SourcesInv'
<1> DEFINE job == newsWorkers[w].job
           s == job.source
           x == job.item
           answered == [job EXCEPT !.version = pageVersion[job.url]]
<1>1. newsWorkers[w].turn = "document" /\ job # NoJob /\ Turn(w, "document", answered) /\ job.url \in PageUrl
      /\ UNCHANGED <<sources, items, feeds, pageVersion>>
  BY DEF PageAnswers
<1>2. job \in PageJob /\ s \in EvidenceSource /\ x \in ExternalId /\ items[s][x].revisions # <<>>
  BY <1>1 DEF SourcesInv, NewestPage, PageJob
<1>3. pageVersion[job.url] \in Nat /\ pageVersion[job.url] \in 1..pageVersion[job.url]
  <2>1. pageVersion[job.url] \in Nat \ {0}
    BY <1>1 DEF SourcesInv, SourcesTyped
  <2>2. QED
    BY <2>1
<1>4. /\ answered \in PageJob /\ answered.source = s /\ answered.item = x /\ answered.url = job.url
      /\ answered.version = pageVersion[job.url]
  BY <1>2, <1>3 DEF PageJob
<1>5. job.url \in PageUrl
  BY <1>1
<1> DEFINE u == job.url
<1> HIDE DEF job, s, x, answered, u
<1>6. newsWorkers'[w].turn = "document" /\ newsWorkers'[w].job = answered
  BY <1>1, <1>4, Turned DEF SourcesInv
<1>7. \A r \in ToSet(items[s][x].revisions) :
         r.document # NoDocument /\ r.url = u => r.document.version <= pageVersion[u]
  <2> SUFFICES ASSUME NEW r \in ToSet(items[s][x].revisions), r.document # NoDocument, r.url = u
               PROVE  r.document.version <= pageVersion[u]
    OBVIOUS
  <2>1. ReadFrom(r, pageVersion)
    BY <1>2 DEF SourcesInv, RowsSound, AllRead
  <2>2. r.document.version \in 1..pageVersion[u]
    BY <2>1 DEF ReadFrom
  <2>3. QED
    BY <1>3, <2>2 DEF u
<1>8. NewestPage(w, newsWorkers'[w], items, pageVersion)
  BY <1>2, <1>3, <1>4, <1>5, <1>6, <1>7 DEF NewestPage, u
<1>9. NewestBody(w, newsWorkers'[w], sources, items, feeds)
  BY <1>6 DEF NewestBody
<1>10. QED
  BY <1>1, <1>4, <1>8, <1>9, OnlyTurns

\* A step that keeps the rows of the items: what it makes of the sources is typed, and
\* validators are kept or dropped.
LEMMA SourceStep ==
    ASSUME SourcesInv, NEW w \in Holder, NEW s \in EvidenceSource, NEW row \in SourceRow,
           sources' = [sources EXCEPT ![s] = row],
           KeepsValidator(sources[s], row),
           row.lease \in {sources[s].lease, NoWorker, w},
           UNCHANGED <<items, feeds, pageVersion>>,
           newsWorkers' \in [NewsWorker -> [turn : {"source", "document"}, job : FeedJob \cup PageJob \cup {NoJob}]],
           \A v \in NewsWorker : v # w => newsWorkers'[v] = newsWorkers[v],
           w \in NewsWorker => /\ NewestBody(w, newsWorkers'[w], sources', items, feeds)
                               /\ NewestPage(w, newsWorkers'[w], items, pageVersion)
    PROVE  SourcesInv'
<1>1. sources' \in [EvidenceSource -> SourceRow] /\ sources'[s] = row
      /\ \A t \in EvidenceSource : t # s => sources'[t] = sources[t]
  BY DEF SourcesInv, SourcesTyped
<1>2. SourcesTyped'
  BY <1>1 DEF SourcesInv, SourcesTyped
<1>3. Later(feeds, feeds') /\ LaterPages(pageVersion, pageVersion')
  BY NumbersStay DEF SourcesInv
<1>4. \A t \in EvidenceSource : sources'[t].lease \in {sources[t].lease, NoWorker, w}
  BY <1>1
<1>5. \A t \in EvidenceSource : KeepsValidator(sources[t], sources'[t])
  BY <1>1, SameValidator
<1>6. \A t \in EvidenceSource, x \in ExternalId :
         items'[t][x].revisions = items[t][x].revisions /\ items'[t][x].lease \in {items[t][x].lease, NoWorker, w}
  OBVIOUS
<1>7. w \in NewsWorker => /\ NewestBody(w, newsWorkers'[w], sources', items', feeds')
                          /\ NewestPage(w, newsWorkers'[w], items', pageVersion')
  OBVIOUS
<1>8. QED
  BY <1>2, <1>3, <1>4, <1>5, <1>6, <1>7, QuietStep

LEMMA SourceTyped ==
    ASSUME SourcesInv, NEW s \in EvidenceSource
    PROVE  sources[s] \in SourceRow /\ sources[s].etag \in Nat
  BY DEF SourcesInv, SourcesTyped, SourceRow

LEMMA WorkersTyped ==
    ASSUME SourcesInv
    PROVE  newsWorkers \in [NewsWorker -> [turn : {"source", "document"}, job : FeedJob \cup PageJob \cup {NoJob}]]
  BY DEF SourcesInv, SourcesTyped

LEMMA PollSourceKeeps ==
    ASSUME SourcesInv, NEW w \in NewsWorker, NEW s \in EvidenceSource, PollSource(w, s)
    PROVE  SourcesInv'
<1> DEFINE row == [sources[s] EXCEPT !.due = FALSE, !.lease = w, !.lapsed = FALSE]
           job == [source |-> s, reply |-> "none", version |-> 0,
                   etag |-> IF sources[s].count > 0 THEN sources[s].etag ELSE 0]
<1>1. Turn(w, "source", job) /\ UNCHANGED <<items, feeds, pageVersion>>
      /\ sources' = [sources EXCEPT ![s].due = FALSE, ![s].lease = w, ![s].lapsed = FALSE]
  BY DEF PollSource
<1>2. sources[s] \in SourceRow /\ sources[s].etag \in Nat /\ w \in Holder
  BY SourceTyped DEF Holder
<1>3. sources' = [sources EXCEPT ![s] = row]
  BY <1>1 DEF SourcesInv, SourcesTyped
<1>4. /\ row \in SourceRow /\ row.etag = sources[s].etag /\ row.result = sources[s].result /\ row.lease = w
  BY <1>2 DEF SourceRow
<1>5. job \in FeedJob /\ job.reply = "none"
  BY <1>2 DEF FeedJob
<1> HIDE DEF row, job
<1>6. /\ newsWorkers'[w].turn = "source" /\ newsWorkers'[w].job = job
      /\ newsWorkers' \in [NewsWorker -> [turn : {"source", "document"}, job : FeedJob \cup PageJob \cup {NoJob}]]
      /\ \A v \in NewsWorker : v # w => newsWorkers'[v] = newsWorkers[v]
  BY <1>1, <1>5, Turned DEF SourcesInv
<1>7. NewestBody(w, newsWorkers'[w], sources', items, feeds) /\ NewestPage(w, newsWorkers'[w], items, pageVersion)
  BY <1>5, <1>6 DEF NewestBody, NewestPage
<1>8. /\ row.lease \in {sources[s].lease, NoWorker, w}
      /\ KeepsValidator(sources[s], row)
  BY <1>4, SameValidator
<1>9. UNCHANGED <<items, feeds, pageVersion>> /\ row \in SourceRow /\ w \in Holder
  BY <1>1, <1>2, <1>4
<1>10. QED
  BY <1>3, <1>6, <1>7, <1>8, <1>9, SourceStep

LEMMA PollFailsKeeps ==
    ASSUME SourcesInv, NEW w \in NewsWorker, PollFails(w)
    PROVE  SourcesInv'
<1> DEFINE s == newsWorkers[w].job.source
           row == [sources[s] EXCEPT !.lease = NoWorker, !.result = "failed", !.etag = 0]
<1>1. Turn(w, "document", NoJob) /\ UNCHANGED <<items, feeds, pageVersion>>
      /\ newsWorkers[w].turn = "source" /\ newsWorkers[w].job # NoJob
      /\ sources' = IF ~MayStore(w, s) THEN sources
                    ELSE [sources EXCEPT ![s].lease = NoWorker, ![s].result = "failed", ![s].etag = 0]
  BY DEF PollFails
<1>2. s \in EvidenceSource
  BY <1>1 DEF SourcesInv, NewestBody, FeedJob
<1>3. /\ newsWorkers'[w].job = NoJob
      /\ newsWorkers' \in [NewsWorker -> [turn : {"source", "document"}, job : FeedJob \cup PageJob \cup {NoJob}]]
      /\ \A v \in NewsWorker : v # w => newsWorkers'[v] = newsWorkers[v]
  BY <1>1, Turned DEF SourcesInv
<1>4. CASE ~MayStore(w, s)
  <2>1. sources' = sources
    BY <1>1, <1>4
  <2>2. QED
    BY <1>1, <1>3, <2>1, AtRest, OnlyTurns
<1>5. CASE MayStore(w, s)
  <2>1. sources' = [sources EXCEPT ![s] = row]
    BY <1>1, <1>2, <1>5 DEF SourcesInv, SourcesTyped
  <2>2. sources[s] \in SourceRow /\ w \in Holder
    BY <1>2, SourceTyped DEF Holder
  <2>3. row \in SourceRow /\ row.etag = 0 /\ row.lease = NoWorker
    BY <2>2 DEF SourceRow, Holder
  <2> HIDE DEF row, s
  <2>4. NewestBody(w, newsWorkers'[w], sources', items, feeds) /\ NewestPage(w, newsWorkers'[w], items, pageVersion)
    BY <1>3, AtRest
  <2>5. KeepsValidator(sources[s], row)
    BY <2>3, SameValidator
  <2>6. QED
    BY <1>1, <1>2, <1>3, <2>1, <2>2, <2>3, <2>4, <2>5, SourceStep
<1>6. QED
  BY <1>4, <1>5

LEMMA SourceTimeKeeps ==
    ASSUME SourcesInv, NEW s \in EvidenceSource, SourceDue(s) \/ LeaseLapses(s)
    PROVE  SourcesInv'
<1>1. PICK f \in {"due", "lapsed"} : sources' = [sources EXCEPT ![s] = [sources[s] EXCEPT ![f] = TRUE]]
  BY DEF SourceDue, LeaseLapses, SourcesInv, SourcesTyped
<1> DEFINE row == [sources[s] EXCEPT ![f] = TRUE]
<1>2. UNCHANGED <<items, feeds, pageVersion, newsWorkers>>
  BY DEF SourceDue, LeaseLapses
<1>3. sources[s] \in SourceRow /\ NoWorker \in Holder /\ NoWorker \notin NewsWorker
  BY SourceTyped, SourcesAssumption DEF Holder
<1>4. /\ row \in SourceRow /\ row.etag = sources[s].etag /\ row.result = sources[s].result
      /\ row.lease = sources[s].lease
  BY <1>3 DEF SourceRow
<1> HIDE DEF row
<1>5. sources' = [sources EXCEPT ![s] = row]
  BY <1>1 DEF row
<1>6. newsWorkers' \in [NewsWorker -> [turn : {"source", "document"}, job : FeedJob \cup PageJob \cup {NoJob}]]
  BY <1>2, WorkersTyped
<1>7. KeepsValidator(sources[s], row)
  BY <1>4, SameValidator
<1>8. QED
  BY <1>2, <1>3, <1>4, <1>5, <1>6, <1>7, SourceStep

LEMMA ItemTyped ==
    ASSUME SourcesInv, NEW s \in EvidenceSource, NEW x \in ExternalId
    PROVE  items[s][x] \in ItemRow /\ items[s][x].revisions \in Seq(Revision)
  BY DEF SourcesInv, SourcesTyped, ItemRow

WithItem(R, s, x, row) == [R EXCEPT ![s][x] = row]

LEMMA ItemsWith ==
    ASSUME SourcesInv, NEW s \in EvidenceSource, NEW x \in ExternalId, NEW row \in ItemRow,
           items' = WithItem(items, s, x, row)
    PROVE  /\ items' \in [EvidenceSource -> [ExternalId -> ItemRow]] /\ items'[s][x] = row
           /\ \A t \in EvidenceSource, y \in ExternalId : (t # s \/ y # x) => items'[t][y] = items[t][y]
  BY DEF SourcesInv, SourcesTyped, WithItem

LEMMA ItemStep ==
    ASSUME SourcesInv, NEW w \in Holder, NEW s \in EvidenceSource, NEW x \in ExternalId, NEW row \in ItemRow,
           items' = WithItem(items, s, x, row),
           row.revisions = items[s][x].revisions, row.lease \in {items[s][x].lease, NoWorker, w},
           UNCHANGED <<sources, feeds, pageVersion>>,
           newsWorkers' \in [NewsWorker -> [turn : {"source", "document"}, job : FeedJob \cup PageJob \cup {NoJob}]],
           \A v \in NewsWorker : v # w => newsWorkers'[v] = newsWorkers[v],
           w \in NewsWorker => /\ NewestBody(w, newsWorkers'[w], sources, items', feeds)
                               /\ NewestPage(w, newsWorkers'[w], items', pageVersion)
    PROVE  SourcesInv'
<1>1. /\ items' \in [EvidenceSource -> [ExternalId -> ItemRow]] /\ items'[s][x] = row
      /\ \A t \in EvidenceSource, y \in ExternalId : (t # s \/ y # x) => items'[t][y] = items[t][y]
  BY ItemsWith
<1>2. SourcesTyped'
  BY <1>1 DEF SourcesInv, SourcesTyped, WithItem
<1>3. Later(feeds, feeds') /\ LaterPages(pageVersion, pageVersion')
  BY NumbersStay DEF SourcesInv
<1>4. \A t \in EvidenceSource, y \in ExternalId :
         /\ items'[t][y].revisions = items[t][y].revisions
         /\ items'[t][y].lease \in {items[t][y].lease, NoWorker, w}
  BY <1>1
<1>5. /\ \A t \in EvidenceSource : sources'[t].lease \in {sources[t].lease, NoWorker, w}
      /\ \A t \in EvidenceSource : KeepsValidator(sources[t], sources'[t])
  BY SameValidator
<1>6. w \in NewsWorker => /\ NewestBody(w, newsWorkers'[w], sources', items', feeds')
                          /\ NewestPage(w, newsWorkers'[w], items', pageVersion')
  OBVIOUS
<1>7. QED
  BY <1>2, <1>3, <1>4, <1>5, <1>6, QuietStep

LEMMA PollDocumentKeeps ==
    ASSUME SourcesInv, NEW w \in NewsWorker, NEW s \in EvidenceSource, NEW x \in ExternalId,
           PollDocument(w, s, x)
    PROVE  SourcesInv'
<1> DEFINE row == [items[s][x] EXCEPT !.lease = w, !.due = FALSE]
           job == [source |-> s, item |-> x, url |-> Latest(items[s][x]).url, version |-> 0]
<1>1. Turn(w, "document", job) /\ UNCHANGED <<sources, feeds, pageVersion>>
      /\ items' = [items EXCEPT ![s][x].lease = w, ![s][x].due = FALSE]
      /\ items[s][x].revisions # <<>>
  BY DEF PollDocument, Awaits
<1>2. items[s][x] \in ItemRow /\ items[s][x].revisions \in Seq(Revision) /\ w \in Holder
  BY ItemTyped DEF Holder
<1>3. items' = WithItem(items, s, x, row)
  BY <1>1 DEF SourcesInv, SourcesTyped, WithItem
<1>4. row \in ItemRow /\ row.revisions = items[s][x].revisions /\ row.lease = w
  BY <1>2 DEF ItemRow
<1>5. Latest(items[s][x]) \in Revision
  BY <1>1, <1>2, LastRevision DEF Latest
<1>6. job \in PageJob /\ job.version = 0 /\ job.source = s /\ job.item = x
  BY <1>5 DEF PageJob, Revision
<1> HIDE DEF row, job
<1>7. /\ newsWorkers'[w].turn = "document" /\ newsWorkers'[w].job = job
      /\ newsWorkers' \in [NewsWorker -> [turn : {"source", "document"}, job : FeedJob \cup PageJob \cup {NoJob}]]
      /\ \A v \in NewsWorker : v # w => newsWorkers'[v] = newsWorkers[v]
  BY <1>1, <1>6, Turned DEF SourcesInv
<1>8. items'[s][x].revisions # <<>>
  BY <1>1, <1>3, <1>4, ItemsWith
<1>9. ~(job.version > 0)
  BY <1>6
<1>10. NewestBody(w, newsWorkers'[w], sources, items', feeds) /\ NewestPage(w, newsWorkers'[w], items', pageVersion)
  BY <1>6, <1>7, <1>8, <1>9 DEF NewestBody, NewestPage
<1>11. row.lease \in {items[s][x].lease, NoWorker, w} /\ UNCHANGED <<sources, feeds, pageVersion>>
  BY <1>1, <1>4
<1>12. QED
  BY <1>2, <1>3, <1>4, <1>7, <1>10, <1>11, ItemStep

LEMMA DocumentFailsKeeps ==
    ASSUME SourcesInv, NEW w \in NewsWorker, DocumentFails(w)
    PROVE  SourcesInv'
<1> DEFINE s == newsWorkers[w].job.source
           x == newsWorkers[w].job.item
           row == [items[s][x] EXCEPT !.lease = NoWorker]
<1>1. Turn(w, "source", NoJob) /\ UNCHANGED <<sources, feeds, pageVersion>>
      /\ newsWorkers[w].turn = "document" /\ newsWorkers[w].job # NoJob
      /\ items' = IF items[s][x].lease # w THEN items ELSE [items EXCEPT ![s][x].lease = NoWorker]
  BY DEF DocumentFails
<1>2. s \in EvidenceSource /\ x \in ExternalId
  BY <1>1 DEF SourcesInv, NewestPage, PageJob
<1>3. /\ newsWorkers'[w].job = NoJob
      /\ newsWorkers' \in [NewsWorker -> [turn : {"source", "document"}, job : FeedJob \cup PageJob \cup {NoJob}]]
      /\ \A v \in NewsWorker : v # w => newsWorkers'[v] = newsWorkers[v]
  BY <1>1, Turned DEF SourcesInv
<1>4. CASE items[s][x].lease # w
  BY <1>1, <1>3, <1>4, AtRest, OnlyTurns
<1>5. CASE items[s][x].lease = w
  <2>1. items' = WithItem(items, s, x, row)
    BY <1>1, <1>2, <1>5 DEF SourcesInv, SourcesTyped, WithItem
  <2>2. items[s][x] \in ItemRow /\ w \in Holder
    BY <1>2, ItemTyped DEF Holder
  <2>3. row \in ItemRow /\ row.revisions = items[s][x].revisions /\ row.lease = NoWorker
    BY <2>2 DEF ItemRow, Holder
  <2> HIDE DEF row, s, x
  <2>0. UNCHANGED <<sources, feeds, pageVersion>> /\ row.lease \in {items[s][x].lease, NoWorker, w}
    BY <1>1, <2>3
  <2>4. NewestBody(w, newsWorkers'[w], sources, items', feeds) /\ NewestPage(w, newsWorkers'[w], items', pageVersion)
    BY <1>3, AtRest
  <2>5. QED
    BY <1>2, <1>3, <2>0, <2>1, <2>2, <2>3, <2>4, ItemStep
<1>6. QED
  BY <1>4, <1>5

LEMMA DocumentDueKeeps ==
    ASSUME SourcesInv, NEW s \in EvidenceSource, NEW x \in ExternalId, DocumentDue(s, x)
    PROVE  SourcesInv'
<1> DEFINE row == [items[s][x] EXCEPT !.due = TRUE]
<1>1. items' = [items EXCEPT ![s][x].due = TRUE] /\ UNCHANGED <<sources, feeds, pageVersion, newsWorkers>>
  BY DEF DocumentDue
<1>2. items' = WithItem(items, s, x, row)
  BY <1>1 DEF SourcesInv, SourcesTyped, WithItem
<1>3. items[s][x] \in ItemRow /\ NoWorker \in Holder /\ NoWorker \notin NewsWorker
  BY ItemTyped, SourcesAssumption DEF Holder
<1>4. row \in ItemRow /\ row.revisions = items[s][x].revisions /\ row.lease = items[s][x].lease
  BY <1>3 DEF ItemRow
<1> HIDE DEF row
<1>5. newsWorkers' \in [NewsWorker -> [turn : {"source", "document"}, job : FeedJob \cup PageJob \cup {NoJob}]]
  BY <1>1, WorkersTyped
<1>6. QED
  BY <1>1, <1>2, <1>3, <1>4, <1>5, ItemStep

LEMMA ConfigureKeeps ==
    ASSUME SourcesInv, NEW s \in EvidenceSource, NEW enabled \in BOOLEAN, ConfigureSource(s, enabled)
    PROVE  SourcesInv'
<1> DEFINE row == [sources[s] EXCEPT !.enabled = enabled, !.lease = NoWorker, !.due = TRUE]
           rows == [x \in ExternalId |-> [items[s][x] EXCEPT !.lease = NoWorker]]
<1>1. /\ sources' = [sources EXCEPT ![s].enabled = enabled, ![s].lease = NoWorker, ![s].due = TRUE]
      /\ items' = [items EXCEPT ![s] = rows] /\ UNCHANGED <<feeds, pageVersion, newsWorkers>>
  BY DEF ConfigureSource
<1>2. sources' = [sources EXCEPT ![s] = row]
  BY <1>1 DEF SourcesInv, SourcesTyped
<1>3. sources[s] \in SourceRow /\ NoWorker \in Holder /\ NoWorker \notin NewsWorker
  BY SourceTyped, SourcesAssumption DEF Holder
<1>4. /\ row \in SourceRow /\ row.lease = NoWorker /\ row.etag = sources[s].etag
      /\ row.result = sources[s].result
  BY <1>3 DEF SourceRow
<1>5. \A x \in ExternalId : /\ rows[x] \in ItemRow /\ rows[x].lease = NoWorker
                            /\ rows[x].revisions = items[s][x].revisions
  BY <1>3, ItemTyped DEF ItemRow
<1>6. rows \in [ExternalId -> ItemRow]
  BY <1>5
<1> HIDE DEF row, rows
<1>7. sources' \in [EvidenceSource -> SourceRow] /\ sources'[s] = row
      /\ \A t \in EvidenceSource : t # s => sources'[t] = sources[t]
  BY <1>2, <1>4 DEF SourcesInv, SourcesTyped
<1>8. items' \in [EvidenceSource -> [ExternalId -> ItemRow]] /\ items'[s] = rows
      /\ \A t \in EvidenceSource : t # s => items'[t] = items[t]
  BY <1>1, <1>6 DEF SourcesInv, SourcesTyped
<1>9. SourcesTyped'
  BY <1>1, <1>7, <1>8 DEF SourcesInv, SourcesTyped
<1>10. Later(feeds, feeds') /\ LaterPages(pageVersion, pageVersion')
  BY <1>1, NumbersStay DEF SourcesInv
<1>11. \A t \in EvidenceSource, x \in ExternalId :
          /\ items'[t][x].revisions = items[t][x].revisions
          /\ items'[t][x].lease \in {items[t][x].lease, NoWorker, NoWorker}
  BY <1>5, <1>8
<1>12. /\ \A t \in EvidenceSource : sources'[t].lease \in {sources[t].lease, NoWorker, NoWorker}
       /\ \A t \in EvidenceSource : KeepsValidator(sources[t], sources'[t])
  BY <1>4, <1>7, SameValidator
<1>13. QED
  BY <1>1, <1>3, <1>9, <1>10, <1>11, <1>12, QuietStep

LEMMA PublishKeeps ==
    ASSUME SourcesInv, \/ \E s \in EvidenceSource : PublishFeed(s)
                       \/ \E u \in PageUrl : PublishPage(u)
    PROVE  SourcesInv'
<1>1. UNCHANGED <<sources, items, newsWorkers>>
  BY DEF PublishFeed, PublishPage
<1>2. SourcesTyped
  BY DEF SourcesInv
<1>3. /\ feeds' \in [EvidenceSource -> Nat] /\ pageVersion' \in [PageUrl -> Nat \ {0}]
      /\ \A t \in EvidenceSource : feeds'[t] \in DOMAIN Body[t]
      /\ Later(feeds, feeds') /\ LaterPages(pageVersion, pageVersion')
  <2>1. ASSUME NEW s \in EvidenceSource, PublishFeed(s) PROVE <1>3!:
    <3>1. feeds[s] < Len(Body[s]) /\ feeds' = [feeds EXCEPT ![s] = feeds[s] + 1] /\ pageVersion' = pageVersion
      BY <2>1 DEF PublishFeed
    <3>2. feeds[s] \in DOMAIN Body[s] /\ feeds[s] \in Nat
      BY <1>2 DEF SourcesTyped
    <3>3. DOMAIN Body[s] = 1..Len(Body[s]) /\ feeds[s] > 0 /\ Len(Body[s]) \in Nat
      <4>1. DOMAIN Body[s] = 1..Len(Body[s]) /\ feeds[s] > 0
        BY <3>2, EntryTyped
      <4>2. Len(Body[s]) \in Nat
        BY PublisherAssumption
      <4>3. QED
        BY <4>1, <4>2
    <3>4. feeds[s] + 1 \in DOMAIN Body[s] /\ feeds[s] + 1 \in Nat /\ feeds[s] <= feeds[s] + 1
      BY <3>1, <3>2, <3>3
    <3>5. feeds' \in [EvidenceSource -> Nat] /\ \A t \in EvidenceSource : feeds'[t] \in DOMAIN Body[t]
      BY <1>2, <3>1, <3>4 DEF SourcesTyped
    <3>6. Later(feeds, feeds')
      <4>1. \A t \in EvidenceSource : feeds'[t] = IF t = s THEN feeds[s] + 1 ELSE feeds[t]
        BY <1>2, <3>1 DEF SourcesTyped
      <4>2. Later(feeds, feeds)
        BY <1>2, NumbersStay
      <4>3. QED
        BY <3>4, <4>1, <4>2 DEF Later
    <3>7. QED
      BY <1>2, <3>1, <3>5, <3>6, NumbersStay DEF SourcesTyped
  <2>2. ASSUME NEW u \in PageUrl, PublishPage(u) PROVE <1>3!:
    <3>1. pageVersion' = [pageVersion EXCEPT ![u] = pageVersion[u] + 1] /\ feeds' = feeds
      BY <2>2 DEF PublishPage
    <3>2. pageVersion[u] \in Nat \ {0}
      BY <1>2 DEF SourcesTyped
    <3>3. pageVersion[u] + 1 \in Nat \ {0} /\ pageVersion[u] <= pageVersion[u] + 1
      BY <3>2
    <3>4. pageVersion' \in [PageUrl -> Nat \ {0}]
      BY <1>2, <3>1, <3>3 DEF SourcesTyped
    <3>5. LaterPages(pageVersion, pageVersion')
      <4>1. \A t \in PageUrl : pageVersion'[t] = IF t = u THEN pageVersion[u] + 1 ELSE pageVersion[t]
        BY <1>2, <3>1 DEF SourcesTyped
      <4>2. LaterPages(pageVersion, pageVersion)
        BY <1>2, NumbersStay
      <4>3. QED
        BY <3>3, <4>1, <4>2 DEF LaterPages
    <3>6. QED
      BY <1>2, <3>1, <3>4, <3>5, NumbersStay DEF SourcesTyped
  <2>3. QED
    BY <2>1, <2>2
<1>4. SourcesTyped'
  BY <1>1, <1>2, <1>3 DEF SourcesTyped
<1>5. NoWorker \notin NewsWorker
  BY SourcesAssumption
<1>6. \A s \in EvidenceSource : KeepsValidator(sources[s], sources'[s])
  BY <1>1, SameValidator
<1>7. QED
  BY <1>1, <1>3, <1>4, <1>5, <1>6, QuietStep

LEMMA StoreDocumentKeeps ==
    ASSUME SourcesInv, NEW w \in NewsWorker, StoreDocument(w)
    PROVE  SourcesInv'
<1> DEFINE job == newsWorkers[w].job
           s == job.source
           x == job.item
           item == items[s][x]
           row == WithDocument(item, job)
           document == [url |-> job.url, version |-> job.version]
           q == [Latest(item) EXCEPT !.document = document]
           writes == ~(Latest(item).url # job.url \/ Latest(item).document = document)
<1>1. /\ Turn(w, "source", NoJob) /\ UNCHANGED <<sources, feeds, pageVersion>>
      /\ newsWorkers[w].turn = "document" /\ job # NoJob /\ job.version > 0
      /\ items' = IF ~HoldsItem(w, s, x) THEN items ELSE WithItem(items, s, x, row)
  BY DEF StoreDocument, WithItem
<1>2. job \in PageJob /\ s \in EvidenceSource /\ x \in ExternalId /\ item.revisions # <<>>
  BY <1>1 DEF SourcesInv, NewestPage, PageJob
<1>3. job.url \in Link /\ job.version \in Nat
  BY <1>2 DEF PageJob
<1>4. /\ job.url \in PageUrl /\ job.version \in 1..pageVersion[job.url]
      /\ item.lease = w => \A r \in ToSet(item.revisions) :
                              r.document # NoDocument /\ r.url = job.url => r.document.version <= job.version
  BY <1>1 DEF SourcesInv, NewestPage
<1>5. /\ newsWorkers'[w].job = NoJob
      /\ newsWorkers' \in [NewsWorker -> [turn : {"source", "document"}, job : FeedJob \cup PageJob \cup {NoJob}]]
      /\ \A v \in NewsWorker : v # w => newsWorkers'[v] = newsWorkers[v]
  BY <1>1, Turned DEF SourcesInv
<1>6. item \in ItemRow /\ item.revisions \in Seq(Revision) /\ Forward(item.revisions)
  BY <1>2, ItemTyped DEF SourcesInv, RowsSound, AllForward
<1>7. /\ Latest(item) \in Revision /\ Latest(item) \in ToSet(item.revisions)
      /\ \A r \in ToSet(item.revisions) : Follows(r, Latest(item))
  BY <1>2, <1>6, LastRevision DEF Latest
<1>8. /\ q \in Revision /\ q.url = Latest(item).url /\ q.text = Latest(item).text /\ q.document = document
      /\ document.url = job.url /\ document.version = job.version
  BY <1>3, <1>7 DEF Revision, PageText
<1>9. row.revisions = (IF writes THEN Append(item.revisions, q) ELSE item.revisions) /\ row.lease = NoWorker
  BY <1>6 DEF WithDocument, ItemRow
<1>10. row \in ItemRow
  <2> DEFINE longer == Append(item.revisions, q)
  <2>1. longer \in Seq(Revision)
    <3> HIDE DEF q, item
    <3>1. QED
      BY <1>6, <1>8
  <2>2. NoWorker \in Holder
    BY DEF Holder
  <2>3. row = [item EXCEPT !.lease = NoWorker, !.due = (Latest(item).url # job.url),
                           !.revisions = IF writes THEN longer ELSE item.revisions]
    BY DEF WithDocument
  <2> HIDE DEF row, longer, item, job, writes, q
  <2>4. QED
    BY <1>6, <2>1, <2>2, <2>3 DEF ItemRow
<1>11. CASE ~HoldsItem(w, s, x)
  BY <1>1, <1>5, <1>11, AtRest, OnlyTurns
<1>12. CASE HoldsItem(w, s, x) /\ ~writes
  <2>1. items' = WithItem(items, s, x, row) /\ row.revisions = items[s][x].revisions
    BY <1>1, <1>9, <1>12
  <2>2. w \in Holder /\ row.lease \in {items[s][x].lease, NoWorker, w} /\ UNCHANGED <<sources, feeds, pageVersion>>
    BY <1>1, <1>9 DEF Holder
  <2> HIDE DEF row, s, x, writes
  <2>3. NewestBody(w, newsWorkers'[w], sources, items', feeds) /\ NewestPage(w, newsWorkers'[w], items', pageVersion)
    BY <1>5, AtRest
  <2>4. QED
    BY <1>2, <1>5, <1>10, <2>1, <2>2, <2>3, ItemStep
<1>13. CASE HoldsItem(w, s, x) /\ writes
  <2>1. items' = WithItem(items, s, x, row) /\ item.lease = w
    BY <1>1, <1>13 DEF HoldsItem
  <2>2. Latest(item).url = job.url
    BY <1>13
  <2> HIDE DEF row, writes, q, document
  <2>3. /\ items' \in [EvidenceSource -> [ExternalId -> ItemRow]] /\ items'[s][x] = row
        /\ \A t \in EvidenceSource, y \in ExternalId : (t # s \/ y # x) => items'[t][y] = items[t][y]
    BY <1>2, <1>10, <2>1, ItemsWith
  <2>4. row.revisions = Append(item.revisions, q) /\ row.lease = NoWorker
    BY <1>9, <1>13
  <2> HIDE DEF s, x, item, job
  <2>5. ToSet(row.revisions) = ToSet(item.revisions) \cup {q}
    <3>1. item.revisions \in Seq(Revision) /\ q \in Revision
      BY <1>6, <1>8
    <3>2. ToSet(Append(item.revisions, q)) = ToSet(item.revisions) \cup {q}
      BY <3>1, ToSetGrows
    <3>3. QED
      BY <2>4, <3>2
  <2>6. Forward(row.revisions)
    <3>1. ASSUME NEW r \in ToSet(item.revisions), r.url = q.url PROVE r.text <= q.text
      BY <1>7, <1>8, <3>1 DEF Follows
    <3>2. ASSUME NEW r \in ToSet(item.revisions), r.url = q.url, NoDocument \notin {r.document, q.document}
          PROVE  r.document.version <= q.document.version
      BY <1>4, <1>8, <2>1, <2>2, <3>2
    <3>3. \A r \in ToSet(item.revisions) : Follows(r, q)
      BY <3>1, <3>2 DEF Follows
    <3>4. QED
      BY <1>6, <1>8, <2>4, <3>3, ForwardGrows
  <2>7. ReadFrom(q, pageVersion)
    BY <1>4, <1>8, <2>2 DEF ReadFrom
  <2>8. TextsIn(items[s], items'[s])
    <3> SUFFICES ASSUME NEW y \in ExternalId, NEW p \in ToSet(items'[s][y].revisions)
                 PROVE  \E r \in ToSet(items[s][y].revisions) : r.url = p.url /\ r.text = p.text
      BY DEF TextsIn
    <3>1. CASE p \in ToSet(items[s][y].revisions)
      BY <3>1
    <3>2. CASE y = x /\ p = q
      BY <1>7, <1>8, <3>2 DEF item
    <3>3. QED
      BY <1>2, <2>3, <2>5, <3>1, <3>2 DEF item
  <2>9. ASSUME NEW t \in EvidenceSource PROVE RowsSound(t, sources, items', feeds, pageVersion)
    <3>0. RowsSound(t, sources, items, feeds, pageVersion)
      BY DEF SourcesInv
    <3>1. CASE t # s
      <4>1. \A y \in ExternalId : items'[t][y].revisions = items[t][y].revisions
        BY <2>3, <3>1
      <4>2. QED
        BY <3>0, <4>1, RowsStay, NumbersStay, SameValidator DEF SourcesInv
    <3>2. CASE t = s
      <4>1. GivenBy(s, feeds[s], items'[s])
        BY <2>8, <3>0, <3>2, GivenStays DEF RowsSound
      <4>2. AllRead(items'[s], pageVersion)
        BY <1>2, <2>3, <2>5, <2>7, <3>0, <3>2 DEF RowsSound, AllRead, item
      <4>3. AllForward(items'[s])
        BY <1>2, <2>3, <2>6, <3>0, <3>2 DEF RowsSound, AllForward
      <4>4. \A e : StoredIn(items[s], e) => StoredIn(items'[s], e)
        <5>1. \A y \in ExternalId : ToSet(items[s][y].revisions) \subseteq ToSet(items'[s][y].revisions)
          BY <1>2, <2>3, <2>5 DEF item
        <5>2. QED
          BY <5>1 DEF StoredIn
      <4>5. Stands(s, sources[s], items'[s])
        BY <3>0, <3>2, <4>4 DEF RowsSound, Stands
      <4>6. QED
        BY <3>2, <4>1, <4>2, <4>3, <4>5 DEF RowsSound
    <3>3. QED
      BY <3>1, <3>2
  <2>10. ASSUME NEW v \in NewsWorker, v # w PROVE Protects(v, sources, items, sources, items')
    <3>1. \A t \in EvidenceSource : TextsIn(items[t], items'[t])
      <4>1. \A t \in EvidenceSource : t # s => TextsIn(items[t], items'[t])
        BY <2>3, SameIn
      <4>2. QED
        BY <2>8, <4>1
    <3>2. row.revisions # <<>>
      <4>1. Len(row.revisions) = Len(item.revisions) + 1 /\ Len(item.revisions) \in Nat
        BY <1>6, <1>8, <2>4
      <4>2. QED
        BY <4>1
    <3>3. ASSUME NEW t \in EvidenceSource, NEW y \in ExternalId
          PROVE  /\ items[t][y].revisions # <<>> => items'[t][y].revisions # <<>>
                 /\ items'[t][y].lease = v => items[t][y].lease = v /\ DocumentsIn(items[t][y], items'[t][y])
      <4>1. CASE t = s /\ y = x
        <5>1. v # NoWorker
          BY SourcesAssumption
        <5>2. QED
          BY <2>3, <2>4, <3>2, <4>1, <5>1
      <4>2. CASE t # s \/ y # x
        <5>1. items'[t][y] = items[t][y]
          BY <2>3, <4>2
        <5>2. QED
          BY <5>1 DEF DocumentsIn
      <4>3. QED
        BY <4>1, <4>2
    <3>4. QED
      BY <3>1, <3>3 DEF Protects
  <2>11. SourcesTyped'
    BY <1>1, <1>5, <2>3 DEF SourcesInv, SourcesTyped
  <2>12. ASSUME NEW v \in NewsWorker
         PROVE  /\ NewestBody(v, newsWorkers'[v], sources, items', feeds)
                /\ NewestPage(v, newsWorkers'[v], items', pageVersion)
    <3>1. CASE v = w
      BY <1>5, <3>1, AtRest
    <3>2. CASE v # w
      <4>1. NewestBody(v, newsWorkers[v], sources, items, feeds) /\ NewestPage(v, newsWorkers[v], items, pageVersion)
        BY DEF SourcesInv
      <4>2. Later(feeds, feeds) /\ LaterPages(pageVersion, pageVersion)
        BY NumbersStay DEF SourcesInv
      <4>3. newsWorkers'[v] = newsWorkers[v]
        BY <1>5, <3>2
      <4>4. QED
        BY <2>10, <3>2, <4>1, <4>2, <4>3, BodyStays, PageStays
    <3>3. QED
      BY <3>1, <3>2
  <2>13. QED
    BY <1>1, <2>9, <2>11, <2>12 DEF SourcesInv
<1>14. QED
  BY <1>11, <1>12, <1>13

LEMMA Unmodifies ==
    ASSUME NEW a \in SourceRow
    PROVE  /\ Unmodified(a) \in SourceRow /\ Unmodified(a).lease = NoWorker
           /\ Unmodified(a).etag = a.etag
           /\ a.result # "failed" => /\ Unmodified(a).result # "failed"
                                     /\ (Unmodified(a).result = "partial") <=> (a.result = "partial")
<1>1. UnmodifiedResult(a) \in {"empty", "partial", "unchanged"}
  BY DEF UnmodifiedResult
<1>2. a.result # "failed" => ((UnmodifiedResult(a) = "partial") <=> (a.result = "partial"))
  BY DEF UnmodifiedResult
<1>3. NoWorker \in Holder
  BY DEF Holder
<1>4. /\ Unmodified(a) \in SourceRow /\ Unmodified(a).lease = NoWorker
      /\ Unmodified(a).etag = a.etag /\ Unmodified(a).result = UnmodifiedResult(a)
  BY <1>1, <1>3 DEF Unmodified, SourceRow
<1>5. QED
  BY <1>1, <1>2, <1>4

LEMMA Reads ==
    ASSUME NEW a \in SourceRow, NEW n \in Nat, NEW body, body.entries \in Seq(Entry)
    PROVE  LET b == Read(a, n, body)
           IN  /\ b \in SourceRow /\ b.lease = NoWorker
               /\ b.etag \in {0, n} /\ b.result # "failed"
               /\ b.etag > 0 => ((b.result = "partial") <=> Partial(body))
<1> DEFINE b == Read(a, n, body)
<1>1. BodyResult(body) \in {"empty", "partial", "updated"}
  BY DEF BodyResult
<1>2. body.entries # <<>> => ((BodyResult(body) = "partial") <=> Partial(body))
  BY DEF BodyResult
<1>3. Len(body.entries) \in Nat
  OBVIOUS
<1>4. NoWorker \in Holder
  BY DEF Holder
<1>5. /\ b \in SourceRow /\ b.lease = NoWorker /\ b.result = BodyResult(body)
      /\ b.etag = IF body.entries = <<>> THEN 0 ELSE n
  <2> DEFINE rejected == "rejected" \in body.flaws
             undated == Undated(body)
  <2>1. rejected \in BOOLEAN /\ undated \in BOOLEAN
    <3>1. ("rejected" \in body.flaws) \in BOOLEAN
      BY SMT
    <3>2. (\E e \in ToSet(body.entries) : ~e.dated) \in BOOLEAN
      BY Zenon
    <3>3. QED
      BY <3>1, <3>2, Zenon DEF Undated
  <2>2. b = [a EXCEPT !.lease = NoWorker, !.succeeded = TRUE, !.result = BodyResult(body),
                      !.count = Len(body.entries), !.rejected = rejected, !.undated = undated,
                      !.etag = IF body.entries = <<>> THEN 0 ELSE n]
    BY Zenon DEF Read
  <2> HIDE DEF b, rejected, undated
  <2>3. QED
    BY <1>1, <1>3, <1>4, <2>1, <2>2 DEF SourceRow
<1> HIDE DEF b
<1>6. b.etag > 0 => body.entries # <<>>
  BY <1>5
<1>7. b.etag \in {0, n} /\ b.result # "failed" /\ (b.etag > 0 => ((b.result = "partial") <=> Partial(body)))
  BY <1>1, <1>2, <1>5, <1>6
<1>8. QED
  BY <1>5, <1>7 DEF b

LEMMA StoreAnswerKeeps ==
    ASSUME SourcesInv, NEW w \in NewsWorker, StoreAnswer(w)
    PROVE  SourcesInv'
<1> DEFINE job == newsWorkers[w].job
           s == job.source
           n == job.version
           body == Body[s][n]
           row == Read(sources[s], n, body)
           rows == WithEntries(items[s], body)
<1>1. /\ Turn(w, "document", NoJob) /\ UNCHANGED <<feeds, pageVersion>>
      /\ newsWorkers[w].turn = "source" /\ job # NoJob /\ job.reply # "none"
  BY DEF StoreAnswer
<1>2. job \in FeedJob /\ s \in EvidenceSource
  BY <1>1 DEF SourcesInv, NewestBody, FeedJob
<1>3. /\ newsWorkers'[w].job = NoJob
      /\ newsWorkers' \in [NewsWorker -> [turn : {"source", "document"}, job : FeedJob \cup PageJob \cup {NoJob}]]
      /\ \A v \in NewsWorker : v # w => newsWorkers'[v] = newsWorkers[v]
  BY <1>1, Turned DEF SourcesInv
<1>4. CASE ~MayStore(w, s)
  <2>1. UNCHANGED <<items, sources>>
    BY <1>4 DEF StoreAnswer
  <2>2. QED
    BY <1>1, <1>3, <2>1, AtRest, OnlyTurns
<1>5. CASE MayStore(w, s) /\ job.reply # "body"
  <2> DEFINE same == Unmodified(sources[s])
  <2>1. items' = items /\ sources' = [sources EXCEPT ![s] = same]
    BY <1>5 DEF StoreAnswer
  <2>2. sources[s] \in SourceRow /\ w \in Holder
    BY <1>2, SourceTyped DEF Holder
  <2>3. same \in SourceRow /\ same.lease = NoWorker /\ KeepsValidator(sources[s], same)
    BY <2>2, Unmodifies DEF KeepsValidator
  <2> HIDE DEF same, s
  <2>4. NewestBody(w, newsWorkers'[w], sources', items, feeds) /\ NewestPage(w, newsWorkers'[w], items, pageVersion)
    BY <1>3, AtRest
  <2>5. UNCHANGED <<items, feeds, pageVersion>> /\ same.lease \in {sources[s].lease, NoWorker, w}
    BY <1>1, <2>1, <2>3
  <2>6. QED
    BY <1>2, <1>3, <2>1, <2>2, <2>3, <2>4, <2>5, SourceStep
<1>6. CASE MayStore(w, s) /\ job.reply = "body"
  <2>1. items' = [items EXCEPT ![s] = rows] /\ sources' = [sources EXCEPT ![s] = row]
    BY <1>6 DEF StoreAnswer
  <2>2. n \in 1..feeds[s] /\ GivenBy(s, n, items[s])
    BY <1>1, <1>2, <1>6 DEF SourcesInv, NewestBody, MayStore
  <2>3. feeds[s] \in DOMAIN Body[s] /\ feeds[s] \in Nat
    BY <1>2 DEF SourcesInv, SourcesTyped
  <2>4. n \in DOMAIN Body[s] /\ n \in Nat /\ n <= feeds[s]
    BY <1>2, <2>2, <2>3, EntryTyped
  <2>5. body.entries \in Seq(Entry)
    BY <1>2, <2>4, EntryTyped
  <2>6. items[s] \in [ExternalId -> ItemRow] /\ sources[s] \in SourceRow
    BY <1>2 DEF SourcesInv, SourcesTyped
  <2>7. AllRead(items[s], pageVersion) /\ AllForward(items[s])
    BY <1>2 DEF SourcesInv, RowsSound
  <2>8. Extends(s, n, items[s], rows) /\ \A e \in ToSet(body.entries) : StoredIn(rows, e)
    BY <1>2, <2>2, <2>4, <2>6, <2>7, BodyExtends
  <2>9. /\ row \in SourceRow /\ row.lease = NoWorker
        /\ row.etag \in {0, n} /\ row.result # "failed"
        /\ row.etag > 0 => ((row.result = "partial") <=> Partial(body))
    BY <2>4, <2>5, <2>6, Reads
  <2> HIDE DEF row, rows, s, n, job
  <2>10. rows \in [ExternalId -> ItemRow]
    BY <2>8 DEF Extends
  <2>11. sources' \in [EvidenceSource -> SourceRow] /\ sources'[s] = row
         /\ \A t \in EvidenceSource : t # s => sources'[t] = sources[t]
    BY <1>2, <2>1, <2>9 DEF SourcesInv, SourcesTyped
  <2>12. items' \in [EvidenceSource -> [ExternalId -> ItemRow]] /\ items'[s] = rows
         /\ \A t \in EvidenceSource : t # s => items'[t] = items[t]
    BY <1>2, <2>1, <2>10 DEF SourcesInv, SourcesTyped
  <2>13. SourcesTyped'
    BY <1>1, <1>3, <2>11, <2>12 DEF SourcesInv, SourcesTyped
  <2>14. ASSUME NEW t \in EvidenceSource PROVE RowsSound(t, sources', items', feeds, pageVersion)
    <3>0. RowsSound(t, sources, items, feeds, pageVersion)
      BY DEF SourcesInv
    <3>1. CASE t # s
      <4>1. items'[t] = items[t] /\ sources'[t] = sources[t]
        BY <2>11, <2>12, <3>1
      <4>2. QED
        BY <3>0, <4>1 DEF RowsSound
    <3>2. CASE t = s
      <4>1. GivenBy(s, feeds[s], rows)
        BY <2>3, <2>4, <2>8, GivenLater DEF Extends
      <4>2. AllRead(rows, pageVersion)
        <5> SUFFICES ASSUME NEW x \in ExternalId, NEW q \in ToSet(rows[x].revisions), q.document # NoDocument
                     PROVE  /\ q.url \in PageUrl /\ q.document.url = q.url
                            /\ q.document.version \in 1..pageVersion[q.url]
          BY DEF AllRead, ReadFrom
        <5>1. PICK r \in ToSet(items[s][x].revisions) : r.url = q.url /\ r.document = q.document
          BY <2>8 DEF Extends
        <5>2. ReadFrom(r, pageVersion)
          BY <2>7 DEF AllRead
        <5>3. QED
          BY <5>1, <5>2 DEF ReadFrom
      <4>3. AllForward(rows)
        BY <2>8 DEF Extends
      <4>4. Stands(s, row, rows)
        <5>1. row.etag > 0 => row.etag = n
          BY <2>4, <2>9
        <5>2. QED
          BY <2>4, <2>8, <2>9, <5>1 DEF Stands
      <4>5. QED
        BY <2>11, <2>12, <3>2, <4>1, <4>2, <4>3, <4>4 DEF RowsSound
    <3>3. QED
      BY <3>1, <3>2
  <2>15. ASSUME NEW v \in NewsWorker, v # w PROVE Protects(v, sources, items, sources', items')
    <3>1. v # NoWorker
      BY SourcesAssumption
    <3>2. ASSUME NEW t \in EvidenceSource, sources'[t].lease = v
          PROVE  sources[t].lease = v /\ TextsIn(items[t], items'[t])
      <4>1. t # s
        BY <2>9, <2>11, <3>1, <3>2
      <4>2. sources'[t] = sources[t] /\ items'[t] = items[t]
        BY <2>11, <2>12, <4>1
      <4>3. QED
        BY <3>2, <4>2, SameIn
    <3>3. ASSUME NEW t \in EvidenceSource, NEW x \in ExternalId
          PROVE  /\ items[t][x].revisions # <<>> => items'[t][x].revisions # <<>>
                 /\ items'[t][x].lease = v => items[t][x].lease = v /\ DocumentsIn(items[t][x], items'[t][x])
      <4>1. CASE t # s
        <5>1. items'[t] = items[t]
          BY <2>12, <4>1
        <5>2. QED
          BY <5>1 DEF DocumentsIn
      <4>2. CASE t = s
        <5>1. rows[x].lease = items[s][x].lease /\ DocumentsIn(items[s][x], rows[x])
          BY <2>8 DEF Extends, DocumentsIn
        <5>2. ASSUME items[s][x].revisions # <<>> PROVE rows[x].revisions # <<>>
          <6>1. items[s][x].revisions \in Seq(Revision)
            BY <1>2, ItemTyped
          <6>2. Last(items[s][x].revisions) \in ToSet(rows[x].revisions)
            BY <2>8, <5>2, <6>1, LastRevision DEF Extends
          <6>3. ToSet(<<>>) = {}
            BY DEF ToSet
          <6>4. QED
            BY <6>2, <6>3
        <5>3. QED
          BY <2>12, <4>2, <5>1, <5>2
      <4>3. QED
        BY <4>1, <4>2
    <3>4. QED
      BY <3>2, <3>3 DEF Protects
  <2>16. ASSUME NEW v \in NewsWorker
         PROVE  /\ NewestBody(v, newsWorkers'[v], sources', items', feeds)
                /\ NewestPage(v, newsWorkers'[v], items', pageVersion)
    <3>1. CASE v = w
      BY <1>3, <3>1, AtRest
    <3>2. CASE v # w
      <4>1. NewestBody(v, newsWorkers[v], sources, items, feeds) /\ NewestPage(v, newsWorkers[v], items, pageVersion)
        BY DEF SourcesInv
      <4>2. Later(feeds, feeds) /\ LaterPages(pageVersion, pageVersion)
        BY NumbersStay DEF SourcesInv
      <4>3. newsWorkers'[v] = newsWorkers[v]
        BY <1>3, <3>2
      <4>4. Protects(v, sources, items, sources', items')
        BY <2>15, <3>2
      <4>5. QED
        BY <4>1, <4>2, <4>3, <4>4, BodyStays, PageStays
    <3>3. QED
      BY <3>1, <3>2
  <2>17. QED
    BY <1>1, <2>13, <2>14, <2>16 DEF SourcesInv
<1>7. QED
  BY <1>4, <1>5, <1>6

-----------------------------------------------------------------------------
(* The theorem *)

LEMMA SourcesInitially == SourcesInit => SourcesInv
<1> SUFFICES ASSUME SourcesInit PROVE SourcesInv
  OBVIOUS
<1>1. NewSource \in SourceRow /\ NewSource.etag = 0
  BY DEF NewSource, SourceRow, Holder
<1>2. NoItem \in ItemRow /\ NoItem.revisions = <<>>
  BY DEF NoItem, ItemRow, Holder
<1>3. \A s \in EvidenceSource : 1 \in DOMAIN Body[s]
  <2> SUFFICES ASSUME NEW s \in EvidenceSource PROVE 1 \in 1..Len(Body[s]) /\ DOMAIN Body[s] = 1..Len(Body[s])
    OBVIOUS
  <2>1. Len(Body[s]) \in Nat /\ Len(Body[s]) > 0 /\ DOMAIN Body[s] = 1..Len(Body[s])
    BY SourcesAssumption, PublisherAssumption
  <2>2. QED
    BY <2>1
<1>4. /\ sources \in [EvidenceSource -> SourceRow] /\ \A s \in EvidenceSource : sources[s].etag = 0
      /\ items \in [EvidenceSource -> [ExternalId -> ItemRow]]
      /\ \A s \in EvidenceSource, x \in ExternalId : items[s][x].revisions = <<>>
  BY <1>1, <1>2 DEF SourcesInit
<1>5. /\ newsWorkers \in [NewsWorker -> [turn : {"source", "document"}, job : FeedJob \cup PageJob \cup {NoJob}]]
      /\ \A w \in NewsWorker : newsWorkers[w].job = NoJob
  BY DEF SourcesInit
<1>6. /\ feeds \in [EvidenceSource -> Nat] /\ pageVersion \in [PageUrl -> Nat \ {0}]
      /\ \A s \in EvidenceSource : feeds[s] \in DOMAIN Body[s]
  BY <1>3 DEF SourcesInit
<1>7. SourcesTyped
  BY <1>4, <1>5, <1>6 DEF SourcesTyped
<1>8. ASSUME NEW s \in EvidenceSource PROVE RowsSound(s, sources, items, feeds, pageVersion)
  <2>1. \A x \in ExternalId : ToSet(items[s][x].revisions) = {} /\ DOMAIN items[s][x].revisions = {}
    BY <1>4 DEF ToSet
  <2>2. ~(sources[s].etag > 0)
    BY <1>4
  <2>3. QED
    BY <2>1, <2>2 DEF RowsSound, GivenBy, AllRead, AllForward, Forward, Stands
<1>9. QED
  BY <1>5, <1>7, <1>8, AtRest DEF SourcesInv

LEMMA SourcesStep == SourcesInv /\ [SourcesNext]_newsVars => SourcesInv'
<1> SUFFICES ASSUME SourcesInv, [SourcesNext]_newsVars PROVE SourcesInv'
  OBVIOUS
<1>1. CASE UNCHANGED newsVars
  BY <1>1 DEF newsVars, SourcesInv, SourcesTyped
<1>2. ASSUME NEW w \in NewsWorker, NewsStep(w) PROVE SourcesInv'
  BY <1>2, StopKeeps, FeedAnswersKeeps, StoreAnswerKeeps, PageAnswersKeeps, StoreDocumentKeeps,
     PollSourceKeeps, PollDocumentKeeps, DocumentFailsKeeps DEF NewsStep
<1>3. ASSUME NEW w \in NewsWorker, PollFails(w) \/ StopNewsWorker(w) PROVE SourcesInv'
  BY <1>3, PollFailsKeeps, StopKeeps
<1>4. ASSUME NEW s \in EvidenceSource, NEW enabled \in BOOLEAN, ConfigureSource(s, enabled) PROVE SourcesInv'
  BY <1>4, ConfigureKeeps
<1>5. CASE (\E s \in EvidenceSource : PublishFeed(s)) \/ \E u \in PageUrl : PublishPage(u)
  BY <1>5, PublishKeeps
<1>6. CASE NewsTime
  BY <1>6, SourceTimeKeeps, DocumentDueKeeps DEF NewsTime
<1>7. QED
  BY <1>1, <1>2, <1>3, <1>4, <1>5, <1>6 DEF SourcesNext

LEMMA SourcesInvIsOK == SourcesInv => SourcesOK
<1> SUFFICES ASSUME SourcesInv PROVE SourcesOK
  OBVIOUS
<1>1. DocumentsMatchLinks
  <2>1. \A s \in EvidenceSource : sources[s].lease \in NewsWorker \cup {NoWorker}
    BY SourceTyped DEF SourceRow, Holder
  <2>2. \A s \in EvidenceSource, x \in ExternalId : \A r \in ToSet(items[s][x].revisions) : ReadFrom(r, pageVersion)
    BY DEF SourcesInv, RowsSound, AllRead
  <2>3. QED
    BY <2>1, <2>2 DEF DocumentsMatchLinks, ReadFrom
<1>2. ValidatorStandsForStored
  <2>1. \A s \in EvidenceSource : Stands(s, sources[s], items[s])
    BY DEF SourcesInv, RowsSound
  <2>2. \A s \in EvidenceSource : \A e : StoredIn(items[s], e) => Stored(s, e)
    BY DEF StoredIn, Stored
  <2>3. QED
    BY <2>1, <2>2 DEF Stands, ValidatorStandsForStored
<1>3. NewestAnswerWins
  BY DEF SourcesInv, RowsSound, AllForward, Forward, Follows, NewestAnswerWins
<1>4. QED
  BY <1>1, <1>2, <1>3 DEF SourcesOK

\* Whatever worker answers late, stops or loses its lease, and whatever an operator or a
\* publisher changes meanwhile: documents stand with the links they were read from, a
\* validator with a body that is stored, and no late answer follows a newer one
\* (poll_one_source and persist_document).
THEOREM SourcesStayOK == SourcesSpec => []SourcesOK
<1>1. SourcesSpec => []SourcesInv
  BY SourcesInitially, SourcesStep, PTL DEF SourcesSpec
<1>2. QED
  BY <1>1, SourcesInvIsOK, PTL
=============================================================================
