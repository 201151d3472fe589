--------------------------- MODULE CollectionPlan ---------------------------
(***************************************************************************)
(* The operator's collection plan and the collector that follows it        *)
(* (B/markets/selection.py, controls.py, catalog.py, admin.py,             *)
(* import_collection_topic.py; R/selection.rs, spool.rs, collector.rs).    *)
(*                                                                         *)
(* PostgreSQL holds the plan; every edit and every publication takes the   *)
(* row lock of the plan first, so each is one step.  A worker writes the   *)
(* plan as a manifest to Redis, the collector adopts it into its journal   *)
(* and acknowledges the revision it holds.  A Redis call that timed out    *)
(* may be carried out later, or never.                                     *)
(***************************************************************************)
EXTENDS Naturals, FiniteSets

CONSTANTS
    Topic, Market, Platform,
    PlatformOf,             \* [Market -> Platform]
    Baseline,               \* the topic "existing-coverage" of the first import
    Discovered,             \* what an unmanaged collector found by itself
    PriorityLimit, TotalLimit,  \* per exchange: 50 and 250 in the code
    MaxRevision,            \* bound: edits of the plan
    PlanFaults,             \* bound: failed calls, expired keys and stops
    NoPlan, NoMarket

ASSUME PlanAssumption ==
    /\ PlatformOf \in [Market -> Platform]
    /\ Baseline \in Topic /\ Discovered \subseteq Market
    /\ PriorityLimit \in Nat /\ TotalLimit \in Nat
    /\ PriorityLimit <= TotalLimit
    /\ MaxRevision \in Nat \ {0} /\ PlanFaults \in Nat
    /\ NoMarket \notin Market

VARIABLES
    plan,           \* the row of CollectionPlan
    topic,          \* the rows of ResearchTopic
    target,         \* the rows of CollectionTarget, by topic and market
    published,      \* the key collector:selection:v1
    ack,            \* the key collector:selection-status:v1
    late,           \* timed-out writes that Redis may still carry out
    adopted, disk,  \* the selection in the journal: in memory, in the file
    cycle,          \* where the collector is in its round of the markets
    planFaults

planVars == <<plan, topic, target, published, ack, late, adopted, disk, cycle,
              planFaults>>
operatorVars == <<plan, topic, target>>

Tiers == {"priority", "standard"}
On(p, ms) == {m \in ms : PlatformOf[m] = p}

Idle == [platform |-> NoMarket, todo |-> {}, asked |-> NoMarket]

-----------------------------------------------------------------------------
(* The manifest.                                                           *)

\* The markets that the rows tp of topics and tg of targets select in tiers.
Selected(tp, tg, tiers) ==
    {m \in Market : \E t \in Topic : tp[t] = "on" /\ tg[<<t, m>>] \in tiers}

WithinCapacity(tp, tg) ==
    \A p \in Platform :
        /\ Cardinality(On(p, Selected(tp, tg, {"priority"}))) <= PriorityLimit
        /\ Cardinality(On(p, Selected(tp, tg, Tiers))) <= TotalLimit

\* A market is polled at the priority interval if some topic wants that.
Manifest ==
    LET standard == Selected(topic, target, {"standard"})
        tiered == plan.coverage \/ standard # {}
    IN  [schema |-> IF tiered THEN 3 ELSE IF plan.controls THEN 2 ELSE 1,
         revision |-> plan.revision,
         enabled |-> plan.managed,
         universe |-> Selected(topic, target, Tiers),
         slow |-> standard \ Selected(topic, target, {"priority"}),
         sources |-> IF plan.controls \/ tiered THEN plan.sources
                                                ELSE [p \in Platform |-> TRUE]]

\* What the collector accepts of a manifest whose syntax is right.
Valid(s) ==
    /\ s.revision > 0
    /\ \A p \in Platform :
          Cardinality(On(p, s.universe))
            <= IF s.schema = 3 THEN TotalLimit ELSE PriorityLimit

-----------------------------------------------------------------------------
(* Edits: each holds the plan's lock and ends in record_change.            *)

RecordChange(p, tp, tg) ==
    /\ plan.revision < MaxRevision
    /\ plan' = [p EXCEPT !.revision = @ + 1]
    /\ topic' = tp
    /\ target' = tg
    /\ UNCHANGED <<published, ack, late, adopted, disk, cycle, planFaults>>

SaveTopic(t, state) ==
    LET tp == [topic EXCEPT ![t] = state] IN
    /\ WithinCapacity(tp, target)
    /\ RecordChange(plan, tp, target)

SaveTarget(t, m, state) ==
    LET tg == [target EXCEPT ![<<t, m>>] = state] IN
    /\ topic[t] # "absent"
    /\ WithinCapacity(topic, tg)
    /\ RecordChange(plan, topic, tg)

\* The first import keeps what was collected so far under a topic of its own.
ImportTopic(t, ms) ==
    LET new(x) == IF topic[x] = "absent" THEN "on" ELSE topic[x]
        kept == IF plan.managed THEN {} ELSE {Baseline} \X Discovered
        tp == [x \in Topic |->
                 IF x = t \/ (x = Baseline /\ ~plan.managed) THEN new(x)
                 ELSE topic[x]]
        tg == [x \in Topic \X Market |->
                 IF x \in kept \cup ({t} \X ms) /\ target[x] = "absent"
                 THEN "priority" ELSE target[x]]
    IN  /\ WithinCapacity(tp, tg)
        /\ ~plan.managed \/ <<tp, tg>> # <<topic, target>>
        /\ RecordChange([plan EXCEPT !.managed = TRUE], tp, tg)

\* The forms below carry the revision they were rendered from; one that is not
\* the plan's is refused and changes nothing.
ConfigureCollection(sources) ==
    RecordChange([plan EXCEPT !.sources = sources, !.controls = TRUE],
                 topic, target)

ConfigureCoverage ==
    RecordChange([plan EXCEPT !.coverage = TRUE, !.controls = TRUE],
                 topic, target)

\* Mutant: the markets of the directory are added without the capacity check.
SelectCatalogUnchecked(t, ms, tier) ==
    LET tg == [x \in Topic \X Market |-> IF x \in {t} \X ms THEN tier ELSE target[x]]
    IN  /\ plan.managed
        /\ topic[t] = "on"
        /\ RecordChange([plan EXCEPT !.coverage = TRUE, !.controls = TRUE], topic, tg)

\* The catalog rows of the markets are open and recent: an input here.
SelectCatalog(t, ms, tier) ==
    LET tg == [x \in Topic \X Market |-> IF x \in {t} \X ms THEN tier ELSE target[x]]
    IN  /\ plan.managed
        /\ topic[t] = "on"
        /\ WithinCapacity(topic, tg)
        /\ RecordChange([plan EXCEPT !.coverage = TRUE, !.controls = TRUE], topic, tg)

-----------------------------------------------------------------------------
(* Publication and the status shown to operators.                          *)

Fault == planFaults < PlanFaults /\ planFaults' = planFaults + 1

Publish ==
    /\ plan.managed \/ plan.controls
    /\ WithinCapacity(topic, target)
    /\ \/ published' = Manifest /\ UNCHANGED <<late, planFaults>>
       \/ Fault /\ late' = late \cup {[key |-> "selection", value |-> Manifest]}
          /\ UNCHANGED published
    /\ UNCHANGED <<operatorVars, ack, adopted, disk, cycle>>

LateWrite(w) ==
    /\ late' = late \ {w}
    /\ published' = IF w.key = "selection" THEN w.value ELSE published
    /\ ack' = IF w.key = "ack" THEN w.value ELSE ack
    /\ UNCHANGED <<operatorVars, adopted, disk, cycle, planFaults>>

\* Nobody renewed a key for five minutes (three for the acknowledgement).
Expire ==
    /\ Fault
    /\ \/ published' = NoPlan /\ UNCHANGED ack
       \/ ack' = NoPlan /\ UNCHANGED published
    /\ UNCHANGED <<operatorVars, late, adopted, disk, cycle>>

Applied ==
    /\ ack # NoPlan
    /\ plan.managed \/ plan.controls
    /\ ack.enabled = plan.managed
    /\ ack.revision = plan.revision
    /\ plan.controls => ack.schema \in {2, 3}
    /\ plan.coverage => ack.schema = 3

\* The run state "paused" of collection_status.
ShownPaused(p) ==
    /\ Applied
    /\ \/ plan.managed /\ On(p, Selected(topic, target, Tiers)) = {}
       \/ plan.controls /\ ~plan.sources[p]

-----------------------------------------------------------------------------
(* The collector.  It reads the manifest before every request it makes.    *)

\* Mutant: any valid manifest that differs is adopted.
SupersedesIfDifferent(s) == Valid(s) /\ s # adopted

Supersedes(s) ==
    Valid(s) /\ (adopted = NoPlan \/ s.revision > adopted.revision)

\* apply_selection restores the memory when the save fails; the file may have
\* been replaced all the same.
ApplySelection ==
    IF published # NoPlan /\ Supersedes(published)
    THEN \/ adopted' = published /\ disk' = published
         \/ planFaults' > planFaults /\ UNCHANGED adopted /\ disk' \in {disk, published}
    ELSE UNCHANGED <<adopted, disk>>

AckOf(s) == [revision |-> s.revision, enabled |-> s.enabled, schema |-> s.schema]

Acknowledge ==
    \/ adopted' = NoPlan /\ UNCHANGED <<ack, late>>
    \/ adopted' # NoPlan /\ ack' = AckOf(adopted') /\ UNCHANGED late
    \/ /\ adopted' # NoPlan /\ planFaults' > planFaults /\ UNCHANGED ack
       /\ late' \in {late, late \cup {[key |-> "ack", value |-> AckOf(adopted')]}}

\* Redis cannot be reached at all, or the reply of the acknowledgement is lost.
Unreachable ==
    /\ Fault
    /\ UNCHANGED <<adopted, disk, ack>>
    /\ late' \in {late} \cup
         (IF adopted = NoPlan THEN {}
          ELSE {late \cup {[key |-> "ack", value |-> AckOf(adopted)]}})

\* One fault may fail the save, the acknowledgement or both.
RefreshConfiguration ==
    \/ (UNCHANGED planFaults \/ Fault) /\ ApplySelection /\ Acknowledge
    \/ Unreachable

Control(s, p) == s = NoPlan \/ s.sources[p]
Managed(s) == s # NoPlan /\ s.enabled

StartPlatform(p) ==
    /\ cycle = Idle
    /\ RefreshConfiguration
    /\ cycle' = IF ~Control(adopted', p) THEN Idle
                ELSE [Idle EXCEPT
                        !.platform = p,
                        !.todo = On(p, IF Managed(adopted') THEN adopted'.universe
                                                            ELSE Discovered)]
    /\ UNCHANGED <<operatorVars, published>>

\* Mutant: the list taken at the start of the round is asked to its end.
NextMarketOfList(m) ==
    /\ cycle.asked = NoMarket
    /\ m \in cycle.todo
    /\ RefreshConfiguration
    /\ cycle' = [cycle EXCEPT !.todo = @ \ {m}, !.asked = m]
    /\ UNCHANGED <<operatorVars, published>>

\* A market that is not due is passed over like one that is not wanted.
NextMarket(m) ==
    /\ cycle.asked = NoMarket
    /\ m \in cycle.todo
    /\ RefreshConfiguration
    /\ LET rest == [cycle EXCEPT !.todo = @ \ {m}] IN
       IF ~Control(adopted', cycle.platform) THEN cycle' = Idle
       ELSE IF Managed(adopted') /\ m \notin adopted'.universe THEN cycle' = rest
       ELSE cycle' \in {rest, [rest EXCEPT !.asked = m]}
    /\ UNCHANGED <<operatorVars, published>>

Answer ==
    /\ cycle.asked # NoMarket
    /\ cycle' = [cycle EXCEPT !.asked = NoMarket]
    /\ UNCHANGED <<operatorVars, published, ack, late, adopted, disk, planFaults>>

EndPlatform ==
    /\ cycle # Idle /\ cycle.todo = {} /\ cycle.asked = NoMarket
    /\ cycle' = Idle
    /\ UNCHANGED <<operatorVars, published, ack, late, adopted, disk, planFaults>>

StopCollector ==
    /\ Fault
    /\ adopted' = disk
    /\ cycle' = Idle
    /\ UNCHANGED <<operatorVars, published, ack, late, disk>>

-----------------------------------------------------------------------------
PlanInit ==
    /\ plan = [revision |-> 1, managed |-> FALSE, controls |-> FALSE,
               coverage |-> FALSE, sources |-> [p \in Platform |-> TRUE]]
    /\ topic = [t \in Topic |-> "absent"]
    /\ target = [x \in Topic \X Market |-> "absent"]
    /\ published = NoPlan /\ ack = NoPlan /\ late = {}
    /\ adopted = NoPlan /\ disk = NoPlan
    /\ cycle = Idle
    /\ planFaults = 0

Edit ==
    \/ \E t \in Topic, state \in {"on", "off"} : SaveTopic(t, state)
    \/ \E t \in Topic, m \in Market, state \in Tiers \cup {"paused"} :
          SaveTarget(t, m, state)
    \/ \E t \in Topic, ms \in SUBSET Market \ {{}} : ImportTopic(t, ms)
    \/ \E sources \in [Platform -> BOOLEAN] : ConfigureCollection(sources)
    \/ ConfigureCoverage
    \/ \E t \in Topic, ms \in SUBSET Market \ {{}}, tier \in Tiers :
          SelectCatalog(t, ms, tier)

Collect ==
    \/ \E p \in Platform : StartPlatform(p)
    \/ \E m \in Market : NextMarket(m)
    \/ Answer
    \/ EndPlatform

PlanNext ==
    \/ Edit
    \/ Publish
    \/ \E w \in late : LateWrite(w)
    \/ Expire
    \/ Collect
    \/ StopCollector

\* The worker publishes every ten seconds and the collector never stops asking.
PlanFairness ==
    /\ WF_planVars(Publish)
    /\ WF_planVars(Collect)

PlanSpec == PlanInit /\ [][PlanNext]_planVars /\ PlanFairness

-----------------------------------------------------------------------------
Manifests == {published, adopted, disk} \cup {w.value : w \in {x \in late : x.key = "selection"}}

PlanTypeOK ==
    /\ plan.revision \in 1..MaxRevision
    /\ {plan.managed, plan.controls, plan.coverage} \subseteq BOOLEAN
    /\ plan.sources \in [Platform -> BOOLEAN]
    /\ topic \in [Topic -> {"absent", "on", "off"}]
    /\ target \in [Topic \X Market -> Tiers \cup {"absent", "paused"}]
    /\ \A s \in Manifests \ {NoPlan} :
          s.schema \in 1..3 /\ s.universe \subseteq Market
    /\ cycle.todo \subseteq Market /\ cycle.asked \in Market \cup {NoMarket}
    /\ planFaults \in 0..PlanFaults

\* The collector accepts whatever is published, and one revision never stands
\* for two manifests: the limits of the two programs agree for every mixture of
\* tiers, topics and schema versions, and no edit forgets the revision.
\* Otherwise the collector would keep its last good selection for good.
PublishedIsAdoptable ==
    /\ \A s \in Manifests \ {NoPlan} : Valid(s)
    /\ \A r, s \in (Manifests \cup {Manifest}) \ {NoPlan} :
          r.revision = s.revision => r = s

\* When the console says that the plan is applied, the collector follows exactly
\* this plan, and no request is out for an exchange shown as paused: edits,
\* late writes and failed saves cannot make the status lie (selection_status,
\* collection_status).
AppliedIsTrue ==
    /\ Applied => adopted = Manifest
    /\ \A p \in Platform : ShownPaused(p) => On(p, {cycle.asked} \ {NoMarket}) = {}

\* The collector never returns to an older plan, whatever Redis offers and
\* across restarts.
AdoptionMovesForward ==
    [][adopted # NoPlan =>
         adopted' # NoPlan /\ (adopted' = adopted \/ adopted'.revision > adopted.revision)]_adopted

\* Once the operators stop editing, the plan is applied and shown so for good.
PlanIsApplied == <>[](plan.managed \/ plan.controls => Applied)

\* The plan that is published, adopted and shown is one plan.
PlanIsTrue == PlanTypeOK /\ PublishedIsAdoptable /\ AppliedIsTrue
=============================================================================
