----------------------------- MODULE EventEvidence -----------------------------
(***************************************************************************)
(* One research event (research/events.py, models.py): its definitions,    *)
(* the contracts linked to it, the candidate evidence the news worker      *)
(* finds and the operators' reviews.  Every table is append-only and every *)
(* row carries the time it was stamped with, so that a reader may ask what *)
(* was known at any earlier time.                                          *)
(*                                                                         *)
(* A row is stamped inside a transaction that holds row locks and becomes  *)
(* visible when it commits, later: a handler is therefore two steps, one   *)
(* that takes its locks, validates and stamps, and the commit.  A worker's *)
(* get_or_create of a candidate is a transaction of one row and one step.  *)
(* What a text says is one of "MACRO" and "OTHER" and stands for the terms *)
(* and the publication window discovery.discover looks for.                *)
(***************************************************************************)
EXTENDS Integers, FiniteSets, FiniteSetsExt

CONSTANTS
    Item,           \* evidence items
    OfficialItem,   \* those of an official source
    Contract,       \* markets collected for the event's topic
    Session,        \* database sessions of operators, commands and the news worker
    Relation,       \* classifications of a review, "DIRECT" among them
    Topics,         \* what the texts of items may say
    MaxVersions, MaxContractRules, MaxReviews, EventHours, MaxDiscoveries,  \* bounds
    EventRow, NoContract, NoTransaction

ASSUME EventsAssumption ==
    /\ IsFiniteSet(Item) /\ IsFiniteSet(Contract)
    /\ OfficialItem \subseteq Item /\ NoContract \notin Contract
    /\ Topics \subseteq {"MACRO", "OTHER"}
    /\ {MaxVersions, MaxContractRules, MaxReviews, EventHours, MaxDiscoveries} \subseteq Nat

VARIABLES
    table,          \* the committed rows of each table
    transaction,    \* of each session: its locks, its stamp and the rows it adds
    worklist,       \* candidates the discovery has found and not yet created
    contractRules,  \* Market.latest: the rules version of each contract
    hour,           \* the clock rows are stamped with
    discoveries     \* discovery passes begun

eventVars == <<table, transaction, worklist, contractRules, hour, discoveries>>

Table == {"definition", "revision", "link", "candidate", "review"}
NoRows == [t \in Table |-> {}]
Policies == {"SOURCE_ONLY", "MACRO"}

-----------------------------------------------------------------------------
(* What the tables say at a time.                                          *)

Versions(rs) == {r.version : r \in rs}
Newest(rs) == CHOOSE r \in rs : \A other \in rs : other.version <= r.version
Before(rs, at) == {r \in rs : r.at <= at}

DefinitionsIn(rows) == rows["definition"]
RevisionsOf(rows, i) == {r \in rows["revision"] : r.item = i}

\* Mutant: the newest revision whatever the cutoff.
VisibleAtLatest(rows, i, at) ==
    IF Before(RevisionsOf(rows, i), at) = {} THEN {} ELSE {Newest(RevisionsOf(rows, i))}

\* services.visible_evidence, for one item: its latest revision observed by then.
VisibleAt(rows, i, at) ==
    LET seen == Before(RevisionsOf(rows, i), at)
    IN IF seen = {} THEN {} ELSE {Newest(seen)}

\* events.definitions
DefinitionAt(rows, at) ==
    LET seen == Before(DefinitionsIn(rows), at)
    IN IF seen = {} THEN {} ELSE {Newest(seen)}

\* candidate_values: the candidate of the item's latest revision, and its status.
\* Reviews of one moment are ordered by a random id: any of them may be the last.
StatusAt(rows, definition, i, at) ==
    LET shown == {c \in Before(rows["candidate"], at) :
                    c.item = i /\ c.definition = definition.version}
        current == Versions(VisibleAt(rows, i, at))
        revision == Max({c.revision : c \in shown})
        reviews == {r \in Before(rows["review"], at) :
                      r.item = i /\ r.definition = definition.version /\ r.revision = revision}
    IN IF shown = {} THEN {"NONE"}
       ELSE IF revision \notin current THEN {"STALE"}
       ELSE IF reviews = {} THEN {"PENDING"}
       ELSE {r.relation : r \in {x \in reviews : \A y \in reviews : y.at <= x.at}}

\* event_detail: scope, contracts, statuses and the history of changes at a cutoff.
EventAt(rows, at) ==
    [scope |-> DefinitionAt(rows, at),
     contracts |-> Before(rows["link"], at),
     evidence |-> [i \in Item |-> {StatusAt(rows, d, i, at) : d \in DefinitionAt(rows, at)}],
     changes |-> {Before(rows[t], at) : t \in {"definition", "candidate", "review"}}]

-----------------------------------------------------------------------------
(* Discovery.                                                              *)

\* discovery.discover
Discovered(definition, revision) ==
    IF definition.policy = "SOURCE_ONLY" THEN revision.item \in OfficialItem
                                         ELSE revision.topic = "MACRO"

\* What sync_event_candidates finds in the rows a session sees.
Found(rows, at) ==
    LET visible == UNION {VisibleAt(rows, i, at) : i \in Item}
        FoundBy(d) == {[definition |-> d.version, item |-> r.item, revision |-> r.version] :
                         r \in {v \in visible : Discovered(d, v)}}
    IN UNION {FoundBy(d) : d \in DefinitionAt(rows, at)}

KeyOf(c) == [definition |-> c.definition, item |-> c.item, revision |-> c.revision]
KeysIn(rows) == {KeyOf(c) : c \in rows["candidate"]}
Stamped(keys, at) ==
    {[definition |-> k.definition, item |-> k.item, revision |-> k.revision, at |-> at] : k \in keys}

-----------------------------------------------------------------------------
(* Transactions.                                                           *)

Idle(s) == transaction[s] = NoTransaction
Open == {s \in Session : ~Idle(s)}
Locked == UNION {transaction[s].locks : s \in Open}

\* s takes its locks, stamps its rows and waits for its commit.
Begin(s, locks, rows) ==
    /\ Idle(s) /\ locks \intersect Locked = {}
    /\ transaction' = [transaction EXCEPT ![s] = [locks |-> locks, at |-> hour, rows |-> rows]]
    /\ UNCHANGED <<table, worklist, contractRules, hour, discoveries>>

Commit(s) ==
    /\ ~Idle(s)
    /\ table' = [t \in Table |-> table[t] \union transaction[s].rows[t]]
    /\ transaction' = [transaction EXCEPT ![s] = NoTransaction]
    /\ UNCHANGED <<worklist, contractRules, hour, discoveries>>

\* A lost connection, a failed command.
Rollback(s) ==
    /\ ~Idle(s)
    /\ transaction' = [transaction EXCEPT ![s] = NoTransaction]
    /\ UNCHANGED <<table, worklist, contractRules, hour, discoveries>>

NextVersion(rs) == 1 + Max({0} \union Versions(rs))
DefinitionRow(version, policy) == [version |-> version, policy |-> policy, at |-> hour]

EventLock == {EventRow}

\* append_definition
AppendDefinition(s, policy) ==
    /\ DefinitionsIn(table) # {}        \* the first one comes with the event
    /\ NextVersion(DefinitionsIn(table)) <= MaxVersions
    /\ Begin(s, EventLock,
             [NoRows EXCEPT !["definition"] =
                {DefinitionRow(NextVersion(DefinitionsIn(table)), policy)}])

\* news.persist_entry: a text that differs from the last one saved.
PersistRevision(s, i, topic) ==
    LET previous == RevisionsOf(table, i)
    IN /\ previous # {} => Newest(previous).topic # topic
       /\ NextVersion(previous) <= MaxVersions
       /\ Begin(s, {i}, [NoRows EXCEPT !["revision"] =
                           {[item |-> i, version |-> NextVersion(previous), topic |-> topic,
                             at |-> hour]}])

\* contract_matches: the saved snapshot against the market now.
ContractMatches(m) == \E l \in table["link"] : l.contract = m /\ l.rules = contractRules[m]

ReviewLocks(c, target) ==
    {EventRow, c.item, c} \union ({target} \ {NoContract})

\* validate_review: current versions, and a target whose contract still matches.
Reviewable(c, target) ==
    /\ c.definition = Newest(DefinitionsIn(table)).version
    /\ c.revision = Newest(RevisionsOf(table, c.item)).version
    /\ target # NoContract => ContractMatches(target)

\* append_evidence_review; the form validates the same under the same locks.
AppendEvidenceReview(s, key, relation, target) ==
    /\ Cardinality(table["review"]) < MaxReviews
    /\ Reviewable(key, target)
    /\ Begin(s, ReviewLocks(key, target),
             [NoRows EXCEPT !["review"] =
                {[definition |-> key.definition, item |-> key.item, revision |-> key.revision,
                  relation |-> relation, target |-> target, at |-> hour]}])

\* The initialize_fed_event command: the first definition, a macro one on request,
\* the links of contracts not linked yet and the candidates, in one transaction.
InitializeEvent(s, expand) ==
    LET first == IF DefinitionsIn(table) = {} THEN {DefinitionRow(1, "SOURCE_ONLY")} ELSE {}
        previous == Newest(DefinitionsIn(table) \union first)
        macro == IF expand /\ previous.policy # "MACRO"
                 THEN {DefinitionRow(previous.version + 1, "MACRO")} ELSE {}
        linked == {l.contract : l \in table["link"]}
        links == {[contract |-> m, rules |-> contractRules[m], at |-> hour] :
                    m \in Contract \ linked}
        seen == [table EXCEPT !["definition"] = @ \union first \union macro]
    IN /\ previous.version + Cardinality(macro) <= MaxVersions
       /\ Begin(s, EventLock \union Contract,
                [NoRows EXCEPT !["definition"] = first \union macro, !["link"] = links,
                               !["candidate"] =
                                  Stamped(Found(seen, hour) \ KeysIn(table), hour)])

-----------------------------------------------------------------------------
(* The news worker's discovery, without a transaction around it.           *)

SyncReads ==
    /\ worklist = {} /\ discoveries < MaxDiscoveries
    /\ worklist' = Found(table, hour) \ KeysIn(table)
    /\ worklist' # {}
    /\ discoveries' = discoveries + 1
    /\ UNCHANGED <<table, transaction, contractRules, hour>>

\* get_or_create; a row another transaction is about to add is waited for.
SyncCreates(key) ==
    /\ key \in worklist
    /\ \A s \in Open : key \notin KeysIn(transaction[s].rows)
    /\ worklist' = worklist \ {key}
    /\ table' = [table EXCEPT !["candidate"] = @ \union Stamped({key} \ KeysIn(table), hour)]
    /\ UNCHANGED <<transaction, contractRules, hour, discoveries>>

\* The worker fails or stops between two candidates.
SyncStops ==
    /\ worklist # {} /\ worklist' = {}
    /\ UNCHANGED <<table, transaction, contractRules, hour, discoveries>>

\* Ingestion saves a market's new rules; the row's lock holder is waited for.
RulesChange(m) ==
    /\ m \notin Locked /\ contractRules[m] < MaxContractRules
    /\ contractRules' = [contractRules EXCEPT ![m] = @ + 1]
    /\ UNCHANGED <<table, transaction, worklist, hour, discoveries>>

HourPasses ==
    /\ hour < EventHours /\ hour' = hour + 1
    /\ UNCHANGED <<table, transaction, worklist, contractRules, discoveries>>

EventsInit ==
    /\ table = NoRows /\ transaction = [s \in Session |-> NoTransaction]
    /\ worklist = {} /\ contractRules = [m \in Contract |-> 1] /\ hour = 1 /\ discoveries = 0

EventsNext ==
    \/ \E s \in Session :
         \/ \E policy \in Policies : AppendDefinition(s, policy)
         \/ \E i \in Item, topic \in Topics : PersistRevision(s, i, topic)
         \/ \E key \in KeysIn(table), relation \in Relation, target \in Contract \union {NoContract} :
              AppendEvidenceReview(s, key, relation, target)
         \/ \E expand \in BOOLEAN : InitializeEvent(s, expand)
         \/ Commit(s)
         \/ Rollback(s)
    \/ SyncReads
    \/ \E key \in worklist : SyncCreates(key)
    \/ SyncStops
    \/ \E m \in Contract : RulesChange(m)
    \/ HourPasses

EventsSpec == EventsInit /\ [][EventsNext]_eventVars

-----------------------------------------------------------------------------
(* Properties.                                                             *)

\* The unique constraints of the tables: versions of an event and of an item count
\* 1, 2, ..., a contract is linked once and a pair of versions is one candidate,
\* however transactions interleave; reviews are of rows that exist.
EventsOK ==
    /\ Versions(DefinitionsIn(table)) = 1..Cardinality(DefinitionsIn(table))
    /\ \A i \in Item : Versions(RevisionsOf(table, i)) = 1..Cardinality(RevisionsOf(table, i))
    /\ Cardinality({l.contract : l \in table["link"]}) = Cardinality(table["link"])
    /\ Cardinality(KeysIn(table)) = Cardinality(table["candidate"])
    /\ \A r \in table["review"] : KeyOf(r) \in KeysIn(table)
    /\ \A t \in Table : \A r \in table[t] : r.at <= hour

\* What a reader sees at a past time never changes, whatever commits later, once no
\* transaction stamped by then is still open: research that names its cutoff can be
\* repeated.
HistoryIsStable ==
    [][\A at \in 0..hour - 1 :
         (\A s \in Open : transaction[s].at > at) => EventAt(table', at) = EventAt(table, at)]_eventVars

\* A review becomes visible while the definition and the revision it names are the
\* newest, and, when it names a contract, while that contract still reads as when it
\* was linked: nothing supersedes them between the operator's check and the commit.
ReviewsAreOfCurrentVersions ==
    [][\A r \in table["review"]' \ table["review"] :
         /\ r.definition = Newest(DefinitionsIn(table)).version
         /\ r.revision = Newest(RevisionsOf(table, r.item)).version
         /\ r.target # NoContract => ContractMatches(r.target)]_eventVars

\* The record of events holds under concurrent operators, commands and workers.
EventsAreSound == []EventsOK /\ HistoryIsStable /\ ReviewsAreOfCurrentVersions
=============================================================================
