----------------------------- MODULE Associations -----------------------------
(***************************************************************************)
(* Two more append-only histories of the research pages: the links between *)
(* evidence items and markets (news.associate_topics, EvidenceLinkAdmin)   *)
(* and the reviews of a pair of markets compared across platforms          *)
(* (reviews.append_review, the import_comparisons command).                *)
(*                                                                         *)
(* Writers of a link lock its market's row, writers of a pair review lock  *)
(* the pair and both markets.  The time of an operator's link is set when  *)
(* the form builds the row, before save_model asks for the lock.           *)
(***************************************************************************)
EXTENDS Integers, Sequences, FiniteSets, FiniteSetsExt

CONSTANTS
    LinkedMarket,   \* markets that match the topic; Left and Right among them
    Left, Right,    \* the markets of one comparison
    TopicItem,      \* visible evidence items whose wording matches
    Writer,         \* sessions of operators, commands and news workers
    Decision,       \* statuses an operator chooses
    Verdict,        \* what a pair review says: relation, alignment, rationale, ...
    MaxRows, MaxRuleVersions, LinkHours,    \* bounds
    PairRow, NoWriter

ASSUME AssociationsAssumption ==
    /\ {Left, Right} \subseteq LinkedMarket /\ Left # Right /\ PairRow \notin LinkedMarket
    /\ Decision \subseteq {"TOPIC_ONLY", "REVIEWED", "REJECTED"}
    /\ {MaxRows, MaxRuleVersions, LinkHours} \subseteq Nat

VARIABLES
    links,          \* EvidenceLink rows
    pairReviews,    \* ComparisonReview rows, in version order
    ruleVersion,    \* rules_version of each market's latest observation
    writing,        \* of each writer: what it is about to commit
    linkHour        \* the clock rows are stamped with

assocVars == <<links, pairReviews, ruleVersion, writing, linkHour>>

Row(m, i, status, method) ==
    [market |-> m, item |-> i, status |-> status, method |-> method, at |-> linkHour]
RowsOf(m, i) == {r \in links : r.market = m /\ r.item = i}
Saved == Cardinality(links) + Len(pairReviews)
Rules == <<ruleVersion[Left], ruleVersion[Right]>>

-----------------------------------------------------------------------------
(* Transactions: FORM before its lock, OPEN until it commits.              *)

Free(w) == writing[w] = NoWriter
Held == UNION {writing[w].locks : w \in {v \in Writer : ~Free(v) /\ writing[v].stage = "OPEN"}}
Opens(w, locks, rows, reviews) ==
    /\ locks \intersect Held = {}
    /\ writing' = [writing EXCEPT ![w] =
                     [stage |-> "OPEN", locks |-> locks, rows |-> rows, reviews |-> reviews]]
    /\ UNCHANGED <<links, pairReviews, ruleVersion, linkHour>>

\* Mutant: the automatic association does not wait for the market's row.
TopicLocksNothing(m) == {}
TopicLocks(m) == {m}

\* associate_topics, for one market: a link for every item that has none yet.
AssociateTopic(w, m) ==
    LET missing == {i \in TopicItem : RowsOf(m, i) = {}}
    IN /\ Free(w) /\ missing # {}
       /\ Saved + Cardinality(missing) <= MaxRows
       /\ Opens(w, TopicLocks(m), {Row(m, i, "TOPIC_ONLY", "macro-topic") : i \in missing}, <<>>)

\* The operator's form is read and its row built; save_model then locks the market.
SubmitLink(w, m, i, status) ==
    /\ Free(w) /\ Saved < MaxRows
    /\ writing' = [writing EXCEPT ![w] =
                     [stage |-> "FORM", locks |-> {m}, rows |-> {Row(m, i, status, "operator")},
                      reviews |-> <<>>]]
    /\ UNCHANGED <<links, pairReviews, ruleVersion, linkHour>>

LockLink(w) ==
    /\ ~Free(w) /\ writing[w].stage = "FORM"
    /\ Opens(w, writing[w].locks, writing[w].rows, <<>>)

PairLocks == {PairRow, Left, Right}

\* append_review: the snapshots are of the locked markets.
AppendReview(w, verdict) ==
    /\ Free(w) /\ Saved < MaxRows
    /\ Opens(w, PairLocks, {}, <<[verdict |-> verdict, rules |-> Rules, imported |-> FALSE]>>)

Unchanged(review, verdict, expected) == review.verdict = verdict /\ review.rules = expected

\* import_comparisons: rules as the file names them, and not what the last review says.
ImportReview(w, verdict, expected) ==
    /\ Free(w) /\ Saved < MaxRows
    /\ Rules = expected
    /\ pairReviews # <<>> => ~Unchanged(pairReviews[Len(pairReviews)], verdict, expected)
    /\ Opens(w, PairLocks, {}, <<[verdict |-> verdict, rules |-> Rules, imported |-> TRUE]>>)

CommitRows(w) ==
    /\ ~Free(w) /\ writing[w].stage = "OPEN"
    /\ links' = links \union writing[w].rows
    /\ pairReviews' = pairReviews \o writing[w].reviews
    /\ writing' = [writing EXCEPT ![w] = NoWriter]
    /\ UNCHANGED <<ruleVersion, linkHour>>

\* A lost connection, or a row of the file that fails.
RollbackRows(w) ==
    /\ ~Free(w)
    /\ writing' = [writing EXCEPT ![w] = NoWriter]
    /\ UNCHANGED <<links, pairReviews, ruleVersion, linkHour>>

\* Ingestion updates a market; a writer that holds its row is waited for.
UpdateRules(m) ==
    /\ m \notin Held /\ ruleVersion[m] < MaxRuleVersions
    /\ ruleVersion' = [ruleVersion EXCEPT ![m] = @ + 1]
    /\ UNCHANGED <<links, pairReviews, writing, linkHour>>

LinkHourPasses ==
    /\ linkHour < LinkHours /\ linkHour' = linkHour + 1
    /\ UNCHANGED <<links, pairReviews, ruleVersion, writing>>

AssociationsInit ==
    /\ links = {} /\ pairReviews = <<>> /\ ruleVersion = [m \in LinkedMarket |-> 1]
    /\ writing = [w \in Writer |-> NoWriter] /\ linkHour = 1

AssociationsNext ==
    \/ \E w \in Writer :
         \/ \E m \in LinkedMarket : AssociateTopic(w, m)
         \/ \E m \in LinkedMarket, i \in TopicItem, status \in Decision : SubmitLink(w, m, i, status)
         \/ LockLink(w)
         \/ \E verdict \in Verdict : AppendReview(w, verdict)
         \/ \E verdict \in Verdict, left, right \in 1..MaxRuleVersions :
              ImportReview(w, verdict, <<left, right>>)
         \/ CommitRows(w)
         \/ RollbackRows(w)
    \/ \E m \in LinkedMarket : UpdateRules(m)
    \/ LinkHourPasses

AssociationsSpec == AssociationsInit /\ [][AssociationsNext]_assocVars

-----------------------------------------------------------------------------
(* Properties.                                                             *)

\* The automatic association never speaks where anyone has spoken: when one of its
\* links appears, the market and the item had none, so workers do not repeat it and an
\* operator's decision is not followed by it.
AutomaticLinkIsFirst ==
    [][\A r \in links' \ links : r.method = "macro-topic" => RowsOf(r.market, r.item) = {}]_assocVars

\* A pair review appears with the rules that are in force at that moment, and an import
\* adds one only where the last review says something else or is of other rules.
PairReviewsAreOfTheirRules ==
    [][Len(pairReviews') > Len(pairReviews) =>
         LET added == pairReviews'[Len(pairReviews')]
         IN /\ added.rules = Rules
            /\ added.imported /\ pairReviews # <<>> =>
                 [verdict |-> added.verdict, rules |-> added.rules] #
                 [verdict |-> pairReviews[Len(pairReviews)].verdict,
                  rules |-> pairReviews[Len(pairReviews)].rules]]_assocVars

\* Automatic links and reviews of pairs are serialized with operators' decisions on
\* the rows of the markets.
AssociationsAreOrdered == AutomaticLinkIsFirst /\ PairReviewsAreOfTheirRules
=============================================================================
