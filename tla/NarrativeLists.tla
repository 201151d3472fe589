---------------------------- MODULE NarrativeLists ----------------------------
(***************************************************************************)
(* group_narrative_lists (report_validation.py): a list of texts longer    *)
(* than its schema allows is made to fit by joining neighbours, or is left *)
(* to be refused.  A text is its length; groups are sequences of texts.    *)
(***************************************************************************)
EXTENDS Integers, FiniteSets, SequencesExt

CONSTANTS
    Lists,          \* lists a model may answer with: sequences of lengths
    MaxTexts,       \* the list's maxItems
    MostTexts,      \* 64: a longer list is left alone
    MaxLength,      \* the texts' maxLength
    Bullet, NextBullet  \* lengths of the marks before the first and the other texts

ASSUME ListsAssumption ==
    /\ \A list \in Lists : list \in Seq(Nat)
    /\ MaxTexts \in Nat \ {0} /\ {MostTexts, MaxLength, Bullet, NextBullet} \subseteq Nat

VARIABLES
    answered,       \* the list
    toPlace,        \* texts not yet in a group
    groups,
    listPhase

listVars == <<answered, toPlace, groups, listPhase>>

Letters(group) == SumFunctionOnSet(group, DOMAIN group)
\* render
Rendered(group) ==
    IF Len(group) = 1 THEN group[1]
    ELSE Letters(group) + Bullet + NextBullet * (Len(group) - 1)

Oversized(list) ==
    /\ MaxTexts < Len(list) /\ Len(list) <= MostTexts
    /\ \A i \in DOMAIN list : list[i] \in 1..MaxLength

\* Mutant: the marks are not counted.
JoinableBare(group, text) == Letters(group) + text <= MaxLength
Joinable(group, text) == Rendered(Append(group, text)) <= MaxLength

\* The greedy loop: a text joins the last group if it fits.
Place ==
    /\ listPhase = "placing" /\ toPlace # <<>>
    /\ groups' = IF groups # <<>> /\ Joinable(Last(groups), Head(toPlace))
                 THEN Front(groups) \o <<Append(Last(groups), Head(toPlace))>>
                 ELSE Append(groups, <<Head(toPlace)>>)
    /\ toPlace' = Tail(toPlace)
    /\ UNCHANGED <<answered, listPhase>>

Placed ==
    /\ listPhase = "placing" /\ toPlace = <<>>
    /\ listPhase' = IF Len(groups) > MaxTexts THEN "unchanged" ELSE "splitting"
    /\ UNCHANGED <<answered, toPlace, groups>>

Longest == CHOOSE i \in DOMAIN groups : \A j \in DOMAIN groups :
    Len(groups[j]) < Len(groups[i]) \/ (Len(groups[j]) = Len(groups[i]) /\ i <= j)

Halves(group) ==
    LET midpoint == (Len(group) + 1) \div 2
    IN  <<SubSeq(group, 1, midpoint), SubSeq(group, midpoint + 1, Len(group))>>

\* The other loop: the longest group is halved while there are slots to fill.
Split ==
    /\ listPhase = "splitting"
    /\ IF Len(groups) < MaxTexts
       THEN /\ groups' = SubSeq(groups, 1, Longest - 1) \o Halves(groups[Longest])
                           \o SubSeq(groups, Longest + 1, Len(groups))
            /\ UNCHANGED listPhase
       ELSE listPhase' = "grouped" /\ UNCHANGED groups
    /\ UNCHANGED <<answered, toPlace>>

ListsStart ==
    /\ toPlace = answered /\ groups = <<>>
    /\ listPhase = IF Oversized(answered) THEN "placing" ELSE "unchanged"

ListsInit == answered \in Lists /\ ListsStart
ListsNext == Place \/ Placed \/ Split
ListsSpec == ListsInit /\ [][ListsNext]_listVars

-----------------------------------------------------------------------------

\* Some way to cut the list into at most MaxTexts runs that fit.
SomeGroupingFits ==
    \E cuts \in SUBSET (1..(Len(answered) - 1)) :
      /\ Cardinality(cuts) < MaxTexts
      /\ \A first, last \in DOMAIN answered :
           /\ first <= last /\ (first = 1 \/ first - 1 \in cuts)
           /\ last \in cuts \union {Len(answered)} /\ cuts \intersect first..(last - 1) = {}
             => Rendered(SubSeq(answered, first, last)) <= MaxLength

\* Grouping drops, reorders and rewrites nothing, its result passes the schema, and
\* it gives up only on a list that no grouping of neighbours could make fit.
ListsOK ==
    /\ listPhase = "grouped" =>
         /\ FlattenSeq(groups) = answered /\ Len(groups) = MaxTexts
         /\ \A i \in DOMAIN groups : groups[i] # <<>> /\ Rendered(groups[i]) <= MaxLength
    /\ listPhase = "unchanged" /\ Oversized(answered) => ~SomeGroupingFits
=============================================================================
