--------------------------- MODULE ResearchContext ---------------------------
(***************************************************************************)
(* The evidence a research run is given about a market and may rest an     *)
(* estimate on: build_context (agents/context.py) joins the market's       *)
(* timeline with the operators' reviews of its events, scoped_context cuts *)
(* a stage's packet to its budget, validate_stage (intelligence.py) judges *)
(* the answer.  Everything is read as of the cutoff (see EventEvidence and *)
(* Associations for what that is), so nothing interleaves.                 *)
(***************************************************************************)
EXTENDS Integers, FiniteSets, SequencesExt, Ordering

CONSTANTS
    Described,      \* what may be known of an item: [link, reviews, official, size]
    NumItems,       \* items, newest last
    MaxEntries,     \* 8 evidence references
    ContextLimit,   \* 48 000 bytes in all
    PacketLimit     \* what 32 000 bytes leave for evidence in a packet

ASSUME ContextAssumption == {NumItems, MaxEntries, ContextLimit, PacketLimit} \subseteq Nat

VARIABLES
    items,          \* of each item its latest link, its reviews by event, its source
    usable,         \* price usable, midpoint, open, rules and closing time known
    entries,        \* the evidence references, in order
    directIds,      \* quality["reviewed_evidence_ids"]
    packet,         \* the evidence of the packet, a set
    contextPhase

contextVars == <<items, usable, entries, directIds, packet, contextPhase>>

Items == 1..NumItems
Statuses(i) == {items[i].reviews[e].status : e \in DOMAIN items[i].reviews}

\* timeline: items whose latest link is not a rejection, newest first.
Timeline == Filtered([k \in Items |-> NumItems + 1 - k],
                     {i \in Items : items[i].link \notin {"NONE", "REJECTED"}})

\* market_event_evidence leaves out stale reviews; the rest reject or support.
RejectedItems == {i \in Items : "UNRELATED" \in Statuses(i)}
ReviewedItems == {i \in Items : Statuses(i) \intersect {"DIRECT", "BACKGROUND"} # {}}
DirectItems == {i \in Items : "DIRECT" \in Statuses(i)}

WithReviews ==
    LET kept == Filtered(Timeline, (Items \ RejectedItems) \union ReviewedItems)
        added == ReviewedItems \ ToSet(kept)
    IN  kept \o Sorted(added \intersect DirectItems) \o Sorted(added \ DirectItems)

\* Mutant: in the order of the timeline.
ByTime(seq) == seq
\* The stable sort: direct evidence, reviewed evidence, topic matches.
ByReview(seq) ==
    Filtered(seq, DirectItems) \o Filtered(seq, ReviewedItems \ DirectItems)
      \o Filtered(seq, Items \ ReviewedItems)

Select ==
    /\ contextPhase = "reading"
    /\ entries' = LET seq == ByReview(WithReviews)
                  IN SubSeq(seq, 1, IF Len(seq) < MaxEntries THEN Len(seq) ELSE MaxEntries)
    /\ contextPhase' = "selected"
    /\ UNCHANGED <<items, usable, directIds, packet>>

\* A review that is direct and names paragraphs of the captured document.
HasDirectText(i) ==
    \E e \in DOMAIN items[i].reviews :
      items[i].reviews[e].status = "DIRECT" /\ items[i].reviews[e].paragraphs

Size(seq) == FoldLeft(LAMBDA n, i : n + items[i].size, 0, seq)

\* References, their quality and the size of it all.
Freeze ==
    /\ contextPhase = "selected"
    /\ directIds' = {i \in ToSet(entries) : items[i].official /\ HasDirectText(i)}
    /\ contextPhase' = IF Size(entries) > ContextLimit THEN "too large" ELSE "frozen"
    /\ UNCHANGED <<items, usable, entries, packet>>

Eligible == usable /\ directIds # {}

\* scoped_context
Scoped ==
    /\ contextPhase = "frozen"
    /\ packet' = ToSet(FoldLeft(LAMBDA seq, i : IF Size(seq) + items[i].size > PacketLimit
                                                THEN seq ELSE Append(seq, i), <<>>, entries))
    /\ contextPhase' = "asked"
    /\ UNCHANGED <<items, usable, entries, directIds>>

Supported(cited) == Eligible /\ cited \intersect packet \intersect directIds # {}

\* validate_stage of the research lead's answer, an estimate or an abstention; packet
\* keeps what it cites.
Judge(cited, estimate) ==
    /\ contextPhase = "asked"
    /\ contextPhase' = IF ~(cited \subseteq packet) \/ (estimate /\ ~Supported(cited))
                       THEN "invalid report"
                       ELSE IF estimate THEN "estimate" ELSE "abstention"
    /\ packet' = packet \intersect cited
    /\ UNCHANGED <<items, usable, entries, directIds>>

ContextStart ==
    /\ entries = <<>> /\ directIds = {} /\ packet = {} /\ contextPhase = "reading"

ContextInit == items \in [Items -> Described] /\ usable \in BOOLEAN /\ ContextStart

ContextNext ==
    \/ Select \/ Freeze \/ Scoped
    \/ \E cited \in SUBSET Items, estimate \in BOOLEAN : Judge(cited, estimate)

ContextSpec == ContextInit /\ [][ContextNext]_contextVars

-----------------------------------------------------------------------------

\* What operators decided about the evidence decides what the model sees: nothing they
\* called unrelated, or unlinked, without another review that keeps it, everything
\* reviewed while there is room, and nothing of less weight in place of direct evidence.
EvidenceIsAsReviewed ==
    contextPhase # "reading" =>
      /\ \A i \in ToSet(entries) :
           i \in ReviewedItems \/ (i \notin RejectedItems /\ items[i].link # "REJECTED")
      /\ \A i \in Items \ ToSet(entries) :
           /\ i \in DirectItems => Len(entries) = MaxEntries /\ ToSet(entries) \subseteq DirectItems
           /\ i \in ReviewedItems => Len(entries) = MaxEntries

\* An estimate is accepted only if it cites official text, shown to the model, that
\* an operator reviewed as direct evidence and marked the paragraphs of.
EstimatesRestOnReviewedText ==
    contextPhase = "estimate" =>
      /\ usable
      /\ \E i \in packet : items[i].official /\ HasDirectText(i)

ContextOK == EvidenceIsAsReviewed /\ EstimatesRestOnReviewedText
=============================================================================
