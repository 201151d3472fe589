----------------------------- MODULE MCWorkspace -----------------------------
(***************************************************************************)
(* Small instances for TLC of the components that share no variable and    *)
(* are checked for safety, side by side: a behaviour exercises one of      *)
(* them, its part, and leaves the others as they begin.                    *)
(***************************************************************************)
EXTENDS Catalog, Alerts, EventEvidence, Associations, Organizations, Assistants,
        AssistantGraphs, ResearchContext, NarrativeLists, MarketSignals, Alignment,
        PaperExperiments, ExecutionQuotes, MatchOrder

CONSTANTS
    Prices, Sizes, Quantities, Budgets, Rates, Slippages,   \* of MatchOrder
    AlertSteps      \* bound: observations and requests, and rollbacks twice, in one behaviour

VARIABLE part

Parts == {"catalog", "alerts", "events", "associations", "organizations", "assistants", "graphs",
          "context", "lists", "signals", "alignment", "experiments", "quotes", "match"}

\* Two exchanges, one of them with a listing of two pages.
MCListing ==
    [e \in Exchange |-> IF e = CHOOSE x \in Exchange : TRUE THEN <<{"a"}, {"b"}>> ELSE <<{"c"}>>]

\* Graphs of three or four nodes with up to four connections; a context that fits a
\* packet only in part, and one whose entry does not fit.
MCKindOf == {<<"quant", "events", "risk", "review">>, <<"review", "risk", "quant", "pricing">>,
             <<"risk", "quant", "review", "review">>, <<"quant", "risk", "review">>,
             <<"risk", "review">>}
MCEdges ==
    LET pairs == (1..4) \X (1..4)
    IN  {e \in UNION {kSubset(k, pairs) : k \in 0..4} :
            \A p \in e : p[1] = p[2] => Cardinality(e) <= 2}
Reference(id, kind, size) == [id |-> id, kind |-> kind, size |-> size]
MCContexts ==
    {<<Reference("market", "market", 1), Reference("rules", "rules", 1),
       Reference("spike", "signal", 1), Reference("news", "evidence", 1),
       Reference("paper-entry", "market", 1)>>,
     <<Reference("market", "market", 1), Reference("rules", "rules", 1),
       Reference("paper-entry", "market", 3)>>}
MCSkillKinds ==
    [quant |-> {"market", "rules", "signal"}, events |-> {"market", "rules", "evidence"},
     pricing |-> {"market", "rules", "evidence"},
     risk |-> {"market", "rules", "signal", "evidence"},
     review |-> {"market", "rules", "signal", "evidence"}]

\* Evidence of every link and review status, and mixed reviews of two events.
Judged(status, paragraphs) == [status |-> status, paragraphs |-> paragraphs]
Unjudged == Judged("NONE", FALSE)
Known(link, first, second, official, size) ==
    [link |-> link, reviews |-> <<first, second>>, official |-> official, size |-> size]
MCDescribed ==
    {Known(l, r, Unjudged, TRUE, 1) : l \in {"NONE", "TOPIC_ONLY", "REJECTED"},
        r \in {Unjudged, Judged("DIRECT", TRUE), Judged("UNRELATED", FALSE)}}
    \union {Known("TOPIC_ONLY", Judged("UNRELATED", FALSE), Judged("BACKGROUND", TRUE), TRUE, 1),
            Known("TOPIC_ONLY", Judged("STALE", FALSE), Judged("PENDING", FALSE), TRUE, 1),
            Known("NONE", Judged("BACKGROUND", TRUE), Unjudged, FALSE, 2),
            Known("REVIEWED", Judged("DIRECT", FALSE), Judged("UNRELATED", FALSE), TRUE, 2),
            Known("REVIEWED", Judged("DIRECT", TRUE), Unjudged, FALSE, 2)}

\* Lists of two to six texts, short, long and very long; in one a text is too long, and
\* one is too long itself.
MCLists == UNION {[1..n -> {1, 4, 8}] : n \in 2..6} \union {<<1, 20, 1, 1>>, <<1, 1, 1, 1, 1, 1, 1>>}

\* One collector samples a rise on every tick; rows of the other are recorded late,
\* one of them unfit for a window.
Said(flaw, price, volume) == [flaw |-> flaw, price |-> price, volume |-> volume]
Low == Said("none", 0, 5)
High == Said("none", 1, 4)
MCContent ==
    <<<<{Low}, {Low}, {High}, {High}, {High}>>,
      <<{}, {}, {Said("dubious", 0, 5)}, {Low}, {}>>>>
MCDelay == <<{0}, {1}>>

\* Two points; up to two rows of the left market, sound or not, of either rules,
\* recorded up to two ticks late.
MCAxis == <<3, 4>>
Quote(id, received, late, sound, version) ==
    [id |-> id, received |-> received, recorded |-> received + late, sound |-> sound,
     rules |-> version]
OneQuote(id) ==
    {Quote(id, t, late, TRUE, v) : t \in 1..4, late \in 0..2, v \in {1, 2}}
    \union {Quote(id, t, 0, FALSE, 1) : t \in 2..3}
MCHistories ==
    [left |-> {{}} \union {{a} : a \in OneQuote(1)}
              \union {{a, b} : a \in OneQuote(1), b \in OneQuote(2)},
     right |-> {{}} \union {{Quote(1, t, 0, TRUE, 1)} : t \in 2..3}]
PairReview(version, made, relation, left) ==
    [version |-> version, at |-> made, relation |-> relation, rules |-> [left |-> left, right |-> 1]]
MCReviewLogs ==
    {<<>>, <<PairReview(1, 2, "EQUIVALENT", 1), PairReview(2, 4, "EQUIVALENT", 2)>>,
     <<PairReview(1, 3, "EQUIVALENT", 1), PairReview(2, 4, "INCOMPATIBLE", 1)>>}

\* Books of two levels over a few prices and sizes, best price first; Kalshi quotes
\* whole cents.
PricesOf(model) == {p \in Prices : model = "kalshi" => p % Cent = 0}
Books(side, model) ==
    {b \in {<<>>} \union UNION {[1..n -> [price : PricesOf(model), size : Sizes]] : n \in 1..2} :
        Len(b) = 2 => IF side = "BUY" THEN b[1].price < b[2].price
                                      ELSE b[1].price > b[2].price}
MCInputs ==
    UNION {[side : {s}, quantity : Quantities, limit : Prices,
            budget : IF s = "BUY" THEN Budgets ELSE {0}, slippage : Slippages,
            rate : Rates, model : {f}, levels : Books(s, f)] :
           s \in {"BUY", "SELL"}, f \in {"kalshi", "polymarket"}}

\* Most parts have two actors that may be exchanged; one permutation exchanges them all.
Twins == {Scanner, ObservedBy, Session, Writer, Editor, Organization, User}
Twin(x) == CHOOSE y \in UNION Twins : {x, y} \in Twins
MCSymmetry ==
    {[x \in UNION Twins |-> IF exchanged THEN Twin(x) ELSE x] : exchanged \in BOOLEAN}

-----------------------------------------------------------------------------

NoCall == [side |-> "SELL", quantity |-> 0, limit |-> 2, budget |-> 0, slippage |-> 0, rate |-> 0,
           model |-> "kalshi", levels |-> <<>>]

\* The inputs of the parts that start from one of many.
InputsInit ==
    /\ IF part = "organizations" THEN OrganizationsInit
       ELSE /\ account = [u \in User |-> "NONE"] /\ roles = [o \in Org |-> NoMembers]
            /\ requesting = {} /\ disabling = [u \in User |-> NotDisabling]
    /\ IF part = "graphs" THEN GraphsInit
       ELSE kinds = <<>> /\ edges = {} /\ context = <<>> /\ GraphsStart
    /\ IF part = "context" THEN ContextInit
       ELSE items = <<>> /\ usable = FALSE /\ ContextStart
    /\ IF part = "lists" THEN ListsInit ELSE answered = <<>> /\ ListsStart
    /\ IF part = "alignment" THEN AlignmentInit
       ELSE history = [s \in Sides |-> {}] /\ reviewLog = <<>> /\ AlignmentStart
    /\ IF part = "match" THEN Init
       ELSE /\ call = NoCall /\ at = 1 /\ remaining = 0 /\ budget = 0 /\ fills = <<>>
            /\ done = TRUE

MCInit ==
    /\ part \in Parts
    /\ CatalogInit /\ AlertsInit /\ EventsInit /\ AssociationsInit /\ AssistantsInit
    /\ SignalsInit /\ ExperimentsInit /\ QuotesInit
    /\ InputsInit

Others(p) ==
    /\ IF p = "catalog" THEN TRUE ELSE UNCHANGED catalogVars
    /\ IF p = "alerts" THEN TRUE ELSE UNCHANGED alertVars
    /\ IF p = "events" THEN TRUE ELSE UNCHANGED eventVars
    /\ IF p = "associations" THEN TRUE ELSE UNCHANGED assocVars
    /\ IF p = "organizations" THEN TRUE ELSE UNCHANGED orgVars
    /\ IF p = "assistants" THEN TRUE ELSE UNCHANGED assistantVars
    /\ IF p = "graphs" THEN TRUE ELSE UNCHANGED graphVars
    /\ IF p = "context" THEN TRUE ELSE UNCHANGED contextVars
    /\ IF p = "lists" THEN TRUE ELSE UNCHANGED listVars
    /\ IF p = "signals" THEN TRUE ELSE UNCHANGED signalVars
    /\ IF p = "alignment" THEN TRUE ELSE UNCHANGED alignVars
    /\ IF p = "experiments" THEN TRUE ELSE UNCHANGED experimentVars
    /\ IF p = "quotes" THEN TRUE ELSE UNCHANGED quoteVars
    /\ IF p = "match" THEN TRUE ELSE UNCHANGED vars

MCNext ==
    /\ \/ part = "catalog" /\ CatalogNext
       \/ part = "alerts" /\ AlertsNext /\ clock' + requests' + 2 * rollbacks' <= AlertSteps
       \/ part = "events" /\ EventsNext
       \/ part = "associations" /\ AssociationsNext
       \/ part = "organizations" /\ OrganizationsNext
       \/ part = "assistants" /\ AssistantsNext
       \/ part = "graphs" /\ GraphsNext
       \/ part = "context" /\ ContextNext
       \/ part = "lists" /\ ListsNext
       \/ part = "signals" /\ SignalsNext
       \/ part = "alignment" /\ AlignmentNext
       \/ part = "experiments" /\ ExperimentsNext
       \/ part = "quotes" /\ QuotesNext
       \/ part = "match" /\ Next
    /\ Others(part)
    /\ UNCHANGED part

MCSpec == MCInit /\ [][MCNext]_<<part, catalogVars, alertVars, eventVars, assocVars, orgVars,
                               assistantVars, graphVars, contextVars, listVars, signalVars,
                               alignVars, experimentVars, quoteVars, vars>>
=============================================================================
