--------------------------- MODULE MarketSignals ---------------------------
(***************************************************************************)
(* The quotes of one market, from the collectors' observations to what a   *)
(* reader is told: the window analysis of signals.py, the eligibility      *)
(* rules of quality.py and alert_metrics.py, the market row ingestion      *)
(* keeps, the live cache, the stored signals, and the view at a cutoff.    *)
(*                                                                         *)
(* Time is in ticks of the sampling interval.  Prices are levels; volumes  *)
(* differ by rounding if they differ by at most Tolerance.  Batches hold   *)
(* one observation.                                                        *)
(***************************************************************************)
EXTENDS Integers, FiniteSets, SequencesExt

CONSTANTS
    Collector,          \* numbers: rows of one moment are ordered by them
    Delay,              \* Delay[c]: how long a response may take to be recorded
    Content,            \* Content[c][t]: what an observation may say at t: flaw, price, volume
    Span, MaxGap, MinimumSamples, StaleAfter, HistorySpan,  \* of the code, in ticks
    Threshold, Tolerance,
    SignalTicks, MaxSamples,     \* bounds
    DeployTicks,        \* bound: when rules may be deployed
    NoQuote

QuoteContent ==
    [flaw : {"none", "flagged", "closed", "unquoted", "dubious"}, price : Int, volume : Int]
QuoteRow ==
    [by : Collector, at : Nat, recorded : Nat,
     flaw : {"none", "flagged", "closed", "unquoted", "dubious"}, price : Int, volume : Int]
WindowMetrics ==
    [version : 1..3, ready : BOOLEAN, of : QuoteRow, price : BOOLEAN, volume : BOOLEAN, change : Int]
MarketRow == [first : Nat, latest : QuoteRow, metrics : WindowMetrics]

\* History reaches back beyond the window; a change is one of more than zero.
ASSUME SignalsAssumption ==
    /\ Collector \subseteq Nat /\ Delay \in [Collector -> SUBSET Nat]
    /\ {Span, Threshold, SignalTicks} \subseteq Nat \ {0}
    /\ {MaxGap, MinimumSamples, StaleAfter, HistorySpan, Tolerance} \subseteq Nat
    /\ Span <= HistorySpan
    /\ \A c \in Collector : \A t \in 1..SignalTicks : Content[c][t] \subseteq QuoteContent
    /\ NoQuote \notin MarketRow

VARIABLES
    streams,    \* the observations of each collector
    uploaded,   \* how many of them ClickHouse has
    analysed,   \* how many of them ingestion has committed
    market,     \* Market: first_observed_at, latest, metrics
    cache,      \* the live key of Redis; it may expire, see Shown
    signals,    \* stored signals
    rulesVersion,   \* the version of the window rules that is deployed
    tick

signalVars == <<streams, uploaded, analysed, market, cache, signals, rulesVersion, tick>>

Made == UNION {ToSet(streams[c]) : c \in Collector}
Stored == UNION {ToSet(SubSeq(streams[c], 1, uploaded[c])) : c \in Collector}

\* history: rows received from start to end, as far as they were known then.
History(start, end, known) ==
    {q \in Stored : start <= q.at /\ q.at <= end /\ q.recorded <= known}

Precedes(p, q) == p.at < q.at \/ (p.at = q.at /\ p.by < q.by)
NewestOf(rows) == CHOOSE q \in rows : \A p \in rows : ~Precedes(q, p)
OldestOf(rows) == CHOOSE q \in rows : \A p \in rows : ~Precedes(p, q)

-----------------------------------------------------------------------------
(* Windows and their quality.                                              *)

\* The rows from the last one at or before the start of the window.
Window(rows, span) ==
    LET before == {q \in rows : q.at <= NewestOf(rows).at - span}
    IN  IF before = {} THEN {} ELSE {q \in rows : ~Precedes(q, NewestOf(before))}

\* Enough rows that reach back far enough, and no gap between them.
Continuous(w, span) ==
    /\ w # {} /\ Cardinality(w) >= MinimumSamples
    /\ NewestOf(w).at - span - OldestOf(w).at <= MaxGap
    /\ \A p, q \in w : p.at = q.at => p = q
    /\ \A q \in w \ {OldestOf(w)} : \E p \in w : (q.at - p.at) \in 1..MaxGap

Unflawed(q) == q.flaw \notin {"flagged", "closed"}
\* "dubious" is a midpoint that is not that of bid and ask, or was not current.
Quoted(q) == q.flaw \notin {"unquoted", "dubious"}

\* cumulative_delta
Delta(a, b) == IF b - a \in -Tolerance..Tolerance THEN 0 ELSE b - a

Consecutive(w) ==
    {pq \in w \X w : Precedes(pq[1], pq[2])
                     /\ \A r \in w : ~(Precedes(pq[1], r) /\ Precedes(r, pq[2]))}

\* The three versions of analyze differ in what they ask of a window: the first only
\* that there are midpoints, the third that the volume does not fall by more than rounding.
QualityV1(w) ==
    [price |-> \A q \in w : q.flaw # "unquoted",
     volume |-> \A pq \in Consecutive(w) : pq[2].volume >= pq[1].volume]
QualityV2(w) ==
    [price |-> \A q \in w : Unflawed(q) /\ Quoted(q),
     volume |-> (\A q \in w : Unflawed(q)) /\ QualityV1(w).volume]
WindowQuality(w) ==
    [price |-> QualityV2(w).price,
     volume |-> /\ \A q \in w : Unflawed(q)
                /\ \A pq \in Consecutive(w) : Delta(pq[1].volume, pq[2].volume) >= 0]

\* analyze: the metrics of the newest row.
Analyze(version, rows) ==
    LET w == Window(rows, Span)
        ready == Continuous(w, Span) /\ \A q \in w : Unflawed(q)
        quality == IF version = 1 THEN QualityV1(w)
                   ELSE IF version = 2 THEN QualityV2(w) ELSE WindowQuality(w)
        usable == ready /\ quality.price
    IN  [version |-> version, ready |-> ready, of |-> NewestOf(rows), price |-> usable,
         volume |-> ready /\ quality.volume,
         change |-> IF usable THEN NewestOf(w).price - OldestOf(w).price ELSE 0]

\* The signals analyze emits, with their metrics and their inputs.
Emitted(version, rows) ==
    LET metrics == Analyze(version, rows)
        emit(kind) == [version |-> version, kind |-> kind, metrics |-> metrics,
                       inputs |-> Window(rows, Span)]
    IN  IF metrics.change >= Threshold THEN {emit("PROBABILITY_SPIKE")}
        ELSE IF metrics.change <= -Threshold THEN {emit("PROBABILITY_DROP")} ELSE {}

Replay(signal) == Emitted(signal.version, signal.inputs)

\* The metrics of the first rules have no quality.
MetricsAreOf(q, metrics) ==
    metrics.ready /\ metrics.version = rulesVersion /\ metrics.version > 1 /\ metrics.of = q

\* research_quality: the price of q may be used at a time.
PriceUsable(q, metrics, at) ==
    /\ Unflawed(q) /\ Quoted(q)
    /\ q.recorded <= at /\ q.at <= at /\ at - q.at <= StaleAfter
    /\ MetricsAreOf(q, metrics) /\ metrics.price

\* evaluate_window, for a rule on q: a window of its own over what is known.
AlertEligible(q, at) ==
    LET rows == History(q.at - HistorySpan, q.at, at)
        w == Window(rows, Span)
    IN  /\ rows # {} /\ NewestOf(rows) = q /\ at - q.at \in 0..StaleAfter
        /\ Continuous(w, Span)
        /\ WindowQuality(w).price

-----------------------------------------------------------------------------
(* Steps.                                                                  *)

Sample(c, content, delay) ==
    /\ Cardinality(Made) < MaxSamples
    /\ streams[c] # <<>> => Last(streams[c]).at < tick /\ Last(streams[c]).recorded <= tick + delay
    /\ LET q == [by |-> c, at |-> tick, recorded |-> tick + delay, flaw |-> content.flaw,
                 price |-> content.price, volume |-> content.volume]
       IN /\ streams' = [streams EXCEPT ![c] = Append(@, q)]
          /\ cache' \in {cache, q}
    /\ UNCHANGED <<uploaded, analysed, market, signals, rulesVersion, tick>>

Upload(c) ==
    /\ uploaded[c] < Len(streams[c])
    /\ streams[c][uploaded[c] + 1].recorded <= tick
    /\ uploaded' = [uploaded EXCEPT ![c] = @ + 1]
    /\ UNCHANGED <<streams, analysed, market, cache, signals, rulesVersion, tick>>

\* Signals are stored under an id of version, observation and kind.
SaveSignals(emitted) ==
    signals' = {s \in signals : \A e \in emitted :
                   <<e.version, e.metrics.of, e.kind>> # <<s.version, s.metrics.of, s.kind>>}
               \union emitted

\* reconcile: an older observation leaves the row as it is.
ReconcileRow(q, metrics) ==
    market' = IF market = NoQuote THEN [first |-> q.at, latest |-> q, metrics |-> metrics]
              ELSE IF q.at < market.latest.at
              THEN [market EXCEPT !.first = IF q.at < @ THEN q.at ELSE @]
              ELSE [market EXCEPT !.latest = q, !.metrics = metrics]

\* process_batch, of one row; if it fails, the signals may have been stored.
Ingest(c) ==
    /\ analysed[c] < uploaded[c]
    /\ LET q == streams[c][analysed[c] + 1]
           rows == History(q.at - HistorySpan, q.at, q.recorded)
       IN /\ SaveSignals(Emitted(rulesVersion, rows))
          /\ \/ /\ ReconcileRow(q, Analyze(rulesVersion, rows))
                /\ analysed' = [analysed EXCEPT ![c] = @ + 1]
             \/ UNCHANGED <<market, analysed>> /\ signals' # signals
    /\ UNCHANGED <<streams, uploaded, cache, rulesVersion, tick>>

\* New rules are deployed; the rest of the program is today's.
Deploy ==
    /\ rulesVersion < 3 /\ tick \in DeployTicks
    /\ rulesVersion' = rulesVersion + 1
    /\ UNCHANGED <<streams, uploaded, analysed, market, cache, signals, tick>>

Elapse ==
    /\ tick < SignalTicks /\ tick' = tick + 1
    /\ UNCHANGED <<streams, uploaded, analysed, market, cache, signals, rulesVersion>>

SignalsInit ==
    /\ streams = [c \in Collector |-> <<>>] /\ uploaded = [c \in Collector |-> 0]
    /\ analysed = uploaded /\ market = NoQuote /\ cache = NoQuote /\ signals = {}
    /\ rulesVersion = 1 /\ tick = 1

SignalsNext ==
    \/ \E c \in Collector :
         \/ \E content \in Content[c][tick], delay \in Delay[c] : Sample(c, content, delay)
         \/ Upload(c) \/ Ingest(c)
    \/ Deploy \/ Elapse

SignalsSpec == SignalsInit /\ [][SignalsNext]_signalVars

-----------------------------------------------------------------------------
(* What readers see.                                                       *)

\* market_detail: a live observation replaces the stored one, not its metrics,
\* unless Redis has lost it.
Shown ==
    {market.latest} \union
        IF cache # NoQuote /\ market.latest.at <= cache.at /\ cache.at <= tick
        THEN {cache} ELSE {}

\* Mutant: the view at a cutoff takes rows recorded after it.
DetailAtUnfiltered(at) ==
    LET rows == History(1, at, SignalTicks + 1)
        last == NewestOf(rows)
    IN  IF rows = {} \/ at < market.first THEN NoQuote
        ELSE Analyze(rulesVersion, History(last.at - HistorySpan, at, SignalTicks + 1))

\* market_detail and build_context at a cutoff: the newest row known then, and
\* its window.
DetailAt(at) ==
    LET rows == History(market.first, at, at)
        last == NewestOf(rows)
    IN  IF rows = {} \/ at < market.first THEN NoQuote
        ELSE Analyze(rulesVersion, History(last.at - HistorySpan, at, at))

\* A run of sound quotes that ends with q, reaches back over the window and has
\* no gap, stated without the analysis; none of its collector inside the window is
\* left out.
SoundRun(q) ==
    \E run \in SUBSET {p \in Made : p.at <= q.at} :
        /\ q \in run /\ Cardinality(run) >= MinimumSamples
        /\ \A p \in run : Unflawed(p) /\ Quoted(p)
        /\ \A p \in run : p.at > q.at - Span =>
              \E previous \in run : (p.at - previous.at) \in 1..MaxGap
        /\ \A p \in Made : p.by = q.by /\ q.at - Span < p.at /\ p.at <= q.at => p \in run

\* A price that a page, a list or an alert takes as usable rests on a sound and
\* unbroken run of quotes up to a recent one: although the page may show a newer
\* quote of the cache than the window was computed for, rows arrive late and out
\* of order, ingestion fails between its writes, and rules are upgraded between
\* the analysis and the reading.
UsableIsJustified ==
    /\ market # NoQuote =>
         \A q \in Shown :
            PriceUsable(q, market.metrics, tick) => SoundRun(q) /\ tick - q.at <= StaleAfter
    /\ \A q \in Stored : AlertEligible(q, tick) => SoundRun(q)

\* A stored signal is reproduced by the rules and the inputs it names, whatever
\* was deployed or observed since, and after ingestion that failed and ran again.
SignalsAreReproduced == \A s \in signals : s \in Replay(s)

\* Once the rows recorded by a cutoff have been ingested, the research view at
\* that cutoff is settled: it is the analysis of exactly the rows recorded by
\* then, which no later upload, observation or ingestion can change, however
\* early it was received.
KnownBy(at) == {q \in Made : q.recorded <= at}
Settled(at) ==
    KnownBy(at) # {} /\ \A c \in Collector : \A i \in DOMAIN streams[c] :
        streams[c][i].recorded <= at => i <= analysed[c]

PastViewIsFinal ==
    \A at \in 1..(tick - 1) : Settled(at) =>
        LET last == NewestOf(KnownBy(at))
        IN  DetailAt(at) =
              Analyze(rulesVersion, {q \in KnownBy(at) : last.at - q.at <= HistorySpan})

\* What was stored or settled in the past can be computed again from what it names.
PastIsReproduced == SignalsAreReproduced /\ PastViewIsFinal
=============================================================================
