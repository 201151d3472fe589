# Quanthecy in TLA+

Quanthecy is a research platform for prediction markets: a Rust collector takes
snapshots of markets, a Django backend turns them into metadata, metrics and
alerts, language-model agents write research reports under a strict budget, and
a paper-trading account tests strategies without money. This directory holds
TLA+ models of the parts whose correctness depends on the order in which
processes act, on failures and on time, TLC configurations that check them on
small instances, and TLAPS proofs of what must hold for every instance.

Paths are relative to `src/`. **B** is `apps/backend/quanthecy`, **P** is
`python/quanthecy_analytics`, **R** is `services/market-data/src`.

Contents: [1 inventory](#1-inventory) · [2 modules](#2-modules-and-what-they-model) ·
[3 runs](#3-runs-and-bounds) · [4 fairness](#4-fairness) · [5 proofs](#5-proofs) ·
[6 findings](#6-findings) · [7 limits of the models](#7-limits-of-the-models) ·
[8 not modelled](#8-not-modelled-and-why) · [9 how to run](#9-how-to-run)

## 1 Inventory

Four kinds of process share PostgreSQL, ClickHouse and Redis: the web process
(API and admin console), the workers started by `runworker`, `runagentworker`,
`runpaperworker`, `runnewsworker` and `runmaintenanceworker` (any number of each), and the Rust
collector (one per journal directory, kept so by a file lock). They communicate
only through rows, batches and keys: there are no calls between processes
except HTTP to ClickHouse, to the exchanges and to the model provider.

| Component | State | Operations | What is hard | What makes it correct |
|---|---|---|---|---|
| Agent run queue and worker (B/agents) | `AgentRun` rows with lease and token, `ModelConfiguration` with a revision, the organization row as a lock | enqueue, cancel, save settings, sweep, claim, stages, publish, fail | leases that lapse under a live worker, a sweep without a lock, cancellation and settings racing with publication, kills, a provider that answers after the end | one open run per organization; an ended run stays ended; no request beyond the reservation and the daily limit; a result only under current settings and permissions; usage is recorded |
| Paper entry reviews (B/paper/reviews.py, strategy.py) | `Opportunity`, its `AgentRun`, the lanes of an experiment | open a candidate, schedule a review, gate, apply, pause, resume, replace | READ COMMITTED reads inside one transaction, scheduling outside any transaction, several paper workers, a shared queue slot | one reservation and one entry per candidate; entries were approved; a pause is quiet; every candidate closes |
| Paper trading ledger (B/paper/accounting.py, worker.py, strategy.py) | account, positions, orders, ledger | settle, execute, decide, pause | quotes and clocks read before the lock, partial fills, rollback after an error | books balance; limits hold; no look-ahead; a payout is final; orders end |
| Paper experiments (B/paper/services.py, worker.py) | `Experiment` rows of each organization, the shared execution universe in Redis | create, upgrade, start, pause, publish the universe | the capacity of the one order-book collector is shared by all organizations, and is checked before it is used | the universe fits; only an organization's latest experiment trades |
| Order matching (P/paper.py) | none (pure) | `match_order`, `fee`, `money` | rounding of fees, prices and quantities at edges | within budget, limit and displayed depth; best price first |
| Market-data collector (R/spool.rs, collector.rs) | journal in memory and on disk, cursor of the directory scan, adopted selection | stage, deliver, acknowledge, stop, adopt selection, scan | crash or failed save between two writes, lost replies, replay | a batch number stands for one set of observations; nothing staged is lost |
| Ingestion (B/markets/ingestion.py, catalog.py) | checkpoint per collector, Market/Event/Outcome rows | next batch, reconcile, catalog page | reads interleave with the collector's writes; rollback after a failure | batches in order, complete, once |
| Raw payload deletion (B/operations/raw_data.py, P/storage/raw.py) | job with lease and attempts, ClickHouse mutations | preview, request, claim, submit, poll, finish | lapsed leases, lost submissions, replay of a batch after its payload was cleared | success means cleared; cleared stays cleared; bounded, counted submissions; the job ends |
| Execution quotes (R/execution.rs) | journal of order-book snapshots, a cache of market metadata | read the universe, snapshot, save, deliver | a cycle that ends anywhere, a restart, metadata that is a minute old, answers that are slow while the market closes | a saved quote is delivered; a status was so shortly before |
| Market directory (R/catalog.rs, B/markets/catalog.py) | scan cursor and pending page per collector, Market rows | scan a page, deliver, reconcile | failed saves and stops between two writes; pages of several collectors in any order | a complete scan missed nothing; the directory does not depend on the order |
| Collection plan (B/markets/selection.py, R/selection.rs) | plan revision, published manifest, acknowledged revision, adopted selection | edit, import, configure, publish, adopt, acknowledge | stale or late manifests, late acknowledgements, failed saves | the collector never goes back to an older plan; "applied" and "paused" are true; the plan is applied |
| Watchlists and alerts (B/alerts, B/watchlists) | lists, items, rules with revisions, cursors, alert events | add, remove, edit, enable, archive, evaluate | edits while observations are evaluated, re-evaluation after a rollback, batches of several collectors | an alert per crossing, revision and cooldown, under the rule as it stands |
| News and documents (B/research/news.py, documents.py) | sources and items with poll leases, revisions | poll, persist, reconfigure | late answers of lapsed polls, 304 answers, links that change | an answer is stored by the poll that owns the lease; a document matches its link; all of it arrives |
| Event evidence (B/research/events.py, discovery.py) | append-only definitions, revisions, links, candidates, reviews | append, sync candidates, review, initialize | rows stamped before they commit; versions that supersede each other while a review is written | a past moment can be shown again; a review is of the newest versions |
| Associations and pair reviews (B/research/news.py, admin.py, reviews.py) | evidence links, reviews of market pairs | associate, submit, review, import | workers and operators on one market; rules that change | an automatic link comes first or not at all; a review names the rules in force |
| Comparisons over time (P/comparisons.py, event_chart.py) | none | align two histories and the reviews on an axis | late and out-of-order rows | nothing later than a point is used for it |
| Signals and data quality (P/signals.py, quality.py, alert_metrics.py) | metrics and signals of a market, the live cache | analyse a window, ingest, read at a cutoff | late rows of two collectors, failed ingestion, new rules | what is called usable rests on an unbroken run; the past can be recomputed |
| Research context and reports (B/agents/context.py, P/intelligence.py, report_validation.py) | the packet of a run | select, freeze, cut, judge, group lists | budgets that leave evidence out | operators' reviews decide; an estimate rests on reviewed official text |
| Organizations (B/organizations, B/accounts) | memberships, accounts | register, create, change role, remove, deactivate | two owners removing each other, an account disabled meanwhile | an active owner always remains |
| Assistants (B/agents/assistants.py) | drafts with revisions, immutable versions | create, save, publish, trial, default | concurrent editing | a version is the draft its publisher saw |
| Assistant graphs (P/assistant.py, B/agents/assistant_runtime.py) | a graph, the answers of its nodes | compile, run level by level | every graph a member may draw; budgets per node | accepted graphs are well routed; nodes follow their parents |
| Model provider adapter, HTTP API, admin console, web client | none of their own | – | – | not modelled (section 8) |

`PROJECT.json` lists the hazards of this code at their lines, with the property
that would catch each; those without one say why.

## 2 Modules and what they model

### Agent runs

- **AgentRuns** – `B/agents/services.py`, `worker.py`, `assistant_runtime.py`,
  the parts of `configuration.py`, `organizations/services.py` and
  `accounts/administration.py` that bear on runs. One action is one statement or
  one transaction: `Enqueue`, `CancelRun`, `ReadRuns` (which sweeps expired
  runs), `SaveConfiguration`, `ChangeRole`, `Deactivate`, `Activate`; for a
  worker `Claim`, `Open`, `Context`, `Round`, `Reserve`, `Send`, `Answer`,
  `SaveUsage`, `Recheck`, `Accept`, `Publish`/`Commit`, `Fail`, `NodeFail`,
  `Stop`, `Kill`. `run` are the `AgentRun` rows, `worker` the local variables of
  `process_one`, `provider` what the model provider saw. The publication is
  split where the code reads the configuration under the organization lock and
  writes later, since the sweep takes no lock.
- **RunSlots** – the abstract promise: a slot per organization, filled by a
  request that was never used and emptied once. `ImplementsRunSlots` maps rows
  to slots.
- **AgentRunsProofs** – theorems (section 5). **Sums** holds what they and those of
  `PaperTrading` need of sums over a set.

### Paper trading

- **PaperReviews** – candidates and their reviews for one experiment. `Read` and
  `Decide` are two steps because the transaction reads runs statement by
  statement; the publication of a review is an UPDATE (which sets
  `finished_at`) and a COMMIT (which makes it visible); scheduling is outside
  any transaction. **PaperReviewsProofs** holds its theorems.
- **PaperExperiments** – the experiments of all organizations: `BeginCreate`,
  `BeginUpgrade`, `BeginStart` check under the lock of the plan row and leave a
  `request`; `CommitRequest` writes it. `Pause`, and the worker's `Order`,
  `Execute`, `Settle`, `PublishUniverse`, come between. `blocked` is the
  exception that stops `run_once` for everybody when the universe is too large.
- **PaperTrading** – the ledger of one account in one event: `Fetch` quotes,
  `ReadClock`, `Begin` (lock), `Settle`, `Execute` per pending order, `Decide`
  per market, `Commit` or `Rollback`; `SetRunning`, the recorded quotes and the
  clock are the environment. `saved` is what a rollback restores, and the
  properties look at committed rows (`Committed`). **PaperTradingProofs** holds its
  theorems.
- **MatchOrder** – the loop of `match_order`, an action per iteration, in exact
  integer arithmetic with the scale as a parameter; the levels are sorted best
  price first, as `ExecutionQuote` sorts them (`BestFirst`). In `PaperTrading` a fill
  is any quantity and cost within the bounds that MatchOrder shows. **MarketProofs**
  holds its theorems and those of Alignment, MarketSignals, AssistantGraphs,
  ResearchContext and NarrativeLists.

  `BestPriceFirst` is about purchases only if the asks are `Spaced`: at least a cent
  apart on Kalshi, three times the place fees are rounded to on Polymarket, and rates
  of a half at most. Without that the loop may buy at the higher price while the lower
  one has shares, and rightly so: on Kalshi at rate 0.07 with 10 bps slippage a share
  displayed at 0.826 costs 0.826826 and a fee of 0.02, one at 0.827 costs 0.827827 and
  a fee of 0.01, so a budget of 0.84 passes over the first level. The books of the run
  are `Spaced`.

### Market data

- **CollectorJournal** – `Stage`, `Insert`, `Mark`, `Acknowledge`, `Crash`. A
  step ends at each await on ClickHouse and each save. `journal` is memory,
  `disk` the file; `Save` may fail and leave either journal, in the calls
  `SaveMayFail` names. An insert that fails may have stored any part; a marker
  that fails may have been stored.
- **Ingestion** – `process_batch`: `NextBatch`, `ReadBatch`, `Reconcile`,
  `RollBack`. The lock of the checkpoint row makes it one reader.
- **RawDeletion** – `Enqueue`, `Claim`, `MutationStatus`, `Summary`, `Count`,
  `Submit`, `Finish` of several maintenance workers, `Lapse`, `Interrupt`,
  `Revoke`, and `Execute`, ClickHouse working off a mutation. The lease token is
  the worker that claimed last: a worker holds one claim at a time.
- **MarketData** – the composition, over the shared tables `rows` and `markers`.
- **BatchLog** – the abstract promise: a log of batches, published in order,
  never changed, delivered once and in order. `ImplementsBatchLog` maps markers
  and rows to the log and the checkpoint to the reader's position.
- **MarketDataProofs** – theorems about the composition (section 5).
- **Catalog** – the scan of the market directories. `Scan` is a whole cycle of
  a collector that succeeds, `ScanFails` one that fails or stops at any place
  (the page may have reached ClickHouse, the save may not have happened),
  `Reconcile` the worker's merge of the next page. `journals` are the collector's
  files, `pages` what ClickHouse holds, `directory` the Market rows.
- **CollectionPlan** – the plan and the collector that follows it. Every edit
  (`SaveTopic`, `SaveTarget`, `ImportTopic`, `ConfigureCollection`,
  `ConfigureCoverage`, `SelectCatalog`) and `Publish` holds the plan row's lock:
  one step each. `published` and `ack` are Redis keys, `late` the calls that
  timed out and may still be carried out (`LateWrite`), `adopted` and `disk` the
  collector's selection in memory and in its journal, `cycle` the exchange it is
  asking. `StartPlatform` and `NextMarket` refresh the selection first, as
  the code does. The three schema versions of a manifest are kept, since the
  collector's limits depend on them. **CollectionProofs** holds its theorems and
  those of Sources.
- **ExecutionQuotes** – a cycle of R/execution.rs over the markets of the
  universe, through the 60 s cache of metadata. A snapshot has a step between any two
  of its awaits: `BeginSnapshot` looks at the age of the cache and asks,
  `MarketAnswers` is the first answer, `HoldMetadata` the payout or the fees, with
  the time the metadata is stamped, `Snapshot` the order book, with the time the
  quote is received. `asked` is what it waits for. Between them `SecondPasses` and
  `Advance` move the clock and a market (active, closed, final). `Start`, `Skip`,
  `Deliver`, `Finish`, `Interrupt` (a failure, or the timeout of 75 s after `began`)
  and `Restart` are the rest of the loop.
- **MarketSignals** – two collectors sample one market, rows arrive late
  (`Sample`, `Upload`), `Ingest` analyses the window and stores metrics and signals,
  `Deploy` upgrades the rules, `Elapse` is time. `WindowQuality`, `PriceUsable` and
  `AlertEligible` are the code's rules on operators; `SoundRun` says what they are
  for without them.

### Research

- **Sources** – news polls and documents. `PollSource` and `PollDocument` take a
  lease, the publisher answers (`NewsStep`), the answer is stored if the lease is
  still the row's. `ConfigureSource`, `LeaseLapses`, `StopNewsWorker`,
  `PublishFeed` and `PublishPage` come between. `items` holds the revisions and
  their documents, `etag` the version of the feed that may be answered by 304. An entry
  may be undated: it is stored, the poll is partial, and its document is not due
  while it is the latest revision (`Awaits`).
- **EventEvidence** – one event. A handler is two steps: one that takes its
  locks, validates and stamps its rows (`AppendDefinition`, `PersistRevision`,
  `AppendEvidenceReview`, `InitializeEvent`), and `Commit` or `Rollback`. The news
  worker's `SyncReads` and `SyncCreates` follow `sync_candidates`.
- **Associations** – links of evidence to markets and reviews of a pair. As
  above, with the locks on market and pair rows; `SubmitLink` builds the
  operator's row, `LockLink` takes the lock, as the admin form does.
- **Alignment** – `aligned_history` and `align_contract`: a cursor per market,
  `TakeReview` and `TakeRow` advance them, `Point` compares, `Draw` charts.
- **ResearchContext** – `Select` takes the evidence of a context by review and
  link, `Freeze` and `Scoped` cut it to its budgets, `Judge` is
  `validate_stage`. The packet is a set: `validate_stage` asks only what it holds.
- **NarrativeLists** – the loop of `group_narrative_lists`: `Place` a text in the
  current group, or `Split`. A list of more than `MostTexts` (64) is left alone, as in
  the code.

### Organizations, watchlists and assistants

- **Organizations** – `Register`, `CreateOrganization`, `ChangeMemberRole`,
  `RemoveMember` hold the organization's row; disabling an account takes the
  account and then each organization (`BeginDisabling`, `LockOrganization`,
  `CheckOwners`, `Disable`). `Authenticate` and `Refuse` bracket a request: its
  account was read before it waited for a lock.
- **Assistants** – editors load a page (`Load`) and act on the revision it showed
  (`SaveDraft`, `Publish`, `Trial`), plus `Create` and `DefaultVersion`.
- **AssistantGraphs** – `Level` is the loop of `compile_graph`, `BeginNode`,
  `Answer`, `NodeFails` the execution of an accepted graph. The definition of
  "well routed" uses paths, not the loop.
- **Ordering** – `Sorted` and `Filtered`, Python's `sorted` and filtering comprehensions
  as this module and ResearchContext use them, in a form that a proof can expand.
- **Alerts** – `ListRequest` (create, archive, add and remove items, create,
  edit and enable rules), `Observe`, and `AlertWorker`: the worker reads the
  candidate rules without a lock (`NextRow`), locks one list after another,
  evaluates, commits or rolls back.

### Instances

- **MCWorkspace** and **MCCollection** check several components that share no
  variable in one TLC run each. `part` is chosen initially; a behaviour takes the
  steps of that component and leaves the others' variables as they begin, so the
  states are the sum of the parts', not the product. The inputs of pure
  algorithms (graphs, lists, histories, order books) are initial states. Each
  module's own `Spec` and properties are used; nothing in them refers to `part`.
- **WorkspaceProofs** – the theorems about Organizations, PaperExperiments,
  ExecutionQuotes, Associations, Assistants, Catalog, EventEvidence and Alerts, a section
  each: these modules share no name, so that one module of proofs can extend them all.
- The names that end a module's properties section, such as `AlertsAreSound`, are
  conjunctions of the properties above them, which are commented one by one.

## 3 Runs and bounds

| Run | Instance | What it asks |
|---|---|---|
| `agent_workers` (AgentRunsWorkers) | one organization, 2 requests, 2 workers, research and team runs, limits 3 and 4, two revisions | `RunsAreSound` (types, one open run, settings in force, at most one late request, attempts before requests), ended runs final, refinement of RunSlots, usage and admission within the limit |
| `agent_tenancy` (AgentRunsTenancy) | 2 users, 1 request, 1 worker, team, test and assistant runs, a midnight, a stop or kill, fairness | requests within the reservation across kills, publication only while permitted, the slot is freed |
| `agent_assistant_usage` (violation) | 1 assistant run | usage of a node whose lease lapsed (section 6) |
| `paper_workers` | two settings: 2 candidates with a shared signal (v2), limit 1, one worker busy at a time and reviews that wait; or 2 paper workers, limit 2, 1 candidate until another could be opened and reviews that allow or wait | candidates never overlap, one reservation each, reviews within the limit, a pause is quiet |
| `paper_liveness` | 1 worker, a change of the settings, a foreign request, fairness | entries were approved, one queue slot, outcomes final, candidates close |
| `paper_applied_once` (violation) | 1 worker, 1 candidate | a review applied twice (section 6) |
| `trading_ledger` | 1 market, 2 paper workers, 2 shares, capital 3, payouts 0 and 1, clock to 3 | books balance, no look-ahead, orders end once, a payout is final |
| `trading_event` | 2 markets of an event, capital 3, shares 2 and 3, fairness | event limit, orders end |
| `market_data` | 2 markets, 2 batches, a failed call, a stop of the collector, 2 maintenance workers, a lapsed lease, 2 attempts, fairness | refinement of BatchLog, staged batches arrive, success means cleared, cleared stays cleared, submissions counted, the job ends |
| `market_data_save` (violation) | the same with a stage whose save may fail | a batch number used twice (section 6) |
| `collection` (MCCollection) | plan: 2 topics, 2 markets of an exchange, 2 edits, a failure, limits 1 and 2; sources: 2 workers, a source with a document, 3 versions of the feed (one truncated, one with an undated entry) and 2 of its pages, a failure; fairness | the plan that is published, adopted and shown is one; an older plan never returns; it is applied; what is stored of a source stands together, and dated entries and their documents arrive |
| `workspace` (MCWorkspace) | fourteen parts, below | the safety of each |

The parts of `workspace`: *catalog*: 2 collectors, 2 exchanges, one of two pages,
a failure. *alerts*: a list, a rule, a market, 2 collectors, 3 observations in
batches of up to 2, 5 observations and requests in all, a rollback counting as two.
*events*: 2 sessions, an item, a contract, 2 versions of everything, 3 hours.
*associations*: 2 writers, 2 markets, 3 rows, 2 versions of rules, 2 hours.
*organizations*: 2 users, 2 organizations, one of them shared from the start.
*assistants*: 2 editors, 2 assistants, 3 graphs of which one does not compile.
*graphs*: five sets of nodes with every set of up to four connections.
*context*: 3 items of every kind of link and review, room for 2. *lists*: every
list of two to six texts of three lengths, one with a text too long and one too long. *signals*: 2 collectors, 5 ticks, an
upgrade. *alignment*: every history of up to two rows of ten and more kinds.
*experiments*: 2 organizations, 2 markets, capacity 1, 2 experiments each.
*quotes*: 1 market, 2 quotes, a clock of 2 with lives of 1 for the cache and a cycle. *match*: every book of up to two levels
over 4 prices and 3 sizes, both fee models, budgets at the edge of a fee step.

Why the bounds are enough for the cases that matter:

- Conflicts on a run, a candidate, a lease, a list, an organization or an event
  are between the holder and one other actor. Two workers (or a worker and the
  web process) give every such pair; a third adds no new pair. The safety
  results on runs, candidates, the ledger, the pipeline and its deletions, the plan,
  owners, experiments, execution quotes, the directory, events, associations,
  assistants and alerts do not depend on this: they are proved for all sizes (section 5),
  and so are the results on graphs, contexts, lists of texts and fills, whose inputs the
  run bounds. For them a run says that the invariant is not vacuous, and it is what its mutants
  are tried on.
- Two reserved calls (`Calls` is 2 for multi-stage runs in the runs) have a
  first, a next and a last stage; team runs reserve five in the code.
- One failed call, one stop and one lapsed lease can fall at each point of the
  pipeline, and a second batch makes the first one eligible for deletion while
  the second may still be replayed.
- `MaxTime` covers the life of an order (2) and the cooldown (2). The order of
  the durations is that of the code: latency 2 s, quote life 90 s, order life
  120 s, cooldown 15 min; an order placed at 0 expires within the bound.
- In `match` a unit is half a cent: Kalshi prices are whole cents, as its feed
  quotes them, Polymarket prices any unit; the prices include both ends of the
  range, where slippage leaves it.
- Two versions of a rule, a definition, a page or a plan make one of them stale;
  three observations and a cooldown of two ticks give a crossing, a repetition
  within the cooldown and one after it.
- A capacity of 1 with two organizations makes the second request the one that
  must be refused; `Small`, `MaxRevision`, `MaxRequests` and the other `Max...`
  constants bound counters that the code does not bound.

In `paper_workers` the constraint `Small` leaves manual research, rejections and the
replacement of the experiment to `paper_liveness`; there manual research begins
before the settings change, which ends it. Symmetry is used in safety runs
only; in `workspace` it is one permutation that exchanges the two actors of every
part at once. Deadlock is checked except in `workspace`, whose algorithms end and
whose bounded histories run out.

## 4 Fairness

- *Agent workers* loop every few seconds: weak fairness of claiming and of each
  worker step. Nothing is assumed of the provider except that a request ends:
  the HTTP client has a timeout. Deadlines pass: weak fairness of `Lapse`.
- *Paper worker*: weak fairness of its loop and of time, and of the commit of a
  publication, which holds the candidate's row; strong fairness of marking a
  candidate, because the marking transaction may find the row locked each time
  it is tried, but not for ever. Nothing else is assumed of the agent worker, and
  nothing of signals: candidates close by age.
- *Ledger*: weak fairness of fetching, reading the clock, locking, and of time;
  strong fairness of the steps inside the transaction: transactions may fail
  again and again, but not every one.
- *Pipeline*: weak fairness of delivery, ingestion, each maintenance worker, the
  passing of leases and ClickHouse mutations. Failures and stops are finitely
  many in the model; in the code that is the assumption that ClickHouse is
  available again for long enough. Collecting new snapshots is not fair.
- *Plan*: weak fairness of publication (every ten seconds) and of the collector's
  next step. Edits and failures are finitely many: `PlanSettles` says that once
  operators stop editing, the plan is applied and is shown so.
- *Sources*: weak fairness of a worker's step, of due times and of lapses; strong
  fairness of choosing a due source or document, because the queries order by due
  time, so that none is passed over for ever. In MCCollection each condition is
  restricted to the behaviours of its part (`PlanIs`, `SourcesAre`): a part at
  rest owes no step.

## 5 Proofs

tlapm checks every leaf. All are for arbitrary constants under the named
assumptions of the modules: sentinels are not members of the sets they extend,
bounds are naturals, what the code counts or sums is finite, single-stage kinds
reserve one call, the history that is read reaches back over the window of a signal (20
minutes and 15), a threshold is positive, points of a comparison ascend in time, the
nodes of a graph are finitely many numbers, lengths of texts are naturals. Some
have a hypothesis of their own, which the table names.

| Theorem | Says |
|---|---|
| `AgentRunsProofs!TypeCorrect` | `TypeOK` is invariant |
| `AgentRunsProofs!RunsStayEnded` | no action changes the outcome of an ended run |
| `AgentRunsProofs!SlotExclusive` | an organization has one open run at most |
| `AgentRunsProofs!SettingsCurrent` | an open run was admitted under the settings in force |
| `AgentRunsProofs!ReservationKept` | the provider sees no more requests than were reserved |
| `AgentRunsProofs!OneLateRequest` | at most one request reaches the provider after the end |
| `AgentRunsProofs!AttemptsFirst` | a team run records an attempt before it makes it |
| `AgentRunsProofs!RunsStaySound` | `RunsAreSound`, the conjunction of the five invariants of runs |
| `AgentRunsProofs!PublicationGuarded` | a result appears only for a current lease, configuration and role |
| `AgentRunsProofs!QueueImplementsSlots` | AgentRuns implements RunSlots |
| `AgentRunsProofs!DailyLimitKept` | an admission keeps the reserved calls of the day within the limit in force |
| `AgentRunsProofs!UsageAccounted` | returned usage is recorded and reservations keep the limit, without assistants and if no process dies between an answer and its write |
| `PaperReviewsProofs!CandidatesStaySound` | a lane has one open candidate, a candidate one request, the day its limit, and a pause is quiet |
| `PaperReviewsProofs!ReviewsStaySound` | an entry follows a published approval; reviews share the one slot of the organization |
| `PaperReviewsProofs!OutcomesStay` | with one paper worker, the outcome of a candidate is final |
| `PaperTradingProofs!BooksStaySound` | the books balance, and no order is filled by a quote its decision saw |
| `PaperTradingProofs!LimitStays` | positions and what pending orders may spend stay within the share of the event |
| `PaperTradingProofs!EndsStay` | an ended order stays ended, and a market that was paid out stays closed |
| `MarketProofs!TypeCorrect` | quantities and budget stay natural numbers, whatever is rounded |
| `MarketProofs!FillsStayWithinBook` | fills respect depth, order of levels and the price limit |
| `MarketProofs!BudgetHolds` | a purchase costs what its budget lost, never more than the budget |
| `MarketProofs!SalesUseUpTheBook` | a sale leaves shares only when every level within its limit is used up |
| `MarketProofs!FillsStaySound` | `FillsAreSound`: these three, and the best price is used up first |
| `MarketDataProofs!DeletionsStayTrue` | a deletion that reports success has cleared its rows; every submission was counted first |
| `MarketDataProofs!NumbersStayUnique` | a batch number stands for one snapshot, if the save that stages it does not fail |
| `MarketDataProofs!ClearedStay` | no replay restores a payload that was cleared, under the same hypothesis |
| `MarketDataProofs!PipelineImplementsLog` | journal, tables and reader implement BatchLog, under the same hypothesis |
| `CollectionProofs!PlanStaysTrue` | what is published is adoptable, and the plan is shown as applied or paused only if it is |
| `CollectionProofs!AdoptionStaysForward` | a collector never returns to an older plan |
| `CollectionProofs!SourcesStayOK` | stored documents stand with their links, validators with stored bodies, and no late answer follows a newer one |
| `WorkspaceProofs!OwnerRemains` | an organization always has an active owner |
| `WorkspaceProofs!ExperimentsStayOK` | the markets of all experiments fit the collector; only the latest experiment of an organization trades |
| `WorkspaceProofs!QuotesStayOK` | a quote whose save succeeded is on disk or delivered; it is received within the lives of cache and cycle after its metadata; its status was so at most a cycle before that |
| `WorkspaceProofs!AssociationsStayOrdered` | automatic links come first or not at all; reviews of a pair are of the rules in force |
| `WorkspaceProofs!VersionsStaySound` | a version or trial is of the draft its member was shown |
| `WorkspaceProofs!CatalogStaysOK` | the directory is what the pages say and a complete scan missed nothing, if a staged page is always saved |
| `WorkspaceProofs!EventsStaySound` | numbers and keys are unique, the past does not change, reviews are of the newest versions |
| `WorkspaceProofs!AlertsStaySound` | one alert per crossing, raised under the rule as it stands, and what members are shown agrees |
| `MarketProofs!AlignmentStaysTrue` | comparisons and charts show what was knowable at their time |
| `MarketProofs!PastStaysReproduced` | signals and settled views can be computed again from what was recorded |
| `MarketProofs!UsableStaysJustified` | a usable price ends a sound and unbroken run of quotes |
| `MarketProofs!GraphsAreSound` | exactly the well-routed graphs are accepted, and runs follow them |
| `MarketProofs!ContextIsSound` | contexts hold what operators decided, and estimates rest on text they marked |
| `MarketProofs!ListsAreGrouped` | grouping loses nothing, fits, and gives up only when no grouping fits |

The arguments:

- *Rows.* `Moves` states what any step may do to a row: ended rows keep their
  state, and a row becomes active only from `NONE`. Each action is shown to move
  rows so (`RowsMove`). `RunsStayEnded` is immediate; `SlotExclusive` adds that
  admission requires the slot to be free after its sweep, and `SettingsCurrent`
  that saving settings cancels what is queued and running.
- *Calls.* `RequestsWithinReservation` is not inductive: a worker between two
  calls must be known not to have sent more than it counted, and a run must be
  claimed once. `CallsInv` conjoins `Progress` (what a worker's program point
  says of its counters), `Counted` (requests against the counters of the worker
  that holds the run) and `History` (a run that nobody holds was never claimed,
  or is over for good: no automatic replay). The three theorems are its
  consequences.
- *Publication.* `PublicationInv` says that a worker at the commit holds the
  organization lock and that what it checked still holds; `LockProtects` shows
  that settings and roles cannot change meanwhile. The lease may lapse and the
  sweep end the run, which the guard of the UPDATE catches.
- *Refinement.* Every step ends a set of open runs, admits one run after a
  sweep, publishes one, or leaves the slots alone (`EndStep`, `AdmitStep`,
  `PublishStep`).
- *Daily limit.* The keys may be infinitely many, so the invariant (`FiniteRuns`) says
  that the rows in use are not: then the reserved calls of a day are a finite sum. A
  step that only moves rows makes it no larger (`DayShrinks`); an admission adds the
  new row to what the sweep left, the sum its check was about (`DayGrows`).
- *Usage.* A worker has got what the provider returned, and the row says so except
  between an answer and its write (`Charged`); a run that nobody works on says what
  the provider returned (`Recorded`). The write is under the token alone, so what is
  needed of the row is that nobody has leased it again: only queued runs are leased,
  and a run that is held is not queued (`Holds`). The two hypotheses are those the
  code needs: finding 1 is the case of assistants, and a worker that dies before the
  UPDATE takes the usage of one answer with it.
- *Reviews of candidates.* Between `Read` and `Decide` a worker acts on what it has
  read. `LockHeld` says that only the holder of the experiment's row is between
  them, `Processing` what it knows of the lanes, `AgentHolds` that nobody else can
  end the run that is being published. `Ledger` relates candidates and runs whatever
  the workers do; every step either opens no candidate (`NoneOpened`) and moves runs
  forward (`RunsForward`), or is `Reserve`, or opens a candidate in an empty lane.
  Finality of outcomes needs that the candidate under review is still open
  (`FoundOpen`), which is so with one paper worker; with two, finding 2 shows how a
  review is applied twice.
- *Ledger.* `BooksOK` says of rows and account what a commit must leave: sums that
  balance, rows that agree (`RowOK`) and the limit of the event (`Within`). It holds
  of the saved rows always and of the rows in the transaction between its steps, and
  `TransactionOK` says what the transaction did so far to saved rows. That a payout
  is final rests on quotes: a worker may still hold an old one, but one older
  than the payout (`QuotesOK`) is too old for an entry when the cooldown ends,
  because a quote lives less long than the cooldown. Limits and costs are sums over
  a set, `SumFunctionOnSet`, a fold: `Sums` proves that a sum does not depend on the
  order, by induction on sets of numbers and sets of sets, which the provers can take
  as constants.
- *Matching.* `Inv` is type correctness with `FillsWithinBook` and the arguments
  of the call; the arithmetic is in lemmas on division and rounding
  (`HalfUpNat`, `CeilingNat`, `SlippedBounds`, `AffordableFits`, `TakeBounds`). Costs of
  the fills are a recursive function of the sequence; the proof keeps, for every
  function that satisfies its equation, that it gives what is missing from the
  budget. For sales: the levels are sorted and slippage keeps their order, so what
  is beyond the first level that is beyond the limit is beyond it too. For the best
  price: what a purchase leaves of a level, the budget cannot pay, not one share of it
  and not one of a later level (`TakeLeaves`), and it only gets smaller (`BestSoFar`).
  A fee drops by at most half of what the price rises (`FeeDrops`); rounding may add a
  step of its own, which is what `Spaced` makes room for (`RoundedUp`, `RoundedHalfUp`).
- *Pipeline.* `JournalOK` says that the file lags behind memory by an
  acknowledgement at most, so that what is pending after a restart is the same
  batch; `RowsOK` and `MarkersOK` that rows above the markers are of the pending batch
  and that a marker counts all rows of its batch; `ReaderOK` that what the reader
  has read still holds. All of it needs that a staged batch is on disk before it is
  sent, hence the hypothesis `"stage" \notin SaveMayFail`: finding 3 is its failure.
  The refinement: the first marker of the last batch publishes, the commit of the
  reader delivers, every other step stutters.
- *Deletion.* `ClearedOK` keeps the payloads cleared: a job reaches the batches
  below the checkpoint only, and a replay is of the last batch, which no job can
  reach. `CountsOK` bounds submissions by the attempts counted: a worker that lost
  its lease can neither count nor end the job.
- *Plan.* `CopiesAgree` follows every copy of a manifest and of an acknowledgement:
  Redis, memory, the file and the delayed writes. None is newer than the plan, and one
  of its revision is its manifest, because every edit takes the next revision.
  `MemoryIsAhead` orders file, memory and acknowledgement, so that a restart does
  not go back; `AskedIsWanted` keeps the market that is being asked for.
- *Sources.* `NewestBody` and `NewestPage` say what an answer on its way is good for
  while the lease is still its poll's: every stored revision was given by its version
  of the feed or an earlier one, and no stored document of its link is newer than the
  page. A worker that lost its lease may hold anything, and stores nothing. The
  entries of a body are filed one after another: `StagesExist` unfolds the fold,
  and `BodyExtends` follows the rows through it: a revision keeps the document of its
  link only if the one before had it. The publisher is assumed to number the texts of
  a link as it gives them (`PublisherAssumption`), one to a body: the parser drops a
  second entry of a link.
- *Directory.* The pages of a collector are a log: those in ClickHouse and the
  pending one. `FileIsKept` says that the journal's file is the journal or still has
  as pending the page that was delivered last; delivering that again stores the same
  page. Cursors, directory and the progress of scans are then statements about a
  log that only grows (`LogIsSound`, `RowsAreMerged`, `ProgressIsMerged`). As with
  batches, a staged page must be on disk before it is delivered.
- *Execution quotes.* What the exchange answered was so since the cycle began
  (`AskedIsTrue`), and a cycle is short (`CycleIsShort`), so metadata was true at most
  a cycle before its stamp (`CacheIsTrue`); metadata a snapshot goes on with was
  younger than the life of the cache when the cycle began, or is of the cycle.
  `JournalKeeps`: a quote leaves the file for the warehouse only.
- *Events, associations and assistants.* What an open transaction validated must
  hold when its rows become visible. For events the invariant looks ahead: the
  tables joined with the rows of any open transaction are sound (`RowsAreSound`), and
  its rows are covered by its locks (`Covered`); two transactions have no lock in
  common, so their rows are sound together (`JoinsAreSound`). `HistoryIsStable`
  follows from the stamps: a commit adds rows of one stamp, and what is shown at a
  time is a function of the rows before it (`ShownIsPast`). For associations
  `LinksWait` and `ReviewsWait` say what the locks of an open transaction keep; for
  assistants `PagesShowDrafts` says that a page of the saved revision shows the saved
  draft, as every save takes a new revision.
- *Alerts.* `KeySound` relates a rule, the times its market was added, its cursor, its
  alerts and the observations read: no alert since the market was added is later than
  the cursor's last, and the cursor is armed under the revision of an alert only after
  an eligible value below the threshold. It is an invariant twice: of the committed
  rows and of the rows as the open transaction will leave them, with the
  observations of its batch. A rollback returns to the first, a commit makes the
  second the first. Requests come between the steps of the worker and must keep both;
  they do because the rows the transaction wrote are of lists it has locked
  (`WorkSound`), and a request waits for those. A market that was removed loses its
  cursors, and its old alerts are not since it was added again.
- *Histories in time.* `AlignInv` says that the walk has come to rows that were
  available, that the row it keeps is the newest of them, and that the chart's rows
  were drawn in the order in which they became available (`ChartIsInOrder`). A row
  that the page does not read was received more than `MaxAge` before the axis begins,
  so it could not be compared at any point (`ReachIsEnough`): reading less changes no
  comparison. Newest and first are of total orders on finite sets (`FirstExists`).
- *Signals.* The rows of a collector come in order (`StreamsAscend`), so what is stored
  of it has no gaps (`EarlierIsKnown`). A window is a window of itself (`WindowIs`):
  hence a signal is made again from its inputs, whatever its rules' version
  (`EmittedIsReproduced`). The metrics of the market's row are of a sound run when they
  were computed (`MetricsAreJustified`), and later rows do not break it (`RunIsKept`);
  a quote of the cache is usable only if they are of that quote. For the view at a
  cutoff, `MarketBegins` says that the row begins no later than any row analysed.
- *Graphs.* `Above` is defined by paths, the loop keeps a table. The invariant says
  (`Levels`) that the nodes placed have their parents among them and that the table of
  each is what is above it, and that the last one placed is above none (`LastIsLow`).
  `AboveStep` is the loop's recurrence; when nothing is ready there is a cycle, since in
  a graph without cycles some node of every finite set has no parent in it
  (`SomeNodeIsReady`, by induction on finite sets). Then refusal and acceptance are what
  the definition says. In a run the outputs are closed under parents (`RunsOn`), and as
  every node asks for references of every kind, what a parent cites is in the packet of
  its child (`OneScope`).
- *Evidence of a run.* A sorted or filtered list is known by its members and its length
  (`SortedHasAll`, the `Filtered...` lemmas), a cut list by its beginning: direct
  evidence comes first, then reviewed evidence, so whatever is cut weighs no more than
  what stays.
- *Lists of texts.* The groups of a list are the positions where a group ends (`Ends`),
  joined they are the list, and a run of texts has one length however it is made
  (`RunRendered`). Part of a run that fits also fits (`PartsFit`), hence any cutting that
  fits has a cut within each group that the loop closed with its next text, and the loop
  uses no more groups than any other (`GreedyIsBest`). While there are fewer groups than
  wanted, the longest has two texts (`LongestHasTwo`), and its halves fit.
- *Owners.* `ActiveOwnerRemains` is not inductive: an account about to be
  disabled passed its check one step earlier. `ClearedHolds` says that what a
  disabling request has cleared (the organizations it locked keep another active
  owner) still holds, because it keeps their rows locked; `LocksAreExclusive` that
  no other request holds them. Role changes and removals need the lock, so they
  cannot falsify it.
- *Experiments.* A request that has passed its checks writes later.
  `RequestsAreSerialized` says that there is one such request at most (all take
  the plan row's lock), `RequestsFit` that its markets still fit when it commits:
  meanwhile other steps only pause, settle and trade markets that were counted.
  `ExperimentsAssumption` asks for finitely many markets.

Only model-checked, and why:

- liveness (`SlotIsFreed`, `CandidatesClose`, `OrdersEnd`, `StagedIsIngested`,
  `DeletionEnds`, `PlanSettles`, `SourcesSettle`), which is out of the prover's reach;
- `ReturnedUsageRecorded` of assistant runs, `ReviewAppliedOnce` and, without the
  hypothesis on the staging save, `NumbersAreNotReused`, which the code violates
  (section 6).

Every other property of a passing run is stated by a theorem. What no theorem covers of
them is what the models leave out (section 7).

## 6 Findings

1. **Usage of an assistant node may be lost** (`agent_assistant_usage`,
   `ReturnedUsageRecorded`). The node handler records what the provider returned
   only for a run that is still live or ended; a run that is RUNNING with a
   lapsed lease is neither, so the usage of a reply that arrives then is
   dropped. `docs/research-terminal.md:288-289` promises that returned usage is
   recorded.
2. **A review may be applied twice** (`paper_applied_once`,
   `ReviewAppliedOnce`). `decide` looks for an ended review and later loads the
   candidate again under READ COMMITTED. A review committed between the two
   reads is applied in the SIGNAL phase without being marked, and again in the
   REVIEW phase. `docs/paper-trading-v2.md:36` says repeated application is
   prevented.
3. **A batch whose save failed is delivered from memory** (`market_data_save`,
   `NumbersAreNotReused`). `Spool::stage` changes the journal before `save()`
   and does not undo it when the save fails (`apply_selection` does). The next
   cycle delivers the batch; if the collector then stops before a save succeeds,
   the restarted one uses the same batch number for another snapshot.
   `docs/market-research.md:114-115` says a pending batch keeps its increasing
   number and observations through retries. The passing run `market_data`
   therefore lets only the save of `acknowledge` fail. `Catalog` has the same
  switch (`StageMayFail`), off in `workspace` for the same reason.

Seen while modelling, and not among the runs because no text of the repository
says otherwise: `EvidenceLinkAdmin.save_model` (B/research/admin.py:229-234) locks
the market after the form has stamped the operator's row. An automatic link that
commits in between carries a later `created_at`, and the timeline then shows it
although the operator decided. `Associations` has this order in `SubmitLink` and
`LockLink`; its property `AutomaticLinkIsFirst` is about commits, which are in order.

## 7 Limits of the models

- *AgentRuns*: the ADMIN role is a MEMBER; a saved configuration names a model;
  time is one bit per run; memberships are not added; the step list, contexts and
  reports are left out; reviews are requested in PaperReviews only. Stops and
  kills occur in the tenancy run (and in all proofs); `ReturnedUsageRecorded`
  speaks of workers that are not killed. Runs have one organization; more are
  covered by the proofs.
- *PaperReviews*: one experiment; the reasons to refuse a signal are one choice;
  an exception makes the transaction a no-op; `OutcomesAreFinal` is checked with
  one paper worker.
- *PaperTrading*: money in whole units, a fill per order, one event; equity marks
  and the reasons not to trade that concern neither capital nor time are left
  out. A sale's fee may exceed its proceeds by a unit; cash below zero fails
  (a database constraint) and rolls back.
- *MatchOrder*: decimal division is exact; the code divides to 28 digits.
- *MarketData*: one collector; the Redis view (disposable by design), continuity
  flags, pacing and exchange HTTP are left out; what ingestion derives from a
  row is left out (signals have deterministic ids); the deletion window covers
  all rows and its row limit is left out; an insert that timed out is not
  executed after a later one.
- *CollectionPlan*: the status page reads the plan and the counts of targets in two
  statements; limits of 50 and 250 are 1 and 2, and the limits on topics and
  targets are left out; so are the copies of the selection that the catalog and
  execution collectors keep.
- *Catalog*: the exchange's directory stands still during a scan.
- *Sources*: a body is what the parser makes of it, whenever it is read: an entry
  that is rejected because its date lies ahead stays out until the feed changes. A
  stored date is therefore in the past, and `publication__lte=now` says that there is
  one. Documents of undated entries are never scheduled
  (docs/official-evidence.md:42-43), so `SourcesAreCollected` speaks of documents of
  dated entries only. Size limits and back-off times are left out. A text is its number among the texts of its link, so a publisher
  that returns to an earlier wording gives a new text.
- *EventEvidence*: a handler reads the definition and the revision it checks in one
  step; get_or_create is one step; every topic is public, as `definitions()`
  requires; citations and quotes are not checked; what a text
  says is one of two topics.
- *Associations*: one topic; notes and citations left out.
- *MarketSignals*: one market; batches of one row; duplicates, the cut at 1000 rows,
  the volume and spread signals and ties at the start of a window are left out. An
  upgrade changes the version of the rules, the rest of the program is today's.
- *Alignment*: the prices, their complement, BASIS_MISMATCH and
  OUTCOME_MISMATCH are left out.
- *ResearchContext*: two reviews per item, reads pinned to the cutoff (see
  EventEvidence); the cap of five events is not reached.
- *NarrativeLists*: lengths only; the type checks are left out.
- *Assistants*, *Organizations*: renaming is left out. There is no
  invitation in the code: shared organizations are initial states, as in its tests.
- *AssistantGraphs*: answers are their citations; up to four nodes; the byte limits on
  a stage's and a node's input, which can fail a node, are left out.
- *Alerts*: one value per observation, in thresholds; names of lists and read marks are
  left out.
- *PaperExperiments*: an account is whether it holds and whether an order is pending.
- *ExecutionQuotes*: prices are left out, and so is that a market that is not open
  is not asked for its book (the model may let time pass there). Timers fire when
  they are due and the system clock is not set: the timeout of a cycle then bounds
  all its awaits, retries of a request included. So a quote may carry metadata of up
  to 135 seconds before, and OPEN of a market that closed up to 75 seconds before the
  stamp; the cache alone promises less than its 60 seconds suggest.

## 8 Not modelled, and why

- *Model provider adapter* (B/agents/provider.py): HTTP and response parsing; its
  answers and failures are the nondeterminism of AgentRuns and AssistantGraphs.
- *HTTP API, admin console, views*: they translate requests into the calls modelled
  here and keep no state.
- *Web client*: presentation.
- *Exchange clients, parsers of feeds and pages, ClickHouse and Redis*: external or
  pure input and output; modelled by how they are used.
- *Settings, health checks, metrics export, migrations*: no behaviour of their own.

## 9 How to run

In this directory, with TLC and TLAPS 1.4.5 and the community modules:

```
tlc -workers 2 -config MarketDataAll.cfg MCMarketData
tlapm AgentRunsProofs.tla
```

`PROJECT.json` names the module and configuration of every run, the source lines
of every definition, and for each property a plausible bug (an operator marked
*Mutant* beside the definition it would replace) that makes TLC report it.
