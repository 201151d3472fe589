SPECIFICATION MCSpec
CONSTANTS
  \* Catalog
  Scanner = {c1, c2}
  Exchange = {poly, kalshi}
  Listing <- MCListing
  MaxPages = 2
  StageMayFail = FALSE
  MaxScans = 1
  CatalogFaults = 1
  NoPage = NoPage
  \* Alerts
  Watchlist = {l1}
  AlertRule = {r1}
  WatchedMarket = {m1}
  FirstMarkets = {m1}
  ObservedBy = {b1, b2}
  Direction = {"UP"}
  Moves = {0, 1}
  Cooldown = 2
  MaxItems = 2
  MaxRules = 2
  MaxRevisions = 2
  MaxObserved = 3
  MaxRequests = 3
  MaxRollbacks = 1
  BatchRows = 2
  AlertSteps = 5
  NoValue = NoValue
  NoWork = NoWork
  \* EventEvidence
  Item = {i1}
  OfficialItem = {}
  Contract = {k1}
  Session = {s1, s2}
  Relation = {"DIRECT"}
  Topics = {"MACRO", "OTHER"}
  MaxVersions = 2
  MaxContractRules = 2
  MaxReviews = 1
  EventHours = 3
  MaxDiscoveries = 2
  EventRow = EventRow
  NoContract = NoContract
  NoTransaction = NoTransaction
  \* Associations
  LinkedMarket = {left, right}
  Left = left
  Right = right
  TopicItem = {t1}
  Writer = {x1, x2}
  Decision = {"REJECTED"}
  Verdict = {"EQUIVALENT", "RELATED"}
  MaxRows = 3
  MaxRuleVersions = 2
  LinkHours = 2
  PairRow = PairRow
  NoWriter = NoWriter
  \* Organizations
  User = {u1, u2}
  Org = {o1, o2}
  Shared = o1
  \* Assistants
  Editor = {e1, e2}
  Assistant = {a0, a1}
  DefaultAssistant = a0
  Graph = {g0, g1, gx}
  ValidGraph = {g0, g1}
  DefaultGraph = g0
  Name = {n1, n2}
  DefaultName = n0
  MaxAssistants = 2
  MaxVersionsKept = 3
  MaxSaves = 2
  MaxTrials = 1
  NoForm = NoForm
  \* AssistantGraphs
  KindOf <- MCKindOf
  Edges <- MCEdges
  Contexts <- MCContexts
  SkillKinds <- MCSkillKinds
  Budget = 4
  NoNode = NoNode
  \* ResearchContext
  Described <- MCDescribed
  NumItems = 3
  MaxEntries = 2
  ContextLimit = 3
  PacketLimit = 2
  \* NarrativeLists
  Lists <- MCLists
  MaxTexts = 3
  MostTexts = 6
  MaxLength = 12
  Bullet = 2
  NextBullet = 3
  \* MarketSignals
  Collector = {1, 2}
  Content <- MCContent
  Delay <- MCDelay
  Span = 2
  MaxGap = 1
  MinimumSamples = 3
  StaleAfter = 1
  HistorySpan = 3
  Threshold = 1
  Tolerance = 1
  SignalTicks = 5
  DeployTicks = {4}
  MaxSamples = 4
  NoQuote = NoQuote
  \* Alignment
  Axis <- MCAxis
  Histories <- MCHistories
  ReviewLogs <- MCReviewLogs
  MaxAge = 2
  MaxSkew = 1
  ChartAge = 1
  NoRow = NoRow
  \* PaperExperiments
  Organization = {q1, q2}
  Tradable = {m2, m3}
  Capacity = 1
  MaxExperiments = 2
  NoRequest = NoRequest
  \* ExecutionQuotes
  Targeted = {y1}
  CacheLife = 1
  CycleLife = 1
  MaxQuotes = 2
  MaxSecond = 2
  \* MatchOrder
  Scale = 200
  RateBase = 100
  SlippageBase = 1000
  Cent = 2
  Tick = 1
  Depth = 3
  Inputs <- MCInputs
  Prices = {2, 99, 102, 196}
  Sizes = {2, 5, 9}
  Quantities = {1, 4}
  Budgets = {0, 7, 104, 205}
  Rates = {0, 7}
  Slippages = {0, 10}
SYMMETRY MCSymmetry
INVARIANTS CatalogOK ActiveOwnerRemains GraphsOK ContextOK ListsOK UsableIsJustified PastIsReproduced AlignedInTime ExperimentsOK QuotesOK FillsAreSound WithinBudget
PROPERTIES AlertsAreSound EventsAreSound AssociationsAreOrdered VersionsAreSound
CHECK_DEADLOCK FALSE
