SPECIFICATION MCSpec
CONSTANTS
  \* CollectionPlan
  Topic = {t1, base}
  Market = {a, b}
  Platform = {poly}
  PlatformOf <- MCPlatformOf
  Baseline = base
  Discovered = {a}
  PriorityLimit = 1
  TotalLimit = 2
  MaxRevision = 3
  PlanFaults = 1
  NoPlan = NoPlan
  NoMarket = NoMarket
  \* Sources
  NewsWorker = {n1, n2}
  EvidenceSource = {s1}
  DocumentSource = {s1}
  ExternalId = {"a", "b"}
  Link = {"p", "x"}
  PageUrl = {"p"}
  Body <- MCBody
  PageVersions = 2
  NewsFaults = 1
  NoWorker = NoWorker
  NoJob = NoJob
  NoDocument = NoDocument
INVARIANTS PlanIsTrue SourcesOK
PROPERTIES AdoptionMovesForward PlanSettles SourcesSettle
