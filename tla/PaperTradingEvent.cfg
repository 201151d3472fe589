SPECIFICATION FairSpec
CONSTANTS
  Markets = {m1, m2}
  Workers = {w1}
  Free = Free
  BuyHold = TRUE
  InitialCash = 3
  MarketBudget = 2
  EventBudget = 3
  MaxQuantity = 1
  Latency = 1
  OrderLife = 2
  QuoteLife = 1
  Cooldown = 2
  Payouts = {}
  MaxTime = 2
INVARIANTS EventLimit
PROPERTIES OrdersEnd
