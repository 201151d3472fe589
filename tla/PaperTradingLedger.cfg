SPECIFICATION Spec
CONSTANTS
  Markets = {m1}
  Workers = {w1, w2}
  Free = Free
  BuyHold = FALSE
  InitialCash = 3
  MarketBudget = 2
  EventBudget = 2
  MaxQuantity = 2
  Latency = 1
  OrderLife = 2
  QuoteLife = 1
  Cooldown = 2
  Payouts = {0, 1}
  MaxTime = 3
SYMMETRY Symmetry
INVARIANTS BooksAreSound
PROPERTIES EndsAreFinal
