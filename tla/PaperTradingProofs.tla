------------------------- MODULE PaperTradingProofs -------------------------
(***************************************************************************)
(* Theorems about PaperTrading, for any number of markets and workers, any *)
(* budgets and times: the books balance, orders do not look ahead, the     *)
(* limit of an event is kept, and what has ended stays ended.              *)
(***************************************************************************)
EXTENDS PaperTrading, Sums, FiniteSetTheorems, WellFoundedInduction, TLAPS

----------------------------------------------------------------------------
(* The inductive invariant                                                 *)

\* The ledger adds up, and what was paid for positions is bound in them.
Balanced(a, p) ==
    /\ a.ledger = a.cash
    /\ a.cash + SumFunctionOnSet(Cost(p), Markets) - InitialCash = a.realized

\* A flat position costs nothing, entries are for flat positions, the decision
\* of an order saw an older quote than the ones that may fill it, and a market
\* that was paid out has neither a position nor an order.
RowOK(p, o) ==
    /\ p.quantity = 0 => p.cost = 0
    /\ o.status = "PENDING" /\ o.side = "BUY" => p.quantity = 0
    /\ o.seen < o.eligible
    /\ o.used # Never => o.used > o.seen
    /\ p.settled => p.quantity = 0 /\ o.status # "PENDING" /\ p.closed # Never

\* What a market counts against the limit of the event.
Bound(o) == IF o.status = "PENDING" /\ o.side = "BUY" THEN o.budget ELSE 0
Load(p, o) == [m \in Markets |-> p[m].cost + Bound(o[m])]
Within(p, o) == SumFunctionOnSet(Load(p, o), Markets) <= EventBudget

RowsOK(p, o) == \A m \in Markets : RowOK(p[m], o[m])
BooksOK(a, p, o) == Balanced(a, p) /\ RowsOK(p, o) /\ Within(p, o)

\* Whoever holds the lock is in a transaction, and nobody else is.
LockOK ==
    /\ \A w \in Workers : lock = w <=> worker[w].pc \in {"settle", "execute", "decide"}
    /\ lock = Free => saved = books

\* What a transaction has done so far: nothing before it settles, to orders that
\* had ended only to replace them, to markets that were paid out nothing.
Replaced(o) == o.status = "PENDING" /\ o.used = Never
Ended(o) == o.status \notin {"NONE", "PENDING"}
TransactionOK ==
    /\ \A w \in Workers :
         /\ worker[w].pc = "settle" => saved = books
         /\ worker[w].pc = "execute" =>
              /\ worker[w].todo \subseteq Pending
              /\ \A m \in Markets : Ended(saved[3][m]) => order[m] = saved[3][m]
    /\ \A m \in Markets :
         /\ Ended(saved[3][m]) /\ order[m] # saved[3][m] => Replaced(order[m])
         /\ saved[2][m].settled => position[m] = saved[2][m] /\ order[m] = saved[3][m]

\* A payout is final, so a quote of a market that still trades is older than
\* every quote with a payout, whoever holds them.
QuotesOK ==
    \A m \in Markets :
      /\ feed[m].received <= clock
      /\ \A w \in Workers :
           LET q == worker[w].quotes[m] IN
           /\ q.received <= clock
           /\ feed[m].status = "RESOLVED" /\ q.status # "RESOLVED" =>
                q.received <= feed[m].received
           /\ q.status = "RESOLVED" =>
                /\ feed[m].status = "RESOLVED"
                /\ \A v \in Workers : worker[v].quotes[m].status # "RESOLVED" =>
                     worker[v].quotes[m].received <= q.received

\* The same of the markets that were paid out.
SettledOK(p, f, k) ==
    \A m \in Markets : p[m].settled =>
      /\ f[m].status = "RESOLVED"
      /\ \A w \in Workers : k[w].quotes[m].status # "RESOLVED" =>
           k[w].quotes[m].received <= p[m].closed

Inv ==
    /\ TypeOK /\ LockOK /\ TransactionOK /\ QuotesOK
    /\ BooksOK(account, position, order) /\ BooksOK(saved[1], saved[2], saved[3])
    /\ SettledOK(position, feed, worker) /\ SettledOK(saved[2], feed, worker)


----------------------------------------------------------------------------
(* Types                                                                   *)

LEMMA Policy ==
    /\ IsFiniteSet(Markets)
    /\ InitialCash \in Nat /\ MarketBudget \in Nat /\ EventBudget \in Nat
    /\ MaxQuantity \in Nat /\ MaxTime \in Nat /\ Never = -1
    /\ Latency \in Nat /\ OrderLife \in Nat /\ QuoteLife \in Nat /\ Cooldown \in Nat
    /\ 0 < Latency /\ Latency < OrderLife /\ QuoteLife < Cooldown
    /\ Payouts \subseteq {0, 1}
  BY PolicyAssumption DEF Never

LEMMA BooksType ==
    ASSUME NEW a, NEW p, NEW o
    PROVE  <<a, p, o>> \in Books <=>
             a \in AccountRecord /\ p \in [Markets -> PositionRecord]
               /\ o \in [Markets -> OrderRecord]
  BY DEF Books

LEMMA Rows ==
    TypeOK =>
    /\ account \in AccountRecord /\ position \in [Markets -> PositionRecord]
    /\ order \in [Markets -> OrderRecord]
    /\ saved = <<saved[1], saved[2], saved[3]>>
    /\ saved[1] \in AccountRecord /\ saved[2] \in [Markets -> PositionRecord]
    /\ saved[3] \in [Markets -> OrderRecord]
  BY DEF TypeOK, Books, books

LEMMA OrderStatus ==
    ASSUME NEW o \in OrderRecord,
           NEW s \in {"FILLED", "PARTIAL", "UNFILLED", "EXPIRED", "CANCELLED"}
    PROVE  /\ [o EXCEPT !.status = s] \in OrderRecord
           /\ [o EXCEPT !.status = s].status = s
           /\ [o EXCEPT !.status = s].used = o.used /\ [o EXCEPT !.status = s].seen = o.seen
           /\ [o EXCEPT !.status = s].eligible = o.eligible
  BY DEF OrderRecord

LEMMA CancelledType ==
    ASSUME order \in [Markets -> OrderRecord], NEW S
    PROVE  CancelledIn(S) \in [Markets -> OrderRecord]
<1>1. \A m \in Markets : [order[m] EXCEPT !.status = "CANCELLED"] \in OrderRecord
  BY OrderStatus
<1>2. QED
  BY <1>1 DEF CancelledIn

\* The markets that are paid out, and what they pay.
LEMMA PaidSums ==
    ASSUME TypeOK, NEW w \in Workers
    PROVE  /\ Paid(w) \in SUBSET Markets /\ IsFiniteSet(Paid(w))
           /\ \A m \in Paid(w) : position[m].quantity > 0
           /\ \A m \in Markets : Cost(position)[m] \in Nat
           /\ SumFunctionOnSet(Proceeds(w), Paid(w)) \in Nat
           /\ SumFunctionOnSet(Cost(position), Paid(w)) \in Nat
<1> DEFINE P == Paid(w)
<1>1. P \in SUBSET Markets /\ \A m \in P : position[m].quantity > 0
  BY DEF Paid, Held
<1>2. IsFiniteSet(P)
  BY <1>1, Policy, FS_Subset
<1>3. \A m \in Markets : Cost(position)[m] \in Nat
  BY Rows DEF Cost, PositionRecord
<1>4. \A m \in Markets : Proceeds(w)[m] \in Nat
  <2> TAKE m \in Markets
  <2>1. worker[w].quotes[m].payout \in {0, 1}
    BY DEF TypeOK, WorkerRecord, Quotes
  <2>2. position[m].quantity \in Nat
    BY Rows, Policy DEF PositionRecord
  <2>3. Proceeds(w)[m] = position[m].quantity * worker[w].quotes[m].payout
    BY DEF Proceeds
  <2>4. CASE worker[w].quotes[m].payout = 0
    BY <2>2, <2>3, <2>4
  <2>5. CASE worker[w].quotes[m].payout = 1
    BY <2>2, <2>3, <2>5
  <2>6. QED
    BY <2>1, <2>4, <2>5
<1> HIDE DEF P
<1>5. SumFunctionOnSet(Proceeds(w), P) \in Nat
  BY <1>1, <1>2, <1>4, SumNat
<1>6. SumFunctionOnSet(Cost(position), P) \in Nat
  BY <1>1, <1>2, <1>3, SumNat
<1>7. QED
  BY <1>1, <1>2, <1>3, <1>5, <1>6 DEF P

\* What settling leaves of the rows of one market.
LEMMA SettledRow ==
    ASSUME TypeOK, NEW w \in Workers, Settle(w), NEW m \in Markets
    PROVE  /\ m \in Paid(w) => /\ position'[m] = PaidOut(w, m)
                               /\ worker[w].quotes[m].status = "RESOLVED" /\ Fresh(w, m)
                               /\ order[m].status = "PENDING" =>
                                    order'[m] = [order[m] EXCEPT !.status = "CANCELLED"]
           /\ m \notin Paid(w) => position'[m] = position[m]
           /\ m \notin Paid(w) \/ order[m].status # "PENDING" => order'[m] = order[m]
  BY DEF Settle, CancelledIn, Paid, Pending

LEMMA SettleRows ==
    ASSUME TypeOK, NEW w \in Workers, Settle(w)
    PROVE  /\ account' \in AccountRecord
           /\ position' \in [Markets -> PositionRecord] /\ order' \in [Markets -> OrderRecord]
<1>1. account' \in AccountRecord
  <2> DEFINE p == SumFunctionOnSet(Proceeds(w), Paid(w))
             c == SumFunctionOnSet(Cost(position), Paid(w))
  <2>1. p \in Nat /\ c \in Nat
    BY PaidSums
  <2>2. account' = [cash |-> account.cash + p, realized |-> account.realized + p - c,
                    ledger |-> account.ledger + p]
    BY DEF Settle
  <2> HIDE DEF p, c
  <2>3. QED
    BY <2>1, <2>2, Rows DEF AccountRecord
<1>2. position' \in [Markets -> PositionRecord]
  <2>1. worker[w].now \in Times
    BY DEF TypeOK, WorkerRecord
  <2>2. \A m \in Markets : PaidOut(w, m) \in PositionRecord
    BY <2>1, Policy DEF PaidOut, PositionRecord
  <2>3. QED
    BY <2>2, Rows DEF Settle
<1>3. order' \in [Markets -> OrderRecord]
  BY Rows, CancelledType DEF Settle
<1>4. QED
  BY <1>1, <1>2, <1>3

\* An order that is filled, or not at all.
LEMMA FilledRow ==
    ASSUME TypeOK, NEW w \in Workers, NEW m \in Markets, NEW filled, Eligible(w, m),
           Filled(w, m, filled)
    PROVE  /\ order' \in [Markets -> OrderRecord]
           /\ \A k \in Markets : k # m => order'[k] = order[k]
           /\ order'[m].status \in {"FILLED", "PARTIAL", "UNFILLED"}
           /\ order'[m].used = worker[w].quotes[m].received
           /\ order'[m].seen = order[m].seen /\ order'[m].eligible = order[m].eligible
<1> DEFINE s == IF filled = order[m].quantity THEN "FILLED"
                ELSE IF filled > 0 THEN "PARTIAL" ELSE "UNFILLED"
           u == worker[w].quotes[m].received
           row == [order[m] EXCEPT !.used = u, !.status = s]
<1>1. order' = [order EXCEPT ![m] = row]
  BY DEF Filled
<1>2. s \in {"FILLED", "PARTIAL", "UNFILLED"}
  OBVIOUS
<1>3. u \in Times \cup {Never}
  BY DEF TypeOK, WorkerRecord, Quotes
<1> HIDE DEF s, u
<1>4. row \in OrderRecord /\ row.status = s /\ row.used = u /\ row.seen = order[m].seen
      /\ row.eligible = order[m].eligible
  <2>1. order[m] \in OrderRecord
    BY Rows
  <2>2. s \in {"NONE", "PENDING", "FILLED", "PARTIAL", "UNFILLED", "EXPIRED", "CANCELLED"}
    BY <1>2
  <2>3. QED
    BY <1>3, <2>1, <2>2 DEF OrderRecord
<1> HIDE DEF row
<1>5. QED
  BY <1>1, <1>2, <1>4, Rows DEF u


----------------------------------------------------------------------------
(* The books                                                               *)

LEMMA LoadType ==
    ASSUME NEW p \in [Markets -> PositionRecord], NEW o \in [Markets -> OrderRecord]
    PROVE  \A m \in Markets :
             /\ Cost(p)[m] = p[m].cost /\ Cost(p)[m] \in Nat
             /\ Load(p, o)[m] = p[m].cost + Bound(o[m]) /\ Load(p, o)[m] \in Nat
             /\ Bound(o[m]) \in Nat
<1> TAKE m \in Markets
<1>1. p[m].cost \in Nat
  BY DEF PositionRecord
<1>2. o[m].budget \in Nat
  BY DEF OrderRecord
<1>3. Bound(o[m]) \in Nat
  BY <1>2 DEF Bound
<1>4. Cost(p)[m] = p[m].cost /\ Load(p, o)[m] = p[m].cost + Bound(o[m])
  BY DEF Cost, Load
<1>5. QED
  BY <1>1, <1>3, <1>4

\* The rows of the market m change from p and o to q and r, with the account.
RowChange(m, a, b, p, q, o, r) ==
    /\ m \in Markets /\ a \in AccountRecord /\ b \in AccountRecord
    /\ p \in [Markets -> PositionRecord] /\ q \in [Markets -> PositionRecord]
    /\ o \in [Markets -> OrderRecord] /\ r \in [Markets -> OrderRecord]
    /\ \A k \in Markets : k # m => q[k] = p[k] /\ r[k] = o[k]
    /\ RowOK(q[m], r[m]) /\ b.ledger = b.cash
    /\ b.cash + q[m].cost - b.realized = a.cash + p[m].cost - a.realized

LEMMA OneRow ==
    ASSUME NEW m, NEW a, NEW b, NEW p, NEW q, NEW o, NEW r,
           RowChange(m, a, b, p, q, o, r), BooksOK(a, p, o)
    PROVE  /\ Balanced(b, q) /\ RowsOK(q, r)
           /\ SumFunctionOnSet(Load(q, r), Markets) =
                (SumFunctionOnSet(Load(p, o), Markets) - (p[m].cost + Bound(o[m])))
                  + (q[m].cost + Bound(r[m]))
<1>0. /\ m \in Markets /\ a \in AccountRecord /\ b \in AccountRecord
      /\ p \in [Markets -> PositionRecord] /\ q \in [Markets -> PositionRecord]
      /\ o \in [Markets -> OrderRecord] /\ r \in [Markets -> OrderRecord]
      /\ \A k \in Markets : k # m => q[k] = p[k] /\ r[k] = o[k]
      /\ RowOK(q[m], r[m]) /\ b.ledger = b.cash
      /\ b.cash + q[m].cost - b.realized = a.cash + p[m].cost - a.realized
  BY DEF RowChange
<1> DEFINE C == SumFunctionOnSet(Cost(p), Markets)
           D == SumFunctionOnSet(Cost(q), Markets)
           x == p[m].cost
           y == q[m].cost
<1>1. \A k \in Markets : Cost(p)[k] \in Int /\ Cost(q)[k] \in Int
                           /\ (k # m => Cost(q)[k] = Cost(p)[k])
  <2> TAKE k \in Markets
  <2>1. Cost(p)[k] = p[k].cost /\ Cost(p)[k] \in Nat
    BY <1>0, LoadType
  <2>2. Cost(q)[k] = q[k].cost /\ Cost(q)[k] \in Nat
    BY <1>0, LoadType
  <2>3. k # m => q[k] = p[k]
    BY <1>0
  <2>4. QED
    BY <2>1, <2>2, <2>3
<1>2. D = (C - Cost(p)[m]) + Cost(q)[m]
  BY <1>0, <1>1, Policy, SumOne
<1>3. C \in Int /\ x \in Int /\ y \in Int /\ Cost(p)[m] = x /\ Cost(q)[m] = y
  BY <1>0, <1>1, Policy, SumType, LoadType
<1>4. a.cash + C - InitialCash = a.realized /\ InitialCash \in Int
  BY Policy DEF BooksOK, Balanced
<1>5. a.cash \in Int /\ a.realized \in Int /\ b.cash \in Int /\ b.realized \in Int
  BY <1>0 DEF AccountRecord
<1>6. b.cash + y - b.realized = a.cash + x - a.realized
  BY <1>0
<1> HIDE DEF C, D, x, y
<1>7. D = (C - x) + y
  BY <1>2, <1>3
<1>8. b.cash + D - InitialCash = b.realized
  <2> DEFINE ac == a.cash
             ar == a.realized
             bc == b.cash
             br == b.realized
  <2>1. /\ ac \in Int /\ ar \in Int /\ bc \in Int /\ br \in Int
        /\ ac + C - InitialCash = ar /\ bc + y - br = ac + x - ar
    BY <1>4, <1>5, <1>6
  <2> HIDE DEF ac, ar, bc, br
  <2>2. bc + D - InitialCash = br
    BY <2>1, <1>3, <1>4, <1>7
  <2>3. QED
    BY <2>2 DEF bc, br
<1>9. Balanced(b, q)
  BY <1>0, <1>8 DEF Balanced, D
<1>10. RowsOK(q, r)
  BY <1>0 DEF BooksOK, RowsOK
<1>11. \A k \in Markets : Load(p, o)[k] \in Int /\ Load(q, r)[k] \in Int
                            /\ (k # m => Load(q, r)[k] = Load(p, o)[k])
  <2> TAKE k \in Markets
  <2>1. Load(p, o)[k] \in Int /\ Load(p, o)[k] = p[k].cost + Bound(o[k])
    BY <1>0, LoadType
  <2>2. Load(q, r)[k] \in Int /\ Load(q, r)[k] = q[k].cost + Bound(r[k])
    BY <1>0, LoadType
  <2>3. k # m => q[k] = p[k] /\ r[k] = o[k]
    BY <1>0
  <2>4. QED
    BY <2>1, <2>2, <2>3
<1>12. SumFunctionOnSet(Load(q, r), Markets) =
        (SumFunctionOnSet(Load(p, o), Markets) - Load(p, o)[m]) + Load(q, r)[m]
  BY <1>0, <1>11, Policy, SumOne
<1>13. Load(p, o)[m] = p[m].cost + Bound(o[m]) /\ Load(q, r)[m] = q[m].cost + Bound(r[m])
  BY <1>0, LoadType
<1>14. QED
  BY <1>9, <1>10, <1>12, <1>13

\* ... and the market counts no more against the limit than before.
LEMMA OneRowWithin ==
    ASSUME NEW m, NEW a, NEW b, NEW p, NEW q, NEW o, NEW r,
           RowChange(m, a, b, p, q, o, r), BooksOK(a, p, o),
           q[m].cost + Bound(r[m]) <= p[m].cost + Bound(o[m])
    PROVE  BooksOK(b, q, r)
<1> DEFINE S == SumFunctionOnSet(Load(p, o), Markets)
           T == SumFunctionOnSet(Load(q, r), Markets)
           x == p[m].cost + Bound(o[m])
           y == q[m].cost + Bound(r[m])
<1>1. Balanced(b, q) /\ RowsOK(q, r) /\ T = (S - x) + y
  <2>1. T = (S - x) + y
    BY OneRow
  <2>2. QED
    BY <2>1, OneRow
<1>2. S \in Int /\ S <= EventBudget /\ EventBudget \in Int
  BY LoadType, Policy, SumType DEF BooksOK, Within, RowChange
<1>3. x \in Int /\ y \in Int
  BY LoadType DEF RowChange
<1>4. y <= x
  OBVIOUS
<1> HIDE DEF S, T, x, y
<1>5. T <= EventBudget
  BY <1>1, <1>2, <1>3, <1>4
<1>6. QED
  BY <1>1, <1>5 DEF BooksOK, Within, T

LEMMA BoughtOK ==
    ASSUME TypeOK, BooksOK(account, position, order), NEW w \in Workers, NEW m \in Markets,
           order[m].status = "PENDING", Eligible(w, m), Bought(w, m)
    PROVE  /\ account' \in AccountRecord /\ position' \in [Markets -> PositionRecord]
           /\ \A k \in Markets : k # m => position'[k] = position[k]
           /\ ~position'[m].settled
           /\ BooksOK(account', position', order')
<1>1. PICK filled \in 1..order[m].quantity, cost \in Costs(m) :
        /\ account' = [account EXCEPT !.cash = account.cash - cost,
                                      !.ledger = account.ledger - cost]
        /\ position' = [position EXCEPT ![m] =
             IF m \notin Held
             THEN [quantity |-> filled, cost |-> cost, closed |-> Never, settled |-> FALSE]
             ELSE [position[m] EXCEPT !.quantity = position[m].quantity + filled,
                                      !.cost = position[m].cost + cost]]
        /\ Filled(w, m, filled)
  BY DEF Bought
<1>2. RowOK(position[m], order[m]) /\ position[m].quantity = 0 /\ position[m].cost = 0
      /\ m \notin Held /\ order[m].side = "BUY"
  BY DEF Bought, BooksOK, RowsOK, RowOK, Held
<1> DEFINE row == [quantity |-> filled, cost |-> cost, closed |-> Never, settled |-> FALSE]
<1>3. position' = [position EXCEPT ![m] = row]
  BY <1>1, <1>2
<1>4. order[m].budget \in Nat /\ order[m].quantity \in 0..MaxQuantity /\ order[m].seen \in Int
      /\ order[m].eligible \in Int /\ account.cash \in Nat /\ account.ledger \in Int
      /\ account.realized \in Int /\ account.ledger = account.cash
  BY Rows, Policy DEF AccountRecord, OrderRecord, BooksOK, Balanced, Times
<1>5. cost \in Nat /\ 0 < cost /\ cost <= order[m].budget /\ cost <= account.cash
      /\ filled \in 0..MaxQuantity /\ 0 < filled
  BY <1>4, Policy DEF Costs, Smaller
<1>6. row \in PositionRecord
  BY <1>5 DEF PositionRecord
<1>7. account' \in AccountRecord /\ account'.cash = account.cash - cost
      /\ account'.ledger = account.ledger - cost /\ account'.realized = account.realized
  <2>1. account.cash - cost \in Nat /\ account.ledger - cost \in Int
    BY <1>4, <1>5
  <2>2. account \in AccountRecord
    BY Rows
  <2>3. QED
    BY <1>1, <2>1, <2>2 DEF AccountRecord
<1>8. row.cost = cost /\ row.quantity = filled /\ ~row.settled
  OBVIOUS
<1> HIDE DEF row
<1>9. position' \in [Markets -> PositionRecord] /\ position'[m] = row
      /\ \A k \in Markets : k # m => position'[k] = position[k]
  BY <1>3, <1>6, Rows
<1>10. /\ order' \in [Markets -> OrderRecord]
       /\ \A k \in Markets : k # m => order'[k] = order[k]
       /\ order'[m].status \in {"FILLED", "PARTIAL", "UNFILLED"}
       /\ order'[m].used = worker[w].quotes[m].received
       /\ order'[m].seen = order[m].seen /\ order'[m].eligible = order[m].eligible
  BY <1>1, FilledRow
<1>11. order'[m].used \in Int /\ order'[m].used > order'[m].seen
       /\ order'[m].seen < order'[m].eligible
  <2>1. worker[w].quotes[m].received \in Int
    BY Policy DEF TypeOK, WorkerRecord, Quotes, Times
  <2>2. order[m].seen < order[m].eligible
    BY <1>2 DEF RowOK
  <2>3. worker[w].quotes[m].received >= order[m].eligible
    BY DEF Eligible
  <2>4. QED
    BY <1>4, <1>10, <2>1, <2>2, <2>3
<1>12. RowOK(position'[m], order'[m])
  BY <1>5, <1>8, <1>9, <1>10, <1>11 DEF RowOK
<1>13. Bound(order'[m]) = 0 /\ Bound(order[m]) = order[m].budget
  BY <1>2, <1>10 DEF Bound
<1>14. account'.cash + position'[m].cost - account'.realized =
         account.cash + position[m].cost - account.realized
  BY <1>2, <1>4, <1>5, <1>7, <1>8, <1>9
<1>15. position'[m].cost + Bound(order'[m]) <= position[m].cost + Bound(order[m])
  BY <1>2, <1>4, <1>5, <1>8, <1>9, <1>13
<1>16. account'.ledger = account'.cash
  BY <1>4, <1>7
<1>17. BooksOK(account', position', order')
  <2>1. RowChange(m, account, account', position, position', order, order')
    BY <1>7, <1>9, <1>10, <1>12, <1>14, <1>16, Rows DEF RowChange
  <2>2. QED
    BY <1>15, <2>1, OneRowWithin
<1>18. QED
  BY <1>7, <1>8, <1>9, <1>17


LEMMA SoldOK ==
    ASSUME TypeOK, BooksOK(account, position, order), NEW w \in Workers, NEW m \in Markets,
           order[m].status = "PENDING", Eligible(w, m), Sold(w, m)
    PROVE  /\ account' \in AccountRecord /\ position' \in [Markets -> PositionRecord]
           /\ \A k \in Markets : k # m => position'[k] = position[k]
           /\ ~position'[m].settled
           /\ BooksOK(account', position', order')
<1>1. PICK sold \in 1..Smaller(order[m].quantity, position[m].quantity) :
      \E delta \in -1..sold, basis \in Basis(m, sold) :
        /\ account.cash + delta >= 0
        /\ account' = [cash |-> account.cash + delta,
                       realized |-> account.realized + delta - basis,
                       ledger |-> account.ledger + delta]
        /\ position' = [position EXCEPT ![m] =
             [position[m] EXCEPT !.quantity = position[m].quantity - sold,
                                 !.cost = position[m].cost - basis,
                                 !.closed = IF sold = position[m].quantity
                                            THEN worker[w].now ELSE position[m].closed]]
        /\ Filled(w, m, sold)
  BY DEF Sold
<1>2. PICK delta \in -1..sold, basis \in Basis(m, sold) :
        /\ account.cash + delta >= 0
        /\ account' = [cash |-> account.cash + delta,
                       realized |-> account.realized + delta - basis,
                       ledger |-> account.ledger + delta]
        /\ position' = [position EXCEPT ![m] =
             [position[m] EXCEPT !.quantity = position[m].quantity - sold,
                                 !.cost = position[m].cost - basis,
                                 !.closed = IF sold = position[m].quantity
                                            THEN worker[w].now ELSE position[m].closed]]
        /\ Filled(w, m, sold)
  BY <1>1
<1>3. RowOK(position[m], order[m]) /\ position[m].quantity > 0 /\ order[m].side = "SELL"
  BY DEF Sold, BooksOK, RowsOK
<1> DEFINE x == position[m].quantity
           c == position[m].cost
           t == IF sold = x THEN worker[w].now ELSE position[m].closed
           row == [position[m] EXCEPT !.quantity = x - sold, !.cost = c - basis, !.closed = t]
<1>4. position' = [position EXCEPT ![m] = row]
  BY <1>2
<1>5. /\ order[m].quantity \in 0..MaxQuantity /\ order[m].seen \in Int
      /\ order[m].eligible \in Int /\ account.cash \in Nat /\ account.ledger \in Int
      /\ account.realized \in Int /\ account.ledger = account.cash
      /\ x \in 0..MaxQuantity /\ c \in Nat /\ t \in Times \cup {Never}
  BY Rows, Policy
     DEF AccountRecord, OrderRecord, PositionRecord, BooksOK, Balanced, Times, TypeOK,
         WorkerRecord
<1>6. sold \in Nat /\ 0 < sold /\ sold <= x /\ delta \in Int
  <2>1. order[m].quantity \in Nat /\ x \in Nat
    BY <1>5, Policy
  <2>2. sold \in 1..order[m].quantity \/ sold \in 1..x
    BY DEF Smaller
  <2>3. sold \in 1..x
    BY <2>1, <2>2 DEF Smaller
  <2>4. QED
    BY <2>1, <2>3
<1>7. basis \in 0..c /\ (sold = x => basis = c)
  <2>1. CASE sold = x
    BY <2>1, <1>5 DEF Basis
  <2>2. CASE sold # x
    BY <2>2, <1>5 DEF Basis
  <2>3. QED
    BY <2>1, <2>2
<1>8. x - sold \in 0..MaxQuantity /\ c - basis \in Nat /\ (x - sold = 0 => c - basis = 0)
      /\ x - sold \in Nat
  BY <1>5, <1>6, <1>7, Policy
<1>9. position[m] \in PositionRecord
  BY Rows
<1> HIDE DEF t
<1>10. row \in PositionRecord /\ row.quantity = x - sold /\ row.cost = c - basis
       /\ row.settled = position[m].settled
  BY <1>5, <1>8, <1>9 DEF PositionRecord
<1>11. account.cash + delta \in Nat /\ account.ledger + delta \in Int
       /\ account.realized + delta - basis \in Int /\ basis \in Int
  BY <1>2, <1>5, <1>6, <1>7
<1>12. account' \in AccountRecord /\ account'.cash = account.cash + delta
       /\ account'.ledger = account.ledger + delta
       /\ account'.realized = account.realized + delta - basis
  BY <1>2, <1>11 DEF AccountRecord
<1> HIDE DEF row
<1>13. position' \in [Markets -> PositionRecord] /\ position'[m] = row
       /\ \A k \in Markets : k # m => position'[k] = position[k]
  BY <1>4, <1>10, Rows
<1>14. /\ order' \in [Markets -> OrderRecord]
       /\ \A k \in Markets : k # m => order'[k] = order[k]
       /\ order'[m].status \in {"FILLED", "PARTIAL", "UNFILLED"}
       /\ order'[m].used = worker[w].quotes[m].received
       /\ order'[m].seen = order[m].seen /\ order'[m].eligible = order[m].eligible
  BY <1>2, FilledRow
<1>15. order'[m].used > order'[m].seen /\ order'[m].seen < order'[m].eligible
  <2>1. worker[w].quotes[m].received \in Int
    BY Policy DEF TypeOK, WorkerRecord, Quotes, Times
  <2>2. order[m].seen < order[m].eligible
    BY <1>3 DEF RowOK
  <2>3. worker[w].quotes[m].received >= order[m].eligible
    BY DEF Eligible
  <2>4. QED
    BY <1>5, <1>14, <2>1, <2>2, <2>3
<1>16. ~position'[m].settled
  <2>1. position[m].settled => x = 0
    BY <1>3 DEF RowOK
  <2>2. x # 0
    BY <1>3, <1>5
  <2>3. QED
    BY <1>10, <1>13, <2>1, <2>2
<1>17. RowOK(position'[m], order'[m])
  BY <1>8, <1>10, <1>13, <1>14, <1>15, <1>16 DEF RowOK
<1>18. Bound(order'[m]) = 0 /\ Bound(order[m]) = 0
  BY <1>3, <1>14 DEF Bound
<1>19. position'[m].cost = c - basis /\ c \in Int
  BY <1>5, <1>10, <1>13
<1>20. account'.cash + position'[m].cost - account'.realized =
         account.cash + position[m].cost - account.realized
  <2> DEFINE k == account.cash
             r == account.realized
  <2>1. k \in Int /\ r \in Int
    BY <1>5
  <2> HIDE DEF c, k, r
  <2>2. (k + delta) + (c - basis) - (r + delta - basis) = k + c - r
    BY <1>6, <1>11, <1>19, <2>1
  <2>3. QED
    BY <1>12, <1>19, <2>2 DEF c, k, r
<1>21. position'[m].cost + Bound(order'[m]) <= position[m].cost + Bound(order[m])
  BY <1>7, <1>18, <1>19
<1>22. RowChange(m, account, account', position, position', order, order')
  BY <1>5, <1>12, <1>13, <1>14, <1>17, <1>20, Rows DEF RowChange
<1>23. QED
  BY <1>12, <1>13, <1>16, <1>21, <1>22, OneRowWithin

\* An order that ends without a fill.
LEMMA ClosedOK ==
    ASSUME TypeOK, BooksOK(account, position, order), NEW m \in Markets,
           NEW status \in {"EXPIRED", "CANCELLED"}, Closed(m, status)
    PROVE  /\ order' \in [Markets -> OrderRecord]
           /\ \A k \in Markets : k # m => order'[k] = order[k]
           /\ order'[m].status \in {"EXPIRED", "CANCELLED"}
           /\ BooksOK(account', position', order')
<1> DEFINE row == [order[m] EXCEPT !.status = status]
<1>1. order' = [order EXCEPT ![m] = row] /\ UNCHANGED <<account, position>>
  BY DEF Closed
<1>2. row \in OrderRecord /\ row.status = status /\ row.used = order[m].used
      /\ row.seen = order[m].seen /\ row.eligible = order[m].eligible
  <2>1. order[m] \in OrderRecord
    BY Rows
  <2>2. QED
    BY <2>1 DEF OrderRecord
<1> HIDE DEF row
<1>3. order' \in [Markets -> OrderRecord] /\ order'[m] = row
      /\ \A k \in Markets : k # m => order'[k] = order[k]
  BY <1>1, <1>2, Rows
<1>4. RowOK(position'[m], order'[m])
  BY <1>1, <1>2, <1>3 DEF BooksOK, RowsOK, RowOK
<1>5. RowChange(m, account, account', position, position', order, order')
  BY <1>1, <1>3, <1>4, Rows DEF RowChange, BooksOK, Balanced
<1>6. Bound(order'[m]) = 0 /\ Bound(order[m]) \in Nat /\ position[m].cost \in Nat
  BY <1>2, <1>3, Rows, LoadType DEF Bound
<1>7. position'[m].cost + Bound(order'[m]) <= position[m].cost + Bound(order[m])
  BY <1>1, <1>6
<1>8. QED
  BY <1>2, <1>3, <1>5, <1>7, OneRowWithin

\* An order that meets no volume.
LEMMA UnfilledOK ==
    ASSUME TypeOK, BooksOK(account, position, order), NEW w \in Workers, NEW m \in Markets,
           Eligible(w, m), Filled(w, m, 0), UNCHANGED <<account, position>>
    PROVE  BooksOK(account', position', order')
<1>1. /\ order' \in [Markets -> OrderRecord]
      /\ \A k \in Markets : k # m => order'[k] = order[k]
      /\ order'[m].status \in {"FILLED", "PARTIAL", "UNFILLED"}
      /\ order'[m].used = worker[w].quotes[m].received
      /\ order'[m].seen = order[m].seen /\ order'[m].eligible = order[m].eligible
  BY FilledRow
<1>2. RowOK(position[m], order[m])
  BY DEF BooksOK, RowsOK
<1>3. worker[w].quotes[m].received > order[m].seen
  <2>1. worker[w].quotes[m].received \in Int /\ order[m].seen \in Int
        /\ order[m].eligible \in Int
    BY Rows, Policy DEF TypeOK, WorkerRecord, Quotes, Times, OrderRecord
  <2>2. order[m].seen < order[m].eligible
    BY <1>2 DEF RowOK
  <2>3. worker[w].quotes[m].received >= order[m].eligible
    BY DEF Eligible
  <2>4. QED
    BY <2>1, <2>2, <2>3
<1>4. RowOK(position'[m], order'[m])
  BY <1>1, <1>2, <1>3 DEF RowOK
<1>5. RowChange(m, account, account', position, position', order, order')
  BY <1>1, <1>4, Rows DEF RowChange, BooksOK, Balanced
<1>6. Bound(order'[m]) = 0 /\ Bound(order[m]) \in Nat /\ position[m].cost \in Nat
  BY <1>1, Rows, LoadType DEF Bound
<1>7. position'[m].cost + Bound(order'[m]) <= position[m].cost + Bound(order[m])
  BY <1>6
<1>8. QED
  BY <1>5, <1>7, OneRowWithin


\* Nothing counts more against the limit than before.
LEMMA LoadLess ==
    ASSUME NEW p \in [Markets -> PositionRecord], NEW q \in [Markets -> PositionRecord],
           NEW o \in [Markets -> OrderRecord], NEW r \in [Markets -> OrderRecord],
           \A m \in Markets : q[m].cost <= p[m].cost /\ Bound(r[m]) <= Bound(o[m]),
           Within(p, o)
    PROVE  Within(q, r)
<1> DEFINE S == SumFunctionOnSet(Load(p, o), Markets)
           T == SumFunctionOnSet(Load(q, r), Markets)
<1>1. \A m \in Markets : /\ Load(p, o)[m] \in Nat /\ Load(q, r)[m] \in Nat
                         /\ Load(q, r)[m] <= Load(p, o)[m]
  <2> TAKE m \in Markets
  <2>1. /\ Load(p, o)[m] = p[m].cost + Bound(o[m]) /\ Load(p, o)[m] \in Nat
        /\ p[m].cost \in Nat /\ Bound(o[m]) \in Nat
    BY LoadType
  <2>2. /\ Load(q, r)[m] = q[m].cost + Bound(r[m]) /\ Load(q, r)[m] \in Nat
        /\ q[m].cost \in Nat /\ Bound(r[m]) \in Nat
    BY LoadType
  <2>3. QED
    BY <2>1, <2>2
<1>2. T <= S
  BY <1>1, Policy, SumLess
<1>3. S \in Nat /\ T \in Nat
  BY <1>1, Policy, SumNat
<1>4. S <= EventBudget
  BY DEF Within
<1> HIDE DEF S, T
<1>5. T <= EventBudget
  BY <1>2, <1>3, <1>4, Policy
<1>6. QED
  BY <1>5 DEF Within, T

LEMMA SettleOK ==
    ASSUME TypeOK, BooksOK(account, position, order), NEW w \in Workers, Settle(w)
    PROVE  BooksOK(account', position', order')
<1>1. /\ account' \in AccountRecord
      /\ position' \in [Markets -> PositionRecord] /\ order' \in [Markets -> OrderRecord]
  BY SettleRows
<1>2. Within(position', order')
  <2>1. ASSUME NEW m \in Markets
        PROVE  position'[m].cost <= position[m].cost /\ Bound(order'[m]) <= Bound(order[m])
    <3>1. position[m].cost \in Nat /\ Bound(order[m]) \in Nat
      BY Rows, LoadType
    <3>2. position'[m].cost <= position[m].cost
      <4>1. CASE m \in Paid(w)
        <5>1. position'[m] = PaidOut(w, m)
          BY <4>1, SettledRow
        <5>2. position'[m].cost = 0
          BY <5>1 DEF PaidOut
        <5>3. QED
          BY <3>1, <5>2
      <4>2. CASE m \notin Paid(w)
        <5>1. position'[m] = position[m]
          BY <4>2, SettledRow
        <5>2. QED
          BY <3>1, <5>1
      <4>3. QED
        BY <4>1, <4>2
    <3>3. Bound(order'[m]) <= Bound(order[m])
      <4>1. CASE m \in Paid(w) /\ order[m].status = "PENDING"
        <5>1. order'[m].status = "CANCELLED"
          <6>1. order'[m] = [order[m] EXCEPT !.status = "CANCELLED"]
            BY <4>1, SettledRow
          <6>2. QED
            BY <6>1, Rows DEF OrderRecord
        <5>2. QED
          BY <3>1, <5>1 DEF Bound
      <4>2. CASE ~(m \in Paid(w) /\ order[m].status = "PENDING")
        <5>1. order'[m] = order[m]
          BY <4>2, SettledRow
        <5>2. QED
          BY <3>1, <5>1
      <4>3. QED
        BY <4>1, <4>2
    <3>4. QED
      BY <3>2, <3>3
  <2>2. QED
    BY <1>1, <2>1, Rows, LoadLess DEF BooksOK
<1>3. RowsOK(position', order')
  <2> SUFFICES ASSUME NEW m \in Markets PROVE RowOK(position'[m], order'[m])
    BY DEF RowsOK
  <2>1. RowOK(position[m], order[m])
    BY DEF BooksOK, RowsOK
  <2>2. worker[w].now \in Times
    BY DEF TypeOK, WorkerRecord
  <2>3. worker[w].now # Never
    BY <2>2, Policy DEF Times
  <2>4. order'[m] = order[m] \/ order'[m] = [order[m] EXCEPT !.status = "CANCELLED"]
    BY SettledRow
  <2>5. /\ order'[m].status = order[m].status \/ order'[m].status = "CANCELLED"
        /\ order'[m].used = order[m].used /\ order'[m].seen = order[m].seen
        /\ order'[m].eligible = order[m].eligible /\ order'[m].side = order[m].side
    BY <2>4, Rows DEF OrderRecord
  <2>6. CASE m \in Paid(w)
    <3>1. position'[m] = PaidOut(w, m)
      BY <2>6, SettledRow
    <3>2. order'[m].status # "PENDING"
      <4>1. CASE order[m].status = "PENDING"
        <5>1. order'[m] = [order[m] EXCEPT !.status = "CANCELLED"]
          BY <2>6, <4>1, SettledRow
        <5>2. QED
          BY <5>1, Rows DEF OrderRecord
      <4>2. CASE order[m].status # "PENDING"
        BY <2>5, <4>2
      <4>3. QED
        BY <4>1, <4>2
    <3>3. QED
      BY <2>1, <2>3, <2>5, <3>1, <3>2 DEF PaidOut, RowOK
  <2>7. CASE m \notin Paid(w)
    BY <2>1, <2>7, SettledRow
  <2>8. QED
    BY <2>6, <2>7
<1>4. Balanced(account', position')
  <2> DEFINE p == SumFunctionOnSet(Proceeds(w), Paid(w))
             c == SumFunctionOnSet(Cost(position), Paid(w))
             C == SumFunctionOnSet(Cost(position), Markets)
             D == SumFunctionOnSet(Cost(position'), Markets)
             g == [m \in Markets |-> IF m \in Paid(w) THEN Cost(position)[m] ELSE 0]
  <2>1. p \in Nat /\ c \in Nat
    BY PaidSums
  <2>2. \A m \in Markets : Cost(position)[m] \in Int
    BY PaidSums
  <2>3. C \in Int
    BY <2>2, Policy, SumType
  <2>4. SumFunctionOnSet(g, Markets) = c
    BY <2>2, PaidSums, Policy, SumPart
  <2>5. ASSUME NEW m \in Markets
        PROVE  Cost(position')[m] = Cost(position)[m] - g[m] /\ g[m] \in Int
    <3>1. Cost(position')[m] = position'[m].cost /\ Cost(position)[m] = position[m].cost
      BY DEF Cost
    <3>2. CASE m \in Paid(w)
      <4>1. position'[m] = PaidOut(w, m)
        BY <3>2, SettledRow
      <4>2. position'[m].cost = 0
        BY <4>1 DEF PaidOut
      <4>3. QED
        BY <2>2, <3>1, <3>2, <4>2
    <3>3. CASE m \notin Paid(w)
      <4>1. position'[m] = position[m]
        BY <3>3, SettledRow
      <4>2. QED
        BY <2>2, <3>1, <3>3, <4>1
    <3>4. QED
      BY <3>2, <3>3
  <2>6. D = C - SumFunctionOnSet(g, Markets)
    <3> HIDE DEF g
    <3>1. QED
      BY <2>2, <2>5, Policy, SumMinus
  <2>7. account' = [cash |-> account.cash + p, realized |-> account.realized + p - c,
                    ledger |-> account.ledger + p]
    BY DEF Settle
  <2>8. account.ledger = account.cash /\ account.cash + C - InitialCash = account.realized
        /\ account.cash \in Int /\ account.realized \in Int /\ InitialCash \in Int
    BY Rows, Policy DEF BooksOK, Balanced, AccountRecord
  <2> HIDE DEF p, c, C, D, g
  <2>9. account'.ledger = account'.cash
        /\ account'.cash + D - InitialCash = account'.realized
    BY <2>1, <2>3, <2>4, <2>6, <2>7, <2>8
  <2>10. QED
    BY <2>9 DEF Balanced, D
<1>5. QED
  BY <1>2, <1>3, <1>4 DEF BooksOK

\* A pause.
LEMMA CancelledOK ==
    ASSUME TypeOK, BooksOK(account, position, order), NEW S
    PROVE  BooksOK(account, position, CancelledIn(S))
<1> DEFINE r == CancelledIn(S)
<1>1. r \in [Markets -> OrderRecord]
  BY Rows, CancelledType
<1>2. ASSUME NEW m \in Markets
      PROVE  Bound(r[m]) <= Bound(order[m]) /\ RowOK(position[m], r[m])
  <2>1. r[m] = order[m] \/ r[m] = [order[m] EXCEPT !.status = "CANCELLED"]
    BY DEF CancelledIn
  <2>2. /\ r[m].status = order[m].status \/ r[m].status = "CANCELLED"
        /\ r[m].used = order[m].used /\ r[m].seen = order[m].seen
        /\ r[m].eligible = order[m].eligible /\ r[m].side = order[m].side
        /\ r[m].budget = order[m].budget
    BY <2>1, Rows DEF OrderRecord
  <2>3. RowOK(position[m], order[m]) /\ Bound(order[m]) \in Nat /\ order[m].budget \in Nat
    BY Rows, LoadType DEF BooksOK, RowsOK, OrderRecord
  <2> HIDE DEF r
  <2>4. RowOK(position[m], r[m])
    BY <2>2, <2>3 DEF RowOK
  <2>5. Bound(r[m]) <= Bound(order[m])
    BY <2>2, <2>3 DEF Bound
  <2>6. QED
    BY <2>4, <2>5
<1> HIDE DEF r
<1>3. RowsOK(position, r)
  BY <1>2 DEF RowsOK
<1>4. \A m \in Markets : position[m].cost <= position[m].cost
  BY Rows, LoadType
<1>5. Within(position, r)
  BY <1>1, <1>2, <1>4, Rows, LoadLess DEF BooksOK
<1>6. QED
  BY <1>3, <1>5 DEF BooksOK, r


\* What the decision reads as invested and reserved is what the markets count.
LEMMA LoadSplit ==
    ASSUME TypeOK, RowsOK(position, order)
    PROVE  /\ EventCost \in Nat /\ Reserved \in Nat
           /\ EventCost + Reserved = SumFunctionOnSet(Load(position, order), Markets)
<1> DEFINE c == Cost(position)
           ch == [m \in Markets |-> IF m \in Held THEN c[m] ELSE 0]
           b == [m \in Markets |-> order[m].budget]
           bb == [m \in Markets |-> IF m \in Buying THEN b[m] ELSE 0]
<1>1. IsFiniteSet(Markets) /\ Held \in SUBSET Markets /\ Buying \in SUBSET Markets
  BY Policy DEF Held, Buying, Pending
<1>2. \A m \in Markets : c[m] \in Nat /\ c[m] = position[m].cost /\ b[m] = order[m].budget
                           /\ b[m] \in Nat /\ position[m].quantity \in Nat
  <2> TAKE m \in Markets
  <2>1. c[m] \in Nat /\ c[m] = position[m].cost
    BY Rows, LoadType
  <2>2. b[m] = order[m].budget /\ order[m].budget \in Nat
    BY Rows DEF OrderRecord
  <2>3. position[m].quantity \in Nat
    BY Rows, Policy DEF PositionRecord
  <2>4. QED
    BY <2>1, <2>2, <2>3
<1>3. IsFiniteSet(Held) /\ IsFiniteSet(Buying)
  BY <1>1, FS_Subset
<1>4. EventCost = SumFunctionOnSet(c, Held) /\ Reserved = SumFunctionOnSet(b, Buying)
  BY DEF EventCost, Reserved
<1>5. \A m \in Markets : ch[m] = c[m]
  <2> TAKE m \in Markets
  <2>1. CASE m \in Held
    BY <2>1
  <2>2. CASE m \notin Held
    <3>1. position[m].quantity = 0
      BY <1>2, <2>2 DEF Held
    <3>2. position[m].cost = 0
      BY <3>1 DEF RowsOK, RowOK
    <3>3. c[m] = 0 /\ ch[m] = 0
      BY <1>2, <2>2, <3>2
    <3>4. QED
      BY <3>3
  <2>3. QED
    BY <2>1, <2>2
<1>6. \A m \in Markets : bb[m] = Bound(order[m]) /\ bb[m] \in Int
  BY <1>2 DEF Bound, Buying, Pending
<1>7. EventCost = SumFunctionOnSet(ch, Markets)
  <2> HIDE DEF c
  <2>1. \A m \in Markets : c[m] \in Int
    BY <1>2
  <2>2. QED
    BY <1>1, <1>4, <2>1, SumPart
<1>8. Reserved = SumFunctionOnSet(bb, Markets)
  <2> HIDE DEF b
  <2>1. \A m \in Markets : b[m] \in Int
    BY <1>2
  <2>2. QED
    BY <1>1, <1>4, <2>1, SumPart
<1>9. EventCost \in Nat /\ Reserved \in Nat
  <2> HIDE DEF b, c
  <2>1. \A m \in Held : c[m] \in Nat
    BY <1>1, <1>2
  <2>2. \A m \in Buying : b[m] \in Nat
    BY <1>1, <1>2
  <2>3. QED
    BY <1>3, <1>4, <2>1, <2>2, SumNat
<1>10. \A m \in Markets : /\ ch[m] \in Int /\ bb[m] \in Int
                          /\ Load(position, order)[m] = ch[m] + bb[m]
  <2> TAKE m \in Markets
  <2>1. Load(position, order)[m] = position[m].cost + Bound(order[m])
    BY Rows, LoadType
  <2>2. ch[m] = c[m] /\ bb[m] = Bound(order[m]) /\ bb[m] \in Int
    BY <1>5, <1>6
  <2>3. c[m] \in Nat /\ c[m] = position[m].cost
    BY <1>2
  <2> HIDE DEF c, ch, bb
  <2>4. QED
    BY <2>1, <2>2, <2>3
<1> HIDE DEF c, ch, b, bb
<1>11. SumFunctionOnSet(Load(position, order), Markets) =
         SumFunctionOnSet(ch, Markets) + SumFunctionOnSet(bb, Markets)
  BY <1>1, <1>10, SumPlus
<1>12. QED
  BY <1>7, <1>8, <1>9, <1>11

\* Whoever still holds a quote of the open market cannot enter a market that was
\* paid out: the quote is older than the payout, and too old before the cooldown ends.
LEMMA NotReentered ==
    ASSUME TypeOK, RowsOK(position, order), SettledOK(position, feed, worker), NEW w \in Workers,
           NEW m \in Markets, Tradable(w, m), m \in Held \/ Reentry(w, m)
    PROVE  ~position[m].settled
<1> SUFFICES ASSUME position[m].settled PROVE FALSE
  OBVIOUS
<1> DEFINE n == worker[w].now
           r == worker[w].quotes[m].received
           c == position[m].closed
<1>1. position[m].quantity = 0 /\ c # Never
  BY DEF RowsOK, RowOK
<1>2. Reentry(w, m)
  <2>1. m \notin Held
    BY <1>1 DEF Held
  <2>2. QED
    BY <2>1
<1>3. n - c >= Cooldown
  BY <1>1, <1>2 DEF Reentry
<1>4. r <= c
  BY DEF SettledOK, Tradable
<1>5. n - r <= QuoteLife
  BY DEF Tradable, Fresh
<1>6. n \in Int /\ r \in Int /\ c \in Int /\ Cooldown \in Int /\ QuoteLife \in Int
      /\ QuoteLife < Cooldown
  BY Rows, Policy DEF TypeOK, WorkerRecord, Quotes, Times, PositionRecord
<1> HIDE DEF n, r, c
<1>7. QED
  BY <1>3, <1>4, <1>5, <1>6

LEMMA PlacedRow ==
    ASSUME TypeOK, NEW w \in Workers, NEW m \in Markets, NEW side \in {"BUY", "SELL"},
           NEW quantity \in 0..MaxQuantity, NEW budget \in Nat, Fresh(w, m),
           worker[w].now + OrderLife <= MaxTime, Placed(w, m, side, quantity, budget)
    PROVE  /\ order' \in [Markets -> OrderRecord]
           /\ \A k \in Markets : k # m => order'[k] = order[k]
           /\ order'[m].status = "PENDING" /\ order'[m].side = side
           /\ order'[m].budget = budget /\ order'[m].used = Never
           /\ order'[m].seen < order'[m].eligible
<1> DEFINE n == worker[w].now
           r == worker[w].quotes[m].received
           row == [status |-> "PENDING", side |-> side, quantity |-> quantity,
                   budget |-> budget, eligible |-> n + Latency, expires |-> n + OrderLife,
                   seen |-> r, used |-> Never]
<1>1. order' = [order EXCEPT ![m] = row]
  BY DEF Placed
<1>2. n \in Times /\ r \in Times \cup {Never}
  BY DEF TypeOK, WorkerRecord, Quotes
<1>3. r <= n /\ n + OrderLife <= MaxTime
  BY DEF Fresh
<1> HIDE DEF n, r
<1>4. n + Latency \in Times /\ n + OrderLife \in Times /\ r < n + Latency
  BY <1>2, <1>3, Policy DEF Times
<1>5. row \in OrderRecord
  BY <1>2, <1>4 DEF OrderRecord
<1>6. row.status = "PENDING" /\ row.side = side /\ row.budget = budget /\ row.used = Never
      /\ row.seen = r /\ row.eligible = n + Latency
  OBVIOUS
<1> HIDE DEF row
<1>7. order'[m] = row /\ order' \in [Markets -> OrderRecord]
      /\ \A k \in Markets : k # m => order'[k] = order[k]
  BY <1>1, <1>5, Rows
<1>8. QED
  BY <1>4, <1>6, <1>7

\* A decision places no order, or one within the limit of the event.
LEMMA DecideOK ==
    ASSUME TypeOK, BooksOK(account, position, order), SettledOK(position, feed, worker),
           NEW w \in Workers, NEW m \in Markets, Decide(w, m)
    PROVE  /\ order' \in [Markets -> OrderRecord]
           /\ BooksOK(account', position', order')
           /\ \A k \in Markets : k # m => order'[k] = order[k]
           /\ order'[m] # order[m] =>
                /\ order'[m].status = "PENDING" /\ order'[m].used = Never
                /\ ~position[m].settled
<1>0. UNCHANGED <<account, position>>
  BY DEF Decide
<1>1. CASE UNCHANGED order
  BY <1>0, <1>1, Rows
<1>2. CASE /\ m \notin Pending /\ Tradable(w, m) /\ worker[w].now + OrderLife <= MaxTime
           /\ m \in Held /\ ~BuyHold /\ Placed(w, m, "SELL", position[m].quantity, 0)
  <2>1. position[m].quantity \in 0..MaxQuantity
    BY Rows DEF PositionRecord
  <2>2. ~position[m].settled
    BY <1>2, NotReentered DEF BooksOK
  <2>3. Fresh(w, m)
    BY <1>2 DEF Tradable
  <2>4. /\ order' \in [Markets -> OrderRecord]
        /\ \A k \in Markets : k # m => order'[k] = order[k]
        /\ order'[m].status = "PENDING" /\ order'[m].side = "SELL"
        /\ order'[m].used = Never /\ order'[m].seen < order'[m].eligible
    BY <1>2, <2>1, <2>3, PlacedRow
  <2>5. RowOK(position'[m], order'[m])
    BY <1>0, <2>2, <2>4 DEF BooksOK, RowsOK, RowOK
  <2>6. RowChange(m, account, account', position, position', order, order')
    BY <1>0, <2>4, <2>5, Rows DEF RowChange, BooksOK, Balanced
  <2>7. Bound(order'[m]) = 0 /\ Bound(order[m]) \in Nat /\ position[m].cost \in Nat
    BY <2>4, Rows, LoadType DEF Bound
  <2>8. position'[m].cost + Bound(order'[m]) <= position[m].cost + Bound(order[m])
    BY <1>0, <2>7
  <2>9. QED
    BY <2>2, <2>4, <2>6, <2>8, OneRowWithin
<1>3. ASSUME m \notin Pending, Tradable(w, m), worker[w].now + OrderLife <= MaxTime,
             m \notin Held, Reentry(w, m), Budget > 0,
             NEW q \in 1..MaxQuantity, Placed(w, m, "BUY", q, Budget)
      PROVE  /\ order' \in [Markets -> OrderRecord]
             /\ BooksOK(account', position', order')
             /\ \A k \in Markets : k # m => order'[k] = order[k]
             /\ order'[m].status = "PENDING" /\ order'[m].used = Never
             /\ ~position[m].settled
  <2>1. q \in 0..MaxQuantity
    BY Policy
  <2>2. ~position[m].settled
    BY <1>3, NotReentered DEF BooksOK
  <2>3. Fresh(w, m)
    BY <1>3 DEF Tradable
  <2> DEFINE S == SumFunctionOnSet(Load(position, order), Markets)
             T == SumFunctionOnSet(Load(position', order'), Markets)
             B == Budget
  <2>4. EventCost \in Nat /\ Reserved \in Nat /\ EventCost + Reserved = S
    BY LoadSplit DEF BooksOK
  <2>5. account.cash \in Nat
    BY Rows DEF AccountRecord
  <2>6. B \in Nat /\ B <= EventBudget - EventCost - Reserved
    BY <1>3, <2>4, <2>5, Policy DEF Budget, Smaller
  <2> HIDE DEF B, S
  <2>7. /\ order' \in [Markets -> OrderRecord]
        /\ \A k \in Markets : k # m => order'[k] = order[k]
        /\ order'[m].status = "PENDING" /\ order'[m].side = "BUY"
        /\ order'[m].budget = B
        /\ order'[m].used = Never /\ order'[m].seen < order'[m].eligible
    BY <1>3, <2>1, <2>3, <2>6, PlacedRow DEF B
  <2>8. position[m].quantity = 0 /\ position[m].cost = 0
    <3>1. position[m].quantity \in Nat
      BY Rows, Policy DEF PositionRecord
    <3>2. position[m].quantity = 0
      BY <1>3, <3>1 DEF Held
    <3>3. QED
      BY <3>2 DEF BooksOK, RowsOK, RowOK
  <2>9. RowOK(position'[m], order'[m])
    BY <1>0, <2>2, <2>7, <2>8 DEF RowOK
  <2>10. RowChange(m, account, account', position, position', order, order')
    BY <1>0, <2>7, <2>9, Rows DEF RowChange, BooksOK, Balanced
  <2>11. /\ Balanced(account', position') /\ RowsOK(position', order')
         /\ T = (S - (position[m].cost + Bound(order[m])))
                  + (position'[m].cost + Bound(order'[m]))
    BY <2>10, OneRow DEF S
  <2>12. Bound(order[m]) = 0 /\ Bound(order'[m]) = B
    BY <1>3, <2>7 DEF Bound, Pending
  <2>13. position'[m].cost = 0
    BY <1>0, <2>8
  <2> HIDE DEF T
  <2>14. T <= EventBudget
    BY <2>4, <2>6, <2>8, <2>11, <2>12, <2>13, Policy
  <2>15. BooksOK(account', position', order')
    BY <2>11, <2>14 DEF BooksOK, Within, T
  <2>16. QED
    BY <2>2, <2>7, <2>15
<1>4. QED
  BY <1>1, <1>2, <1>3 DEF Decide


\* The body of the loop over the orders.
LEMMA ExecuteOK ==
    ASSUME TypeOK, BooksOK(account, position, order), NEW w \in Workers, NEW m \in Markets,
           order[m].status = "PENDING", Execute(w, m)
    PROVE  /\ account' \in AccountRecord /\ position' \in [Markets -> PositionRecord]
           /\ order' \in [Markets -> OrderRecord]
           /\ BooksOK(account', position', order')
           /\ \A k \in Markets : k # m => position'[k] = position[k] /\ order'[k] = order[k]
           /\ ~position[m].settled /\ ~position'[m].settled
<1>0. ~position[m].settled
  BY DEF BooksOK, RowsOK, RowOK
<1>1. CASE Closed(m, "CANCELLED") \/ Closed(m, "EXPIRED")
  <2>1. UNCHANGED <<account, position>>
    BY <1>1 DEF Closed
  <2>2. PICK s \in {"EXPIRED", "CANCELLED"} : Closed(m, s)
    BY <1>1
  <2>3. QED
    BY <1>0, <2>1, <2>2, ClosedOK, Rows
<1>2. CASE UNCHANGED books
  BY <1>0, <1>2, Rows DEF books
<1>3. CASE Eligible(w, m) /\ Bought(w, m)
  <2>1. PICK n : Filled(w, m, n)
    BY <1>3 DEF Bought
  <2>2. order' \in [Markets -> OrderRecord] /\ \A k \in Markets : k # m => order'[k] = order[k]
    BY <1>3, <2>1, FilledRow
  <2>3. QED
    BY <1>0, <1>3, <2>2, BoughtOK
<1>4. CASE Eligible(w, m) /\ Sold(w, m)
  <2>1. PICK n : Filled(w, m, n)
    BY <1>4 DEF Sold
  <2>2. order' \in [Markets -> OrderRecord] /\ \A k \in Markets : k # m => order'[k] = order[k]
    BY <1>4, <2>1, FilledRow
  <2>3. QED
    BY <1>0, <1>4, <2>2, SoldOK
<1>5. CASE Eligible(w, m) /\ Filled(w, m, 0) /\ UNCHANGED <<account, position>>
  <2>1. order' \in [Markets -> OrderRecord] /\ \A k \in Markets : k # m => order'[k] = order[k]
    BY <1>5, FilledRow
  <2>2. BooksOK(account', position', order')
    BY <1>5, UnfilledOK
  <2>3. QED
    BY <1>0, <1>5, <2>1, <2>2, Rows
<1>6. QED
  BY <1>1, <1>2, <1>3, <1>4, <1>5 DEF Execute

----------------------------------------------------------------------------
(* The steps of the workers                                                *)

\* What a step of the worker w leaves of the workers.
Moves(w, pc, todo, quotes) ==
    /\ worker' \in [Workers -> WorkerRecord]
    /\ \A v \in Workers : v # w => worker'[v] = worker[v]
    /\ worker'[w].pc = pc /\ worker'[w].todo = todo /\ worker'[w].quotes = quotes

NoQuotes == [m \in Markets |-> NoQuote]

LEMMA Moved ==
    ASSUME TypeOK, NEW w \in Workers, NEW r \in WorkerRecord,
           worker' = [worker EXCEPT ![w] = r]
    PROVE  /\ worker' \in [Workers -> WorkerRecord] /\ worker'[w] = r
           /\ \A v \in Workers : v # w => worker'[v] = worker[v]
  BY DEF TypeOK

LEMMA IdleType == /\ IdleWorker \in WorkerRecord /\ IdleWorker.pc = "idle"
                  /\ IdleWorker.todo = {} /\ IdleWorker.quotes = NoQuotes
<1>1. NoQuote \in Quotes /\ 0 \in Times
  BY Policy DEF NoQuote, Quotes, Times
<1>2. QED
  BY <1>1 DEF IdleWorker, WorkerRecord, NoQuotes

LEMMA WorkerSteps ==
    ASSUME TypeOK, NEW w \in Workers
    PROVE  /\ Fetch(w) => Moves(w, "fetched", worker[w].todo, feed)
           /\ ReadClock(w) => Moves(w, "timed", worker[w].todo, worker[w].quotes)
           /\ Begin(w) /\ lock = Free => Moves(w, "settle", worker[w].todo, worker[w].quotes)
           /\ Begin(w) /\ lock # Free => Moves(w, "idle", {}, NoQuotes)
           /\ Settle(w) /\ running =>
                Moves(w, "execute", {m \in Markets : order'[m].status = "PENDING"},
                      worker[w].quotes)
           /\ Settle(w) /\ ~running => Moves(w, "decide", {}, worker[w].quotes)
           /\ \A m \in Markets :
                /\ Execute(w, m) => Moves(w, "execute", worker[w].todo \ {m}, worker[w].quotes)
                /\ Decide(w, m) => Moves(w, "decide", worker[w].todo \ {m}, worker[w].quotes)
           /\ ToDecide(w) => Moves(w, "decide", Markets, worker[w].quotes)
           /\ Commit(w) \/ Rollback(w) => Moves(w, "idle", {}, NoQuotes)
<1>1. worker[w] \in WorkerRecord /\ feed \in [Markets -> Quotes] /\ clock \in Times
  BY DEF TypeOK
<1>2. ASSUME NEW r \in WorkerRecord, worker' = [worker EXCEPT ![w] = r]
      PROVE  Moves(w, r.pc, r.todo, r.quotes)
  BY <1>2, Moved DEF Moves
<1>3. ASSUME Fetch(w) PROVE Moves(w, "fetched", worker[w].todo, feed)
  <2> DEFINE r == [worker[w] EXCEPT !.pc = "fetched", !.quotes = feed]
  <2>1. worker' = [worker EXCEPT ![w] = r]
    BY <1>3 DEF Fetch
  <2>2. r \in WorkerRecord /\ r.pc = "fetched" /\ r.todo = worker[w].todo /\ r.quotes = feed
    BY <1>1 DEF WorkerRecord
  <2> HIDE DEF r
  <2>3. QED
    BY <1>2, <2>1, <2>2
<1>4. ASSUME ReadClock(w) PROVE Moves(w, "timed", worker[w].todo, worker[w].quotes)
  <2> DEFINE r == [worker[w] EXCEPT !.pc = "timed", !.now = clock]
  <2>1. worker' = [worker EXCEPT ![w] = r]
    BY <1>4 DEF ReadClock
  <2>2. r \in WorkerRecord /\ r.pc = "timed" /\ r.todo = worker[w].todo
        /\ r.quotes = worker[w].quotes
    BY <1>1 DEF WorkerRecord
  <2> HIDE DEF r
  <2>3. QED
    BY <1>2, <2>1, <2>2
<1>5. ASSUME Begin(w), lock = Free
      PROVE  Moves(w, "settle", worker[w].todo, worker[w].quotes)
  <2> DEFINE r == [worker[w] EXCEPT !.pc = "settle"]
  <2>1. worker' = [worker EXCEPT ![w] = r]
    BY <1>5 DEF Begin
  <2>2. r \in WorkerRecord /\ r.pc = "settle" /\ r.todo = worker[w].todo
        /\ r.quotes = worker[w].quotes
    BY <1>1 DEF WorkerRecord
  <2> HIDE DEF r
  <2>3. QED
    BY <1>2, <2>1, <2>2
<1>6. ASSUME (Begin(w) /\ lock # Free) \/ Commit(w) \/ Rollback(w)
      PROVE  Moves(w, "idle", {}, NoQuotes)
  <2>1. worker' = [worker EXCEPT ![w] = IdleWorker]
    BY <1>6 DEF Begin, Commit, Rollback
  <2>2. QED
    BY <1>2, <2>1, IdleType
<1>7. ASSUME Settle(w), running
      PROVE  Moves(w, "execute", {m \in Markets : order'[m].status = "PENDING"},
                   worker[w].quotes)
  <2> DEFINE t == {m \in Markets : order'[m].status = "PENDING"}
             r == [worker[w] EXCEPT !.pc = "execute", !.todo = t]
  <2>1. worker' = [worker EXCEPT ![w] = r]
    BY <1>7 DEF Settle
  <2>2. t \in SUBSET Markets
    OBVIOUS
  <2> HIDE DEF t
  <2>3. r \in WorkerRecord /\ r.pc = "execute" /\ r.todo = t /\ r.quotes = worker[w].quotes
    BY <1>1, <2>2 DEF WorkerRecord
  <2> HIDE DEF r
  <2>4. Moves(w, "execute", t, worker[w].quotes)
    BY <1>2, <2>1, <2>3
  <2>5. QED
    BY <2>4 DEF t
<1>8. ASSUME NEW m \in Markets, Execute(w, m)
      PROVE  Moves(w, "execute", worker[w].todo \ {m}, worker[w].quotes)
  <2> DEFINE r == [worker[w] EXCEPT !.todo = worker[w].todo \ {m}]
  <2>1. worker' = [worker EXCEPT ![w] = r] /\ worker[w].pc = "execute"
    BY <1>8 DEF Execute
  <2>2. r \in WorkerRecord /\ r.pc = worker[w].pc /\ r.todo = worker[w].todo \ {m}
        /\ r.quotes = worker[w].quotes
    BY <1>1 DEF WorkerRecord
  <2> HIDE DEF r
  <2>3. QED
    BY <1>2, <2>1, <2>2
<1>9. ASSUME NEW m \in Markets, Decide(w, m)
      PROVE  Moves(w, "decide", worker[w].todo \ {m}, worker[w].quotes)
  <2> DEFINE r == [worker[w] EXCEPT !.todo = worker[w].todo \ {m}]
  <2>1. worker' = [worker EXCEPT ![w] = r] /\ worker[w].pc = "decide"
    BY <1>9 DEF Decide
  <2>2. r \in WorkerRecord /\ r.pc = worker[w].pc /\ r.todo = worker[w].todo \ {m}
        /\ r.quotes = worker[w].quotes
    BY <1>1 DEF WorkerRecord
  <2> HIDE DEF r
  <2>3. QED
    BY <1>2, <2>1, <2>2
<1>10. ASSUME ToDecide(w) PROVE Moves(w, "decide", Markets, worker[w].quotes)
  <2> DEFINE r == [worker[w] EXCEPT !.pc = "decide", !.todo = Markets]
  <2>1. worker' = [worker EXCEPT ![w] = r]
    BY <1>10 DEF ToDecide
  <2>2. r \in WorkerRecord /\ r.pc = "decide" /\ r.todo = Markets
        /\ r.quotes = worker[w].quotes
    BY <1>1 DEF WorkerRecord
  <2> HIDE DEF r
  <2>3. QED
    BY <1>2, <2>1, <2>2
<1>11. ASSUME Settle(w), ~running PROVE Moves(w, "decide", {}, worker[w].quotes)
  <2> DEFINE r == [worker[w] EXCEPT !.pc = "decide", !.todo = {}]
  <2>1. worker' = [worker EXCEPT ![w] = r]
    BY <1>11 DEF Settle
  <2>2. r \in WorkerRecord /\ r.pc = "decide" /\ r.todo = {} /\ r.quotes = worker[w].quotes
    BY <1>1 DEF WorkerRecord
  <2> HIDE DEF r
  <2>3. QED
    BY <1>2, <2>1, <2>2
<1>12. QED
  BY <1>3, <1>4, <1>5, <1>6, <1>7, <1>8, <1>9, <1>10, <1>11


----------------------------------------------------------------------------
(* The invariant is inductive                                              *)

\* The orders a transaction works on are pending.
LEMMA TodoPending ==
    ASSUME Inv, NEW w \in Workers, NEW m \in Markets, Execute(w, m)
    PROVE  order[m].status = "PENDING"
  BY DEF Inv, TransactionOK, Execute, Pending

LEMMA TypeStep == ASSUME Inv, [Next]_vars PROVE TypeOK'
<1>0. /\ TypeOK /\ account \in AccountRecord /\ position \in [Markets -> PositionRecord]
      /\ order \in [Markets -> OrderRecord] /\ saved \in Books
  BY Rows DEF Inv, TypeOK
<1>1. CASE UNCHANGED vars
  BY <1>0, <1>1 DEF vars, TypeOK, books
<1>2. ASSUME NEW w \in Workers, Fetch(w) \/ ReadClock(w) \/ ToDecide(w) PROVE TypeOK'
  <2>1. worker' \in [Workers -> WorkerRecord]
    BY <1>0, <1>2, WorkerSteps DEF Moves
  <2>2. UNCHANGED <<books, lock, saved, world>>
    BY <1>2 DEF Fetch, ReadClock, ToDecide
  <2>3. QED
    BY <1>0, <2>1, <2>2 DEF TypeOK, world
<1>3. ASSUME NEW w \in Workers, Begin(w) PROVE TypeOK'
  <2>1. worker' \in [Workers -> WorkerRecord]
    BY <1>0, <1>3, WorkerSteps DEF Moves
  <2>2. QED
    BY <1>0, <1>3, <2>1 DEF TypeOK, world, Begin
<1>4. ASSUME NEW w \in Workers, Settle(w) PROVE TypeOK'
  <2>1. worker' \in [Workers -> WorkerRecord]
    BY <1>0, <1>4, WorkerSteps DEF Moves, TypeOK
  <2>2. books' \in Books
    BY <1>0, <1>4, SettleRows, BooksType DEF books
  <2>3. QED
    BY <1>0, <1>4, <2>1, <2>2 DEF TypeOK, world, Settle
<1>5. ASSUME NEW w \in Workers, NEW m \in Markets, Execute(w, m) PROVE TypeOK'
  <2>1. worker' \in [Workers -> WorkerRecord]
    BY <1>0, <1>5, WorkerSteps DEF Moves
  <2>2. books' \in Books
    BY <1>0, <1>5, TodoPending, ExecuteOK, BooksType DEF books, Inv
  <2>3. QED
    BY <1>0, <1>5, <2>1, <2>2 DEF TypeOK, world, Execute
<1>6. ASSUME NEW w \in Workers, NEW m \in Markets, Decide(w, m) PROVE TypeOK'
  <2>1. worker' \in [Workers -> WorkerRecord]
    BY <1>0, <1>6, WorkerSteps DEF Moves
  <2>2. UNCHANGED <<account, position, lock, saved, world>>
    BY <1>6 DEF Decide
  <2>3. books' \in Books
    BY <1>0, <1>6, <2>2, DecideOK, BooksType DEF books, Inv
  <2>4. QED
    BY <1>0, <2>1, <2>2, <2>3 DEF TypeOK, world
<1>7. ASSUME NEW w \in Workers, Commit(w) PROVE TypeOK'
  <2>1. worker' \in [Workers -> WorkerRecord]
    BY <1>0, <1>7, WorkerSteps DEF Moves
  <2>2. QED
    BY <1>0, <1>7, <2>1 DEF TypeOK, world, Commit
<1>8. ASSUME NEW w \in Workers, Rollback(w) PROVE TypeOK'
  <2>1. worker' \in [Workers -> WorkerRecord]
    BY <1>0, <1>8, WorkerSteps DEF Moves
  <2>2. books' = saved
    BY <1>0, <1>8, Rows DEF Rollback, books
  <2>3. QED
    BY <1>0, <1>8, <2>1, <2>2 DEF TypeOK, world, Rollback
<1>9. ASSUME NEW b \in BOOLEAN, SetRunning(b) PROVE TypeOK'
  <2>1. order' \in [Markets -> OrderRecord] /\ UNCHANGED <<account, position>>
    BY <1>0, <1>9, CancelledType DEF SetRunning
  <2>2. books' \in Books /\ saved' \in Books
    BY <1>0, <1>9, <2>1, BooksType DEF books, SetRunning
  <2>3. QED
    BY <1>0, <1>9, <2>2 DEF TypeOK, SetRunning
<1>10. ASSUME NEW m \in Markets, NEW s \in {"OPEN", "RESOLVED"}, NEW p \in Payouts \cup {0},
              Record(m, s, p)
       PROVE  TypeOK'
  <2>1. [received |-> clock, status |-> s, payout |-> p] \in Quotes
    BY <1>0, Policy DEF TypeOK, Quotes
  <2>2. feed' \in [Markets -> Quotes]
    BY <1>0, <1>10, <2>1 DEF TypeOK, Record
  <2>3. QED
    BY <1>0, <1>10, <2>2 DEF TypeOK, Record
<1>11. ASSUME Tick PROVE TypeOK'
  <2>1. clock' \in Times
    BY <1>0, <1>11, Policy DEF TypeOK, Times, Tick
  <2>2. QED
    BY <1>0, <1>11, <2>1 DEF TypeOK, Tick
<1>12. QED
  BY <1>1, <1>2, <1>3, <1>4, <1>5, <1>6, <1>7, <1>8, <1>9, <1>10, <1>11 DEF Next, WorkerStep

\* The books balance and keep the limit, in the transaction and outside.
LEMMA BooksStep ==
    ASSUME Inv, [Next]_vars
    PROVE  /\ BooksOK(account', position', order')
           /\ BooksOK(saved'[1], saved'[2], saved'[3])
<1>0. /\ TypeOK /\ BooksOK(account, position, order)
      /\ BooksOK(saved[1], saved[2], saved[3])
  BY DEF Inv
<1>1. CASE UNCHANGED <<books, saved>>
  BY <1>0, <1>1 DEF books
<1>2. ASSUME NEW w \in Workers, Begin(w) \/ Commit(w)
      PROVE  /\ BooksOK(account', position', order')
             /\ BooksOK(saved'[1], saved'[2], saved'[3])
  <2>1. UNCHANGED <<account, position, order>> /\ (saved' = saved \/ saved' = books)
    BY <1>2 DEF Begin, Commit, books
  <2>2. QED
    BY <1>0, <2>1 DEF books
<1>3. ASSUME NEW w \in Workers, Settle(w)
      PROVE  BooksOK(account', position', order') /\ UNCHANGED saved
  BY <1>0, <1>3, SettleOK DEF Settle
<1>4. ASSUME NEW w \in Workers, NEW m \in Markets, Execute(w, m)
      PROVE  BooksOK(account', position', order') /\ UNCHANGED saved
  BY <1>0, <1>4, TodoPending, ExecuteOK DEF Execute
<1>5. ASSUME NEW w \in Workers, NEW m \in Markets, Decide(w, m)
      PROVE  BooksOK(account', position', order') /\ UNCHANGED saved
  BY <1>0, <1>5, DecideOK DEF Decide, Inv
<1>6. ASSUME NEW w \in Workers, Rollback(w)
      PROVE  BooksOK(account', position', order') /\ UNCHANGED saved
  BY <1>0, <1>6 DEF Rollback
<1>7. ASSUME NEW b \in BOOLEAN, SetRunning(b)
      PROVE  /\ BooksOK(account', position', order')
             /\ BooksOK(saved'[1], saved'[2], saved'[3])
  <2>1. UNCHANGED <<account, position>> /\ (order' = order \/ order' = CancelledIn(Markets))
        /\ saved' = <<account, position, order'>>
    BY <1>7 DEF SetRunning
  <2>2. BooksOK(account, position, CancelledIn(Markets))
    BY <1>0, CancelledOK
  <2>3. QED
    BY <1>0, <2>1, <2>2
<1>8. ASSUME NEW w \in Workers, Fetch(w) \/ ReadClock(w) \/ ToDecide(w)
      PROVE  UNCHANGED <<books, saved>>
  BY <1>8 DEF Fetch, ReadClock, ToDecide
<1>9. ASSUME Tick \/ \E m \in Markets, s \in {"OPEN", "RESOLVED"}, p \in Payouts \cup {0} :
               Record(m, s, p)
      PROVE  UNCHANGED <<books, saved>>
  BY <1>9 DEF Tick, Record
<1>10. CASE UNCHANGED vars
  BY <1>1, <1>10 DEF vars, books
<1>11. QED
  BY <1>0, <1>1, <1>2, <1>3, <1>4, <1>5, <1>6, <1>7, <1>8, <1>9, <1>10 DEF Next, WorkerStep


\* The lock is held in a transaction.
InTransaction == {"settle", "execute", "decide"}

LEMMA LockStep == ASSUME Inv, [Next]_vars PROVE LockOK'
<1>0. /\ TypeOK /\ \A w \in Workers : lock = w <=> worker[w].pc \in InTransaction
      /\ lock = Free => saved = books
      /\ Free \notin Workers
  BY FreeAssumption DEF Inv, LockOK, InTransaction
<1>1. SUFFICES /\ \A w \in Workers : lock' = w <=> worker'[w].pc \in InTransaction
               /\ lock' = Free => saved' = books'
  BY DEF LockOK, InTransaction
<1>2. CASE UNCHANGED <<books, lock, saved, worker>>
  BY <1>0, <1>2
<1>3. ASSUME NEW w \in Workers, Fetch(w) \/ ReadClock(w) \/ ToDecide(w)
      PROVE  /\ UNCHANGED <<books, lock, saved>>
             /\ \A v \in Workers : worker'[v].pc \in InTransaction <=>
                                     worker[v].pc \in InTransaction
  <2>1. UNCHANGED <<books, lock, saved>>
    BY <1>3 DEF Fetch, ReadClock, ToDecide
  <2>2. \A v \in Workers : v # w => worker'[v] = worker[v]
    BY <1>0, <1>3, WorkerSteps DEF Moves
  <2>3. worker'[w].pc \in InTransaction <=> worker[w].pc \in InTransaction
    BY <1>0, <1>3, WorkerSteps DEF Moves, InTransaction, Fetch, ReadClock, ToDecide
  <2>4. QED
    BY <2>1, <2>2, <2>3
<1>4. ASSUME NEW w \in Workers, Begin(w), lock = Free
      PROVE  /\ lock' = w /\ lock' # Free
             /\ \A v \in Workers : lock' = v <=> worker'[v].pc \in InTransaction
  <2>1. lock' = w /\ \A v \in Workers : v # w => worker'[v] = worker[v]
    BY <1>0, <1>4, WorkerSteps DEF Moves, Begin
  <2>2. worker'[w].pc = "settle"
    BY <1>0, <1>4, WorkerSteps DEF Moves
  <2>3. QED
    BY <1>0, <1>4, <2>1, <2>2 DEF InTransaction
<1>5. ASSUME NEW w \in Workers, Begin(w), lock # Free
      PROVE  /\ UNCHANGED <<books, lock, saved>>
             /\ \A v \in Workers : lock' = v <=> worker'[v].pc \in InTransaction
  <2>1. UNCHANGED <<books, lock, saved>> /\ worker[w].pc = "timed"
    BY <1>5 DEF Begin
  <2>2. worker'[w].pc = "idle" /\ \A v \in Workers : v # w => worker'[v] = worker[v]
    BY <1>0, <1>5, WorkerSteps DEF Moves
  <2>3. QED
    BY <1>0, <2>1, <2>2 DEF InTransaction
<1>6. ASSUME NEW w \in Workers, \/ Settle(w)
                               \/ \E m \in Markets : Execute(w, m) \/ Decide(w, m)
      PROVE  /\ lock' # Free /\ \A v \in Workers : lock' = v <=> worker'[v].pc \in InTransaction
  <2>1. UNCHANGED lock /\ worker[w].pc \in InTransaction
    BY <1>6 DEF Settle, Execute, Decide, InTransaction
  <2>2. worker'[w].pc \in InTransaction /\ \A v \in Workers : v # w => worker'[v] = worker[v]
    <3>1. CASE Settle(w)
      BY <1>0, <3>1, WorkerSteps DEF Moves, InTransaction, TypeOK
    <3>2. CASE \E m \in Markets : Execute(w, m) \/ Decide(w, m)
      BY <1>0, <3>2, WorkerSteps DEF Moves, InTransaction
    <3>3. QED
      BY <1>6, <3>1, <3>2
  <2>3. lock = w /\ w # Free
    BY <1>0, <2>1
  <2>4. QED
    BY <1>0, <2>1, <2>2, <2>3
<1>7. ASSUME NEW w \in Workers, Commit(w) \/ Rollback(w)
      PROVE  /\ lock' = Free /\ saved' = books'
             /\ \A v \in Workers : lock' = v <=> worker'[v].pc \in InTransaction
  <2>1. lock' = Free
    BY <1>7 DEF Commit, Rollback
  <2>2. worker[w].pc \in InTransaction
    BY <1>0, <1>7 DEF Commit, Rollback, InTransaction
  <2>3. lock = w
    BY <1>0, <2>2
  <2>4. worker'[w].pc = "idle" /\ \A v \in Workers : v # w => worker'[v] = worker[v]
    BY <1>0, <1>7, WorkerSteps DEF Moves
  <2>5. saved' = books'
    <3>1. CASE Commit(w)
      BY <3>1 DEF Commit, books
    <3>2. CASE Rollback(w)
      BY <1>0, <3>2, Rows DEF Rollback, books
    <3>3. QED
      BY <1>7, <3>1, <3>2
  <2>6. QED
    BY <1>0, <2>1, <2>3, <2>4, <2>5 DEF InTransaction
<1>8. ASSUME NEW b \in BOOLEAN, SetRunning(b)
      PROVE  saved' = books' /\ UNCHANGED <<lock, worker>>
  BY <1>8 DEF SetRunning, books
<1>9. ASSUME Tick \/ \E m \in Markets, s \in {"OPEN", "RESOLVED"}, p \in Payouts \cup {0} :
               Record(m, s, p)
      PROVE  UNCHANGED <<books, lock, saved, worker>>
  BY <1>9 DEF Tick, Record
<1>10. CASE UNCHANGED vars
  BY <1>2, <1>10 DEF vars, books
<1>11. QED
  BY <1>0, <1>2, <1>3, <1>4, <1>5, <1>6, <1>7, <1>8, <1>9, <1>10 DEF Next, WorkerStep

\* What a step may do to the quotes.
Shift ==
    \/ /\ UNCHANGED <<feed, clock>>
       /\ \E w \in Workers :
            /\ \A v \in Workers : v # w => worker'[v] = worker[v]
            /\ worker'[w].quotes \in {worker[w].quotes, feed, NoQuotes}
    \/ UNCHANGED <<feed, worker>> /\ clock' \in Times /\ clock <= clock'
    \/ /\ UNCHANGED <<worker, clock>>
       /\ \E m \in Markets, s \in {"OPEN", "RESOLVED"}, p \in Payouts \cup {0} : Record(m, s, p)

LEMMA Shifts == ASSUME TypeOK, [Next]_vars PROVE Shift
<1>1. ASSUME NEW w \in Workers, WorkerStep(w) PROVE Shift
  <2>1. UNCHANGED <<feed, clock>>
    BY <1>1 DEF WorkerStep, Fetch, ReadClock, Begin, Settle, Execute, ToDecide, Decide,
                Commit, Rollback, world
  <2>2. /\ \A v \in Workers : v # w => worker'[v] = worker[v]
        /\ worker'[w].quotes \in {worker[w].quotes, feed, NoQuotes}
    <3>1. CASE Fetch(w) \/ ReadClock(w) \/ ToDecide(w) \/ Commit(w) \/ Rollback(w)
      BY <3>1, WorkerSteps DEF Moves
    <3>2. CASE Begin(w)
      BY <3>2, WorkerSteps DEF Moves
    <3>3. CASE Settle(w)
      BY <3>3, WorkerSteps DEF Moves, TypeOK
    <3>4. CASE \E m \in Markets : Execute(w, m) \/ Decide(w, m)
      BY <3>4, WorkerSteps DEF Moves
    <3>5. QED
      BY <1>1, <3>1, <3>2, <3>3, <3>4 DEF WorkerStep
  <2>3. QED
    BY <2>1, <2>2 DEF Shift
<1>2. ASSUME Tick PROVE Shift
  BY <1>2, Policy DEF Tick, Shift, TypeOK, Times
<1>3. ASSUME NEW b \in BOOLEAN, SetRunning(b) PROVE Shift
  BY <1>3, Policy DEF SetRunning, Shift, TypeOK, Times
<1>4. ASSUME NEW m \in Markets, NEW s \in {"OPEN", "RESOLVED"}, NEW p \in Payouts \cup {0},
             Record(m, s, p)
      PROVE  Shift
  <2>1. UNCHANGED <<worker, clock>>
    BY <1>4 DEF Record
  <2>2. QED
    BY <1>4, <2>1 DEF Shift
<1>5. ASSUME UNCHANGED vars PROVE Shift
  BY <1>5, Policy DEF vars, Shift, TypeOK, Times
<1>6. QED
  BY <1>1, <1>2, <1>3, <1>4, <1>5 DEF Next

\* Of the received quotes and the clock.
LEMMA QuoteTypes ==
    ASSUME TypeOK, NEW m \in Markets
    PROVE  /\ feed[m].received \in Int /\ feed[m].received >= -1
           /\ clock \in Nat
           /\ \A w \in Workers : worker[w].quotes[m].received \in Int
                                   /\ worker[w].quotes[m].received >= -1
           /\ NoQuotes[m].received = -1 /\ NoQuotes[m].status = "UNKNOWN"
  BY Policy DEF TypeOK, WorkerRecord, Quotes, Times, NoQuotes, NoQuote

LEMMA QuotesStep == ASSUME TypeOK, QuotesOK, Shift PROVE QuotesOK'
<1> SUFFICES ASSUME NEW m \in Markets
             PROVE  /\ feed'[m].received <= clock'
                    /\ \A w \in Workers :
                         LET q == worker'[w].quotes[m] IN
                         /\ q.received <= clock'
                         /\ feed'[m].status = "RESOLVED" /\ q.status # "RESOLVED" =>
                              q.received <= feed'[m].received
                         /\ q.status = "RESOLVED" =>
                              /\ feed'[m].status = "RESOLVED"
                              /\ \A v \in Workers : worker'[v].quotes[m].status # "RESOLVED" =>
                                   worker'[v].quotes[m].received <= q.received
  BY DEF QuotesOK
<1> DEFINE Received(w) == worker[w].quotes[m].received
           Resolved(w) == worker[w].quotes[m].status = "RESOLVED"
<1>0. /\ feed[m].received <= clock
      /\ \A w \in Workers :
           /\ Received(w) <= clock
           /\ feed[m].status = "RESOLVED" /\ ~Resolved(w) => Received(w) <= feed[m].received
           /\ Resolved(w) => /\ feed[m].status = "RESOLVED"
                             /\ \A v \in Workers : ~Resolved(v) => Received(v) <= Received(w)
  BY DEF QuotesOK
<1>1. CASE UNCHANGED <<feed, worker>> /\ clock' \in Times /\ clock <= clock'
  <2>1. clock' \in Int
    BY <1>1, Policy DEF Times
  <2>2. QED
    BY <1>0, <1>1, <2>1, QuoteTypes
<1>2. ASSUME UNCHANGED <<feed, clock>>, NEW w \in Workers,
             \A v \in Workers : v # w => worker'[v] = worker[v],
             worker'[w].quotes \in {worker[w].quotes, feed, NoQuotes}
      PROVE  /\ feed'[m].received <= clock'
             /\ \A x \in Workers :
                  /\ worker'[x].quotes[m].received <= clock'
                  /\ feed'[m].status = "RESOLVED" /\ worker'[x].quotes[m].status # "RESOLVED" =>
                       worker'[x].quotes[m].received <= feed'[m].received
                  /\ worker'[x].quotes[m].status = "RESOLVED" =>
                       /\ feed'[m].status = "RESOLVED"
                       /\ \A v \in Workers : worker'[v].quotes[m].status # "RESOLVED" =>
                            worker'[v].quotes[m].received <= worker'[x].quotes[m].received
  <2>1. CASE worker'[w].quotes = worker[w].quotes
    <3>1. \A v \in Workers : worker'[v].quotes = worker[v].quotes
      BY <1>2, <2>1
    <3>2. QED
      BY <1>0, <1>2, <3>1
  <2>2. CASE worker'[w].quotes = feed
    BY <1>0, <1>2, <2>2, QuoteTypes
  <2>3. CASE worker'[w].quotes = NoQuotes
    BY <1>0, <1>2, <2>3, QuoteTypes
  <2>4. QED
    BY <1>2, <2>1, <2>2, <2>3
<1>3. ASSUME UNCHANGED <<worker, clock>>, NEW n \in Markets, NEW s \in {"OPEN", "RESOLVED"},
             NEW p \in Payouts \cup {0}, Record(n, s, p)
      PROVE  /\ feed'[m].received <= clock'
             /\ \A x \in Workers :
                  /\ worker'[x].quotes[m].received <= clock'
                  /\ feed'[m].status = "RESOLVED" /\ worker'[x].quotes[m].status # "RESOLVED" =>
                       worker'[x].quotes[m].received <= feed'[m].received
                  /\ worker'[x].quotes[m].status = "RESOLVED" =>
                       /\ feed'[m].status = "RESOLVED"
                       /\ \A v \in Workers : worker'[v].quotes[m].status # "RESOLVED" =>
                            worker'[v].quotes[m].received <= worker'[x].quotes[m].received
  <2>1. CASE m = n
    <3>1. /\ feed'[m].received = clock /\ feed'[m].status = s
          /\ feed[m].status = "RESOLVED" => s = "RESOLVED"
      BY <1>3, <2>1 DEF Record, TypeOK
    <3>2. QED
      BY <1>0, <1>3, <3>1, QuoteTypes
  <2>2. CASE m # n
    <3>1. feed'[m] = feed[m]
      BY <1>3, <2>2 DEF Record, TypeOK
    <3>2. QED
      BY <1>0, <1>3, <3>1
  <2>3. QED
    BY <2>1, <2>2
<1>4. QED
  BY <1>1, <1>2, <1>3 DEF Shift

\* The quotes of the markets that were paid out stay as old.
LEMMA SettledKept ==
    ASSUME TypeOK, NEW p \in [Markets -> PositionRecord], SettledOK(p, feed, worker), Shift
    PROVE  SettledOK(p, feed', worker')
<1> SUFFICES ASSUME NEW m \in Markets, p[m].settled
             PROVE  /\ feed'[m].status = "RESOLVED"
                    /\ \A w \in Workers : worker'[w].quotes[m].status # "RESOLVED" =>
                         worker'[w].quotes[m].received <= p[m].closed
  BY DEF SettledOK
<1>0. /\ feed[m].status = "RESOLVED"
      /\ \A w \in Workers : worker[w].quotes[m].status # "RESOLVED" =>
           worker[w].quotes[m].received <= p[m].closed
  BY DEF SettledOK
<1>1. p[m].closed \in Int /\ p[m].closed >= -1
  BY Policy DEF PositionRecord, Times
<1>2. CASE UNCHANGED <<feed, worker>>
  BY <1>0, <1>2
<1>3. ASSUME UNCHANGED <<feed, clock>>, NEW w \in Workers,
             \A v \in Workers : v # w => worker'[v] = worker[v],
             worker'[w].quotes \in {worker[w].quotes, feed, NoQuotes}
      PROVE  /\ feed'[m].status = "RESOLVED"
             /\ \A v \in Workers : worker'[v].quotes[m].status # "RESOLVED" =>
                  worker'[v].quotes[m].received <= p[m].closed
  <2>1. CASE worker'[w].quotes = worker[w].quotes
    BY <1>0, <1>3, <2>1
  <2>2. CASE worker'[w].quotes = feed
    BY <1>0, <1>3, <2>2
  <2>3. CASE worker'[w].quotes = NoQuotes
    BY <1>0, <1>1, <1>3, <2>3, QuoteTypes
  <2>4. QED
    BY <1>3, <2>1, <2>2, <2>3
<1>4. ASSUME UNCHANGED <<worker, clock>>, NEW n \in Markets, NEW s \in {"OPEN", "RESOLVED"},
             NEW q \in Payouts \cup {0}, Record(n, s, q)
      PROVE  feed'[m].status = "RESOLVED"
  <2>1. CASE m = n
    BY <1>0, <1>4, <2>1 DEF Record, TypeOK
  <2>2. CASE m # n
    BY <1>0, <1>4, <2>2 DEF Record, TypeOK
  <2>3. QED
    BY <2>1, <2>2
<1>5. QED
  BY <1>0, <1>2, <1>3, <1>4 DEF Shift


LEMMA SettledStep ==
    ASSUME Inv, [Next]_vars
    PROVE  SettledOK(position', feed', worker') /\ SettledOK(saved'[2], feed', worker')
<1>0. /\ TypeOK /\ Shift /\ QuotesOK /\ BooksOK(account, position, order)
      /\ position \in [Markets -> PositionRecord] /\ saved[2] \in [Markets -> PositionRecord]
  BY Shifts, Rows DEF Inv
<1>1. SettledOK(position, feed', worker') /\ SettledOK(saved[2], feed', worker')
  BY <1>0, SettledKept DEF Inv
<1>2. ASSUME position' \in {position, saved[2]}, saved'[2] \in {saved[2], position}
      PROVE  SettledOK(position', feed', worker') /\ SettledOK(saved'[2], feed', worker')
  BY <1>1, <1>2
<1>3. ASSUME NEW w \in Workers, Settle(w)
      PROVE  SettledOK(position', feed', worker') /\ UNCHANGED saved
  <2>1. UNCHANGED <<saved, feed>>
    BY <1>3 DEF Settle, world
  <2>2. \A v \in Workers : worker'[v].quotes = worker[v].quotes
    BY <1>0, <1>3, WorkerSteps DEF Moves, TypeOK
  <2> SUFFICES ASSUME NEW m \in Markets, position'[m].settled
               PROVE  /\ feed'[m].status = "RESOLVED"
                      /\ \A v \in Workers : worker'[v].quotes[m].status # "RESOLVED" =>
                           worker'[v].quotes[m].received <= position'[m].closed
    BY <2>1 DEF SettledOK
  <2>3. CASE m \notin Paid(w)
    <3>1. position'[m] = position[m]
      BY <1>0, <1>3, <2>3, SettledRow
    <3>2. QED
      BY <1>1, <3>1 DEF SettledOK
  <2>4. CASE m \in Paid(w)
    <3>1. position'[m].closed = worker[w].now /\ worker[w].quotes[m].status = "RESOLVED"
      <4>1. position'[m] = PaidOut(w, m)
        BY <1>0, <1>3, <2>4, SettledRow
      <4>2. position'[m].closed = worker[w].now
        BY <4>1 DEF PaidOut
      <4>3. worker[w].quotes[m].status = "RESOLVED"
        BY <1>0, <1>3, <2>4, SettledRow
      <4>4. QED
        BY <4>2, <4>3
    <3>2. worker[w].quotes[m].received <= worker[w].now
      BY <1>0, <1>3, <2>4, SettledRow DEF Fresh
    <3>3. /\ feed[m].status = "RESOLVED"
          /\ \A v \in Workers : worker[v].quotes[m].status # "RESOLVED" =>
               worker[v].quotes[m].received <= worker[w].quotes[m].received
      BY <1>0, <3>1 DEF QuotesOK
    <3>4. worker[w].now \in Int
      BY <1>0, Policy DEF TypeOK, WorkerRecord, Times
    <3>5. \A v \in Workers : worker[v].quotes[m].status # "RESOLVED" =>
            worker[v].quotes[m].received <= worker[w].now
      BY <1>0, <3>2, <3>3, <3>4, QuoteTypes
    <3>6. QED
      BY <2>1, <2>2, <3>1, <3>3, <3>5
  <2>5. QED
    BY <2>3, <2>4
<1>4. ASSUME NEW w \in Workers, NEW m \in Markets, Execute(w, m)
      PROVE  SettledOK(position', feed', worker') /\ UNCHANGED saved
  <2>1. UNCHANGED saved
    BY <1>4 DEF Execute
  <2>2. /\ \A k \in Markets : k # m => position'[k] = position[k]
        /\ ~position'[m].settled
    BY <1>0, <1>4, TodoPending, ExecuteOK
  <2>3. QED
    BY <1>1, <2>1, <2>2 DEF SettledOK
<1>5. ASSUME NEW w \in Workers, \/ Fetch(w) \/ ReadClock(w) \/ ToDecide(w) \/ Begin(w)
                               \/ Commit(w) \/ Rollback(w) \/ \E m \in Markets : Decide(w, m)
      PROVE  position' \in {position, saved[2]} /\ saved'[2] \in {saved[2], position}
  BY <1>5 DEF Fetch, ReadClock, ToDecide, Begin, Commit, Rollback, Decide, books
<1>6. ASSUME \/ \E b \in BOOLEAN : SetRunning(b)
             \/ Tick
             \/ \E m \in Markets, s \in {"OPEN", "RESOLVED"}, p \in Payouts \cup {0} :
                  Record(m, s, p)
             \/ UNCHANGED vars
      PROVE  position' \in {position, saved[2]} /\ saved'[2] \in {saved[2], position}
  BY <1>6 DEF SetRunning, Tick, Record, vars, books
<1>7. QED
  BY <1>1, <1>2, <1>3, <1>4, <1>5, <1>6 DEF Next, WorkerStep

LEMMA TransactionStep == ASSUME Inv, [Next]_vars PROVE TransactionOK'
<1>0. /\ TypeOK /\ TransactionOK /\ LockOK /\ BooksOK(account, position, order)
      /\ \A w \in Workers : lock = w <=> worker[w].pc \in InTransaction
      /\ \A w \in Workers : worker[w].pc \in {"settle", "execute"} => lock = w
      /\ Free \notin Workers /\ SettledOK(position, feed, worker)
  BY FreeAssumption DEF Inv, LockOK, InTransaction
<1> DEFINE Fine(w) ==
             /\ worker'[w].pc = "settle" => saved' = books'
             /\ worker'[w].pc = "execute" =>
                  /\ worker'[w].todo \subseteq Pending'
                  /\ \A m \in Markets : Ended(saved'[3][m]) => order'[m] = saved'[3][m]
           Kept(m) ==
             /\ Ended(saved'[3][m]) /\ order'[m] # saved'[3][m] => Replaced(order'[m])
             /\ saved'[2][m].settled => position'[m] = saved'[2][m] /\ order'[m] = saved'[3][m]
<1>1. ASSUME \A w \in Workers : Fine(w), \A m \in Markets : Kept(m) PROVE TransactionOK'
  BY <1>1 DEF TransactionOK
<1>2. ASSUME saved' = books' PROVE \A m \in Markets : Kept(m)
  BY <1>2 DEF books
<1>3. ASSUME UNCHANGED <<books, saved>>
      PROVE  /\ \A m \in Markets : Kept(m)
             /\ \A v \in Workers : \/ worker'[v] = worker[v]
                                   \/ worker'[v].pc \notin {"settle", "execute"}
                                   => Fine(v)
  <2>1. UNCHANGED <<account, position, order, saved>> /\ Pending' = Pending
    BY <1>3 DEF books, Pending
  <2>2. \A m \in Markets : Kept(m)
    BY <1>0, <2>1 DEF TransactionOK
  <2>3. ASSUME NEW v \in Workers, worker'[v] = worker[v] PROVE Fine(v)
    BY <1>0, <2>1, <2>3 DEF TransactionOK, books
  <2>4. QED
    BY <2>2, <2>3
\* Nobody else is in a transaction.
<1>4. ASSUME NEW w \in Workers, lock \in {w, Free},
             \A v \in Workers : v # w => worker'[v] = worker[v]
      PROVE  \A v \in Workers : v # w => Fine(v)
  <2>1. \A v \in Workers : v # w => worker[v].pc \notin {"settle", "execute"}
    BY <1>0, <1>4
  <2>2. QED
    BY <1>4, <2>1
<1>5. ASSUME NEW w \in Workers, \/ Fetch(w) \/ ReadClock(w) \/ ToDecide(w)
                               \/ (Begin(w) /\ lock # Free)
      PROVE  TransactionOK'
  <2>1. UNCHANGED <<books, saved>>
    BY <1>5 DEF Fetch, ReadClock, ToDecide, Begin
  <2>2. /\ worker'[w].pc \notin {"settle", "execute"}
        /\ \A v \in Workers : v # w => worker'[v] = worker[v]
    BY <1>0, <1>5, WorkerSteps DEF Moves
  <2> HIDE DEF Fine, Kept
  <2>3. QED
    BY <1>1, <1>3, <2>1, <2>2
<1>6. ASSUME NEW w \in Workers, Begin(w), lock = Free PROVE TransactionOK'
  <2>1. saved' = books'
    BY <1>6 DEF Begin, books
  <2>2. worker'[w].pc = "settle" /\ \A v \in Workers : v # w => worker'[v] = worker[v]
    BY <1>0, <1>6, WorkerSteps DEF Moves
  <2>3. Fine(w)
    BY <2>1, <2>2
  <2> HIDE DEF Fine, Kept
  <2>4. QED
    BY <1>1, <1>2, <1>4, <1>6, <2>1, <2>2, <2>3
<1>7. ASSUME NEW w \in Workers, Settle(w) PROVE TransactionOK'
  <2>1. UNCHANGED saved /\ worker[w].pc = "settle" /\ saved = books /\ lock = w
    BY <1>0, <1>7 DEF Settle, TransactionOK
  <2>2. saved[2] = position /\ saved[3] = order
    BY <2>1 DEF books
  <2>3. ASSUME NEW m \in Markets
        PROVE  /\ Ended(order[m]) => order'[m] = order[m]
               /\ position[m].settled => position'[m] = position[m] /\ order'[m] = order[m]
    <3>1. Ended(order[m]) => order'[m] = order[m]
      BY <1>0, <1>7, SettledRow DEF Ended
    <3>2. ASSUME position[m].settled
          PROVE  position'[m] = position[m] /\ order'[m] = order[m]
      <4>1. position[m].quantity = 0 /\ order[m].status # "PENDING"
        BY <1>0, <3>2 DEF BooksOK, RowsOK, RowOK
      <4>2. m \notin Paid(w)
        BY <4>1 DEF Paid, Held
      <4>3. QED
        BY <1>0, <1>7, <4>2, SettledRow
    <3>3. QED
      BY <3>1, <3>2
  <2>4. \A m \in Markets : Kept(m)
    BY <2>1, <2>2, <2>3
  <2>5. /\ worker'[w].pc # "settle" /\ \A v \in Workers : v # w => worker'[v] = worker[v]
        /\ worker'[w].pc = "execute" =>
             worker'[w].todo = {m \in Markets : order'[m].status = "PENDING"}
    BY <1>0, <1>7, WorkerSteps DEF Moves, TypeOK
  <2>6. Fine(w)
    BY <2>1, <2>2, <2>3, <2>5 DEF Pending
  <2> HIDE DEF Fine, Kept
  <2>7. QED
    BY <1>1, <1>4, <2>1, <2>4, <2>5, <2>6
<1>8. ASSUME NEW w \in Workers, NEW m \in Markets, Execute(w, m) PROVE TransactionOK'
  <2>1. UNCHANGED saved /\ worker[w].pc = "execute" /\ lock = w
        /\ order[m].status = "PENDING"
    BY <1>0, <1>8, TodoPending DEF Execute
  <2>2. /\ worker[w].todo \subseteq Pending
        /\ \A k \in Markets : Ended(saved[3][k]) => order[k] = saved[3][k]
        /\ \A k \in Markets :
             saved[2][k].settled => position[k] = saved[2][k] /\ order[k] = saved[3][k]
    BY <1>0, <2>1 DEF TransactionOK
  <2>3. /\ \A k \in Markets : k # m => position'[k] = position[k] /\ order'[k] = order[k]
        /\ ~position[m].settled
    BY <1>0, <1>8, <2>1, ExecuteOK
  <2>4. ~Ended(saved[3][m]) /\ ~saved[2][m].settled
    BY <2>1, <2>2, <2>3 DEF Ended
  <2>5. \A k \in Markets : Kept(k)
    BY <2>1, <2>2, <2>3, <2>4
  <2>6. /\ worker'[w].pc = "execute" /\ worker'[w].todo = worker[w].todo \ {m}
        /\ \A v \in Workers : v # w => worker'[v] = worker[v]
    BY <1>0, <1>8, WorkerSteps DEF Moves
  <2>7. worker'[w].todo \subseteq Pending'
    BY <2>2, <2>3, <2>6 DEF Pending
  <2>8. Fine(w)
    BY <2>1, <2>2, <2>3, <2>4, <2>6, <2>7
  <2> HIDE DEF Fine, Kept
  <2>9. QED
    BY <1>1, <1>4, <2>1, <2>5, <2>6, <2>8
<1>9. ASSUME NEW w \in Workers, NEW m \in Markets, Decide(w, m) PROVE TransactionOK'
  <2>1. UNCHANGED <<saved, position>> /\ worker[w].pc = "decide" /\ lock = w
    BY <1>0, <1>9 DEF Decide, InTransaction
  <2>2. \A k \in Markets :
          /\ Ended(saved[3][k]) /\ order[k] # saved[3][k] => Replaced(order[k])
          /\ saved[2][k].settled => position[k] = saved[2][k] /\ order[k] = saved[3][k]
    BY <1>0 DEF TransactionOK
  <2>3. /\ \A k \in Markets : k # m => order'[k] = order[k]
        /\ order'[m] # order[m] =>
             /\ order'[m].status = "PENDING" /\ order'[m].used = Never
             /\ ~position[m].settled
    BY <1>0, <1>9, DecideOK
  <2>4. \A k \in Markets : Kept(k)
    BY <2>1, <2>2, <2>3 DEF Replaced
  <2>5. worker'[w].pc = "decide" /\ \A v \in Workers : v # w => worker'[v] = worker[v]
    BY <1>0, <1>9, WorkerSteps DEF Moves
  <2>6. Fine(w)
    BY <2>5
  <2> HIDE DEF Fine, Kept
  <2>7. QED
    BY <1>1, <1>4, <2>1, <2>4, <2>5, <2>6
<1>10. ASSUME NEW w \in Workers, Commit(w) \/ Rollback(w) PROVE TransactionOK'
  <2>1. lock = w
    BY <1>0, <1>10 DEF Commit, Rollback, InTransaction
  <2>2. lock' = Free
    BY <1>10 DEF Commit, Rollback
  <2>3. saved' = books'
    BY <2>2, LockStep DEF LockOK
  <2>4. worker'[w].pc = "idle" /\ \A v \in Workers : v # w => worker'[v] = worker[v]
    BY <1>0, <1>10, WorkerSteps DEF Moves
  <2>5. Fine(w)
    BY <2>4
  <2> HIDE DEF Fine, Kept
  <2>6. QED
    BY <1>1, <1>2, <1>4, <2>1, <2>3, <2>4, <2>5
<1>11. ASSUME NEW b \in BOOLEAN, SetRunning(b) PROVE TransactionOK'
  <2>1. saved' = books' /\ UNCHANGED worker /\ lock = Free
    BY <1>11 DEF SetRunning, books
  <2>2. \A v \in Workers : Fine(v)
    BY <1>0, <2>1
  <2> HIDE DEF Fine, Kept
  <2>3. QED
    BY <1>1, <1>2, <2>1, <2>2
<1>12. ASSUME \/ Tick
              \/ \E m \in Markets, s \in {"OPEN", "RESOLVED"}, p \in Payouts \cup {0} :
                   Record(m, s, p)
              \/ UNCHANGED vars
       PROVE  TransactionOK'
  <2>1. UNCHANGED <<books, saved, worker>>
    BY <1>12 DEF Tick, Record, vars, books
  <2> HIDE DEF Fine, Kept
  <2>2. QED
    BY <1>1, <1>3, <2>1
<1>13. QED
  BY <1>5, <1>6, <1>7, <1>8, <1>9, <1>10, <1>11, <1>12 DEF Next, WorkerStep


LEMMA SumZero ==
    ASSUME NEW S, IsFiniteSet(S), NEW f, \A x \in S : f[x] = 0
    PROVE  SumFunctionOnSet(f, S) = 0
<1>1. \A x \in S : f[x] \in Int /\ f[x] = f[x] - f[x]
  OBVIOUS
<1>2. SumFunctionOnSet(f, S) = SumFunctionOnSet(f, S) - SumFunctionOnSet(f, S)
  BY <1>1, SumMinus
<1>3. SumFunctionOnSet(f, S) \in Int
  BY <1>1, SumType
<1>4. QED
  BY <1>2, <1>3

LEMMA InitInv == Init => Inv
<1> SUFFICES ASSUME Init PROVE Inv
  OBVIOUS
<1>0. /\ account = [cash |-> InitialCash, realized |-> 0, ledger |-> InitialCash]
      /\ position = [m \in Markets |-> Flat] /\ order = [m \in Markets |-> NoOrder]
      /\ running = TRUE /\ lock = Free /\ saved = <<account, position, order>>
      /\ worker = [w \in Workers |-> IdleWorker] /\ feed = [m \in Markets |-> NoQuote]
      /\ clock = 0
  BY DEF Init
<1>1. TypeOK
  <2>1. account \in AccountRecord
    BY <1>0, Policy DEF AccountRecord
  <2>2. Flat \in PositionRecord /\ NoOrder \in OrderRecord /\ NoQuote \in Quotes /\ 0 \in Times
    BY Policy DEF Flat, PositionRecord, NoOrder, OrderRecord, NoQuote, Quotes, Times
  <2>3. books \in Books /\ saved \in Books
    BY <1>0, <2>1, <2>2, BooksType DEF books
  <2>4. QED
    BY <1>0, <2>2, <2>3, IdleType DEF TypeOK
<1>2. LockOK
  BY <1>0, FreeAssumption, IdleType DEF LockOK, books
<1>3. TransactionOK
  BY <1>0, IdleType DEF TransactionOK
<1>4. QuotesOK
  <2>1. \A m \in Markets : feed[m].received = -1 /\ feed[m].status = "UNKNOWN"
    BY <1>0, Policy DEF NoQuote
  <2>2. \A m \in Markets : NoQuotes[m].received = -1 /\ NoQuotes[m].status = "UNKNOWN"
    BY Policy DEF NoQuote, NoQuotes
  <2>3. \A w \in Workers : worker[w].quotes = NoQuotes
    BY <1>0, IdleType
  <2>4. QED
    BY <1>0, <2>1, <2>2, <2>3 DEF QuotesOK
<1>5. \A m \in Markets : /\ position[m] = Flat /\ order[m] = NoOrder
                         /\ ~Flat.settled /\ Flat.cost = 0 /\ Bound(NoOrder) = 0
                         /\ RowOK(Flat, NoOrder)
  BY <1>0, Policy DEF Flat, NoOrder, Bound, RowOK
<1>6. BooksOK(account, position, order)
  <2>1. SumFunctionOnSet(Cost(position), Markets) = 0
    <3>1. \A m \in Markets : Cost(position)[m] = 0
      BY <1>5 DEF Cost
    <3>2. QED
      BY <3>1, Policy, SumZero
  <2>2. SumFunctionOnSet(Load(position, order), Markets) = 0
    <3>1. \A m \in Markets : Load(position, order)[m] = 0
      BY <1>5 DEF Load
    <3>2. QED
      BY <3>1, Policy, SumZero
  <2>3. Balanced(account, position)
    BY <1>0, <2>1, Policy DEF Balanced
  <2>4. RowsOK(position, order)
    BY <1>5 DEF RowsOK
  <2>5. QED
    BY <2>2, <2>3, <2>4, Policy DEF BooksOK, Within
<1>7. SettledOK(position, feed, worker)
  BY <1>5 DEF SettledOK
<1>8. saved[1] = account /\ saved[2] = position /\ saved[3] = order
  BY <1>0
<1>9. QED
  BY <1>1, <1>2, <1>3, <1>4, <1>6, <1>7, <1>8 DEF Inv

LEMMA StepInv == Inv /\ [Next]_vars => Inv'
<1> SUFFICES ASSUME Inv, [Next]_vars PROVE Inv'
  OBVIOUS
<1>1. TypeOK /\ Shift /\ QuotesOK
  BY Shifts DEF Inv
<1>2. TypeOK' /\ LockOK' /\ TransactionOK' /\ QuotesOK'
  BY <1>1, TypeStep, LockStep, TransactionStep, QuotesStep
<1>3. BooksOK(account, position, order)' /\ BooksOK(saved[1], saved[2], saved[3])'
  BY BooksStep
<1>4. SettledOK(position, feed, worker)' /\ SettledOK(saved[2], feed, worker)'
  BY SettledStep
<1>5. QED
  BY <1>2, <1>3, <1>4 DEF Inv

LEMMA InvHolds == Spec => []Inv
  BY InitInv, StepInv, PTL DEF Spec

----------------------------------------------------------------------------
(* Theorems                                                                *)

LEMMA CommittedOK ==
    ASSUME Inv
    PROVE  /\ BooksOK(Account, Position, Order)
           /\ Account \in AccountRecord /\ Order \in [Markets -> OrderRecord]
<1>1. CASE lock = Free
  BY <1>1, Rows DEF Inv, Account, Position, Order, Committed, books
<1>2. CASE lock # Free
  BY <1>2, Rows DEF Inv, Account, Position, Order, Committed
<1>3. QED
  BY <1>1, <1>2

\* PaperTrading!BooksAreSound, for accounting.py and the capital half of
\* strategy.py: whatever workers, settlements, partial sales, pauses and
\* rollbacks interleave, the ledger adds up to the cash, what the account gained
\* or lost is realized or bound in its positions, and no order is filled by a
\* quote its decision saw.
THEOREM BooksStaySound == Spec => []BooksAreSound
<1>1. Inv => BooksAreSound
  <2> SUFFICES ASSUME Inv PROVE BooksAreSound
    OBVIOUS
  <2>1. BooksOK(Account, Position, Order)
    BY CommittedOK
  <2>2. BooksBalance
    BY <2>1 DEF BooksOK, Balanced, BooksBalance
  <2>3. NoLookAhead
    BY <2>1 DEF BooksOK, RowsOK, RowOK, NoLookAhead
  <2>4. QED
    BY <2>2, <2>3 DEF Inv, BooksAreSound
<1>2. QED
  BY <1>1, InvHolds, PTL

\* PaperTrading!EventLimit, for the budget in strategy.decide: what the
\* positions of an event cost and what its pending orders may still spend never
\* exceed the share of the event, in a transaction or outside.
THEOREM LimitStays == Spec => []EventLimit
<1>1. Inv => EventLimit
  <2> SUFFICES ASSUME Inv PROVE EventLimit
    OBVIOUS
  <2>1. TypeOK /\ RowsOK(position, order) /\ Within(position, order)
    BY DEF Inv, BooksOK
  <2>2. QED
    BY <2>1, LoadSplit DEF Within, EventLimit
<1>2. QED
  BY <1>1, InvHolds, PTL

\* What everybody sees changes with a pause or when a transaction commits.
LEMMA CommittedStep ==
    ASSUME Inv, [Next]_vars
    PROVE  \/ Committed' = Committed
           \/ Committed = saved /\ Committed' = books
           \/ /\ Committed = books
              /\ \/ Committed' = books
                 \/ Committed' = <<account, position, CancelledIn(Markets)>>
<1>0. /\ TypeOK /\ \A w \in Workers : lock = w <=> worker[w].pc \in InTransaction
      /\ lock = Free => saved = books
      /\ Free \notin Workers
  BY FreeAssumption DEF Inv, LockOK, InTransaction
<1>1. CASE UNCHANGED <<books, lock, saved>>
  BY <1>1 DEF Committed
<1>2. ASSUME NEW w \in Workers, Begin(w) PROVE Committed' = Committed
  BY <1>0, <1>2 DEF Begin, Committed
<1>3. ASSUME NEW w \in Workers, \/ Settle(w)
                               \/ \E m \in Markets : Execute(w, m) \/ Decide(w, m)
      PROVE  Committed' = Committed
  <2>1. UNCHANGED <<lock, saved>> /\ worker[w].pc \in InTransaction
    BY <1>3 DEF Settle, Execute, Decide, InTransaction
  <2>2. lock # Free
    BY <1>0, <2>1
  <2>3. QED
    BY <2>1, <2>2 DEF Committed
<1>4. ASSUME NEW w \in Workers, Commit(w) PROVE Committed = saved /\ Committed' = books
  <2>1. worker[w].pc \in InTransaction /\ lock' = Free /\ books' = books
    BY <1>4 DEF Commit, InTransaction
  <2>2. lock # Free
    BY <1>0, <2>1
  <2>3. QED
    BY <2>1, <2>2 DEF Committed
<1>5. ASSUME NEW w \in Workers, Rollback(w) PROVE Committed' = Committed
  <2>1. lock # Free /\ lock' = Free
    BY <1>0, <1>5 DEF Rollback
  <2>2. books' = saved
    BY <1>0, <1>5, Rows DEF Rollback, books
  <2>3. QED
    BY <2>1, <2>2 DEF Committed
<1>6. ASSUME NEW b \in BOOLEAN, SetRunning(b)
      PROVE  /\ Committed = books
             /\ \/ Committed' = books
                \/ Committed' = <<account, position, CancelledIn(Markets)>>
  BY <1>6 DEF SetRunning, Committed, books
<1>7. ASSUME \/ \E w \in Workers : Fetch(w) \/ ReadClock(w) \/ ToDecide(w)
             \/ Tick
             \/ \E m \in Markets, s \in {"OPEN", "RESOLVED"}, p \in Payouts \cup {0} :
                  Record(m, s, p)
             \/ UNCHANGED vars
      PROVE  UNCHANGED <<books, lock, saved>>
  BY <1>7 DEF Fetch, ReadClock, ToDecide, Tick, Record, vars, books
<1>8. QED
  BY <1>1, <1>2, <1>3, <1>4, <1>5, <1>6, <1>7 DEF Next, WorkerStep

\* PaperTrading!EndsAreFinal, for accounting.settle, execute_order and decide:
\* an order that has ended stays as it is until a new one replaces it, and a
\* market that was paid out gets neither position nor order again, although
\* another worker may hold an older quote of the open market.
THEOREM EndsStay == Spec => EndsAreFinal
<1> DEFINE Ends == \A m \in Markets :
                     LET a == Order[m] b == Order'[m] IN
                     a.status \notin {"NONE", "PENDING"} /\ b # a =>
                         b.status = "PENDING" /\ b.used = Never
           Pays == \A m \in Markets : Position[m].settled =>
                     Position'[m] = Position[m] /\ Order'[m] = Order[m]
<1>1. Inv /\ [Next]_vars => Ends /\ Pays
  <2> SUFFICES ASSUME Inv, [Next]_vars, NEW m \in Markets
               PROVE  /\ Ended(Order[m]) /\ Order'[m] # Order[m] => Replaced(Order'[m])
                      /\ Position[m].settled =>
                           Position'[m] = Position[m] /\ Order'[m] = Order[m]
    BY DEF Ended, Replaced
  <2>1. CASE Committed' = Committed
    BY <2>1 DEF Order, Position
  <2>2. CASE Committed = saved /\ Committed' = books
    <3>1. /\ Order[m] = saved[3][m] /\ Order'[m] = order[m]
          /\ Position[m] = saved[2][m] /\ Position'[m] = position[m]
      BY <2>2 DEF Order, Position, books
    <3>2. QED
      BY <3>1 DEF Inv, TransactionOK
  <2>3. CASE Committed = books /\ Committed' = books
    BY <2>3 DEF Order, Position
  <2>4. CASE Committed = books /\ Committed' = <<account, position, CancelledIn(Markets)>>
    <3>1. /\ Order[m] = order[m] /\ Order'[m] = CancelledIn(Markets)[m]
          /\ Position[m] = position[m] /\ Position'[m] = position[m]
      BY <2>4 DEF Order, Position, books
    <3>2. order[m].status # "PENDING" => Order'[m] = order[m]
      BY <3>1 DEF CancelledIn, Pending
    <3>3. position[m].settled => order[m].status # "PENDING"
      BY DEF Inv, BooksOK, RowsOK, RowOK
    <3>4. QED
      BY <3>1, <3>2, <3>3 DEF Ended
  <2>5. QED
    BY <2>1, <2>2, <2>3, <2>4, CommittedStep
<1>2. Inv /\ [Next]_vars => [Ends]_vars /\ [Pays]_vars
  BY <1>1
<1>3. EndsAreFinal <=> [][Ends]_vars /\ [][Pays]_vars
  BY DEF EndsAreFinal, OrdersEndOnce, PayoutIsFinal
<1> HIDE DEF Ends, Pays
<1>4. QED
  BY <1>2, <1>3, InvHolds, PTL DEF Spec
=============================================================================
