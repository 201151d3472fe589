---------------------------- MODULE PaperTrading ----------------------------
(***************************************************************************)
(* The ledger of one paper account (paper/accounting.py, the capital half  *)
(* of paper/strategy.py, paper/worker.py) and of the quotes it trades on.  *)
(*                                                                         *)
(* A paper worker fetches the latest quotes, reads the clock and then      *)
(* processes the experiment in one transaction under the lock of its row:  *)
(* settle, the pending orders, a decision per market.  The steps of the    *)
(* transaction are separate here, `saved` is what a rollback restores.     *)
(* Everybody else waits for the lock or skips the row, so nobody sees the  *)
(* steps; what interleaves are the quotes, fetched earlier, and the clock. *)
(*                                                                         *)
(* Money is in whole units and the fills of an order are one fill: what    *)
(* match_order may return is any quantity and cost within its bounds (see  *)
(* MatchOrder).  The reasons not to trade that concern neither capital nor *)
(* time (spread, fees, rules, momentum) are a choice.                      *)
(***************************************************************************)
EXTENDS Integers, FiniteSets, Functions

CONSTANTS
    Markets,      \* markets of the platform, of one exchange event
    Workers,      \* paper workers
    Free,         \* the experiment row is not locked
    BuyHold,      \* the account follows buy_hold, not momentum
    InitialCash, MarketBudget, EventBudget, \* initial_cash, 1 %, 2 % of it
    MaxQuantity,  \* shares of an order
    Latency, OrderLife, QuoteLife, Cooldown, \* 2 s, 120 s, 90 s, 15 min
    Payouts,      \* bound: payouts of a contract the exchange may declare
    MaxTime       \* bound: the clock

ASSUME FreeAssumption == Free \notin Workers
ASSUME PolicyAssumption ==
    /\ IsFiniteSet(Markets)
    /\ BuyHold \in BOOLEAN /\ Payouts \subseteq {0, 1}
    /\ \A n \in {InitialCash, MarketBudget, EventBudget, MaxQuantity, Latency,
                 OrderLife, QuoteLife, Cooldown, MaxTime} : n \in Nat
    /\ 0 < Latency /\ Latency < OrderLife /\ QuoteLife < Cooldown

VARIABLES
    account,  \* cash, realized_pnl and the sum of the ledger
    position, \* Position rows
    order,    \* the latest Order row of each market
    running,  \* Experiment.running
    lock,     \* the worker that locked the experiment row
    saved,    \* the rows before the transaction
    worker,   \* local state of each paper worker
    feed,     \* the latest recorded quote of each market
    clock

vars == <<account, position, order, running, lock, saved, worker, feed, clock>>
books == <<account, position, order>>
world == <<running, feed, clock>>

----------------------------------------------------------------------------
Never == -1
Times == 0..MaxTime
Quotes == [received : Times \cup {Never}, status : {"OPEN", "RESOLVED", "UNKNOWN"},
           payout : {0, 1}]
NoQuote == [received |-> Never, status |-> "UNKNOWN", payout |-> 0]
NoOrder == [status |-> "NONE", side |-> "BUY", quantity |-> 0, budget |-> 0,
            eligible |-> 0, expires |-> 0, seen |-> Never, used |-> Never]
Flat == [quantity |-> 0, cost |-> 0, closed |-> Never, settled |-> FALSE]
IdleWorker == [pc |-> "idle", now |-> 0, todo |-> {},
               quotes |-> [m \in Markets |-> NoQuote]]

AccountRecord == [cash : Nat, realized : Int, ledger : Int]
PositionRecord == [quantity : 0..MaxQuantity, cost : Nat,
                   closed : Times \cup {Never}, settled : BOOLEAN]
OrderRecord ==
    [status : {"NONE", "PENDING", "FILLED", "PARTIAL", "UNFILLED", "EXPIRED", "CANCELLED"},
     side : {"BUY", "SELL"}, quantity : 0..MaxQuantity, budget : Nat,
     eligible : Times, expires : Times,
     seen : Times \cup {Never}, used : Times \cup {Never}]
WorkerRecord ==
    [pc : {"idle", "fetched", "timed", "settle", "execute", "decide"},
     now : Times, todo : SUBSET Markets, quotes : [Markets -> Quotes]]
Books == AccountRecord \X [Markets -> PositionRecord] \X [Markets -> OrderRecord]

TypeOK ==
    /\ books \in Books /\ saved \in Books
    /\ running \in BOOLEAN
    /\ lock \in Workers \cup {Free}
    /\ worker \in [Workers -> WorkerRecord]
    /\ feed \in [Markets -> Quotes]
    /\ clock \in Times

Init ==
    /\ account = [cash |-> InitialCash, realized |-> 0, ledger |-> InitialCash]
    /\ position = [m \in Markets |-> Flat]
    /\ order = [m \in Markets |-> NoOrder]
    /\ running = TRUE /\ lock = Free
    /\ saved = <<account, position, order>>
    /\ worker = [w \in Workers |-> IdleWorker]
    /\ feed = [m \in Markets |-> NoQuote]
    /\ clock = 0

Pending == {m \in Markets : order[m].status = "PENDING"}
Held == {m \in Markets : position[m].quantity > 0}
Smaller(i, j) == IF i < j THEN i ELSE j

\* The cost of the positions of the event, and the budgets of its orders.
Cost(p) == [m \in Markets |-> p[m].cost]
EventCost == SumFunctionOnSet(Cost(position), Held)
Buying == {m \in Pending : order[m].side = "BUY"}
Reserved == SumFunctionOnSet([m \in Markets |-> order[m].budget], Buying)

----------------------------------------------------------------------------
(* A cycle of a paper worker *)

\* publish_execution_universe and ExecutionRepository.latest.
Fetch(w) ==
    /\ worker[w].pc = "idle"
    /\ worker' = [worker EXCEPT ![w] = [@ EXCEPT !.pc = "fetched", !.quotes = feed]]
    /\ UNCHANGED <<books, lock, saved, world>>

\* timezone.now(), before the row is locked.
ReadClock(w) ==
    /\ worker[w].pc = "fetched"
    /\ worker' = [worker EXCEPT ![w] = [@ EXCEPT !.pc = "timed", !.now = clock]]
    /\ UNCHANGED <<books, lock, saved, world>>

\* SELECT ... FOR UPDATE SKIP LOCKED.
Begin(w) ==
    /\ worker[w].pc = "timed"
    /\ IF lock = Free
       THEN /\ lock' = w /\ saved' = books
            /\ worker' = [worker EXCEPT ![w].pc = "settle"]
       ELSE /\ worker' = [worker EXCEPT ![w] = IdleWorker]
            /\ UNCHANGED <<lock, saved>>
    /\ UNCHANGED <<books, world>>

\* quote_issue, as far as it is a matter of time and of the exchange.
Fresh(w, m) ==
    LET q == worker[w].quotes[m] IN
    q.received # Never /\ q.received <= worker[w].now
      /\ worker[w].now - q.received <= QuoteLife
Tradable(w, m) == Fresh(w, m) /\ worker[w].quotes[m].status = "OPEN"

\* accounting.settle: every position whose market has a verified payout.
\* (Mutants: orders that have ended are cancelled as well; the cost stays.)
Paid(w) == {m \in Held : Fresh(w, m) /\ worker[w].quotes[m].status = "RESOLVED"}
CancelledAll(S) ==
    [m \in Markets |-> IF m \in S THEN [order[m] EXCEPT !.status = "CANCELLED"]
                                  ELSE order[m]]
CancelledIn(S) ==
    [m \in Markets |-> IF m \in S \cap Pending
                       THEN [order[m] EXCEPT !.status = "CANCELLED"] ELSE order[m]]
KeptCost(w, m) == [position[m] EXCEPT !.quantity = 0, !.closed = worker[w].now,
                                      !.settled = TRUE]
PaidOut(w, m) ==
    [quantity |-> 0, cost |-> 0, closed |-> worker[w].now, settled |-> TRUE]
Proceeds(w) == [m \in Markets |-> position[m].quantity * worker[w].quotes[m].payout]
Settle(w) ==
    LET proceeds == SumFunctionOnSet(Proceeds(w), Paid(w))
        cost == SumFunctionOnSet(Cost(position), Paid(w)) IN
    /\ worker[w].pc = "settle"
    /\ account' = [cash |-> account.cash + proceeds,
                   realized |-> account.realized + proceeds - cost,
                   ledger |-> account.ledger + proceeds]
    /\ position' = [m \in Markets |->
         IF m \in Paid(w) THEN PaidOut(w, m) ELSE position[m]]
    /\ order' = CancelledIn(Paid(w))
    /\ worker' = [worker EXCEPT ![w] =
         [@ EXCEPT !.pc = IF running THEN "execute" ELSE "decide",
                   !.todo = IF running THEN {m \in Markets : order'[m].status = "PENDING"}
                                       ELSE {}]]
    /\ UNCHANGED <<lock, saved, world>>

\* The order ends without a fill.
Closed(m, status) ==
    order' = [order EXCEPT ![m].status = status] /\ UNCHANGED <<account, position>>

\* A quote that was received when the order was eligible.
\* (Mutant: when the decision was made.)
EligibleAtOnce(w, m) ==
    worker[w].quotes[m].received >= order[m].eligible - Latency
      /\ worker[w].quotes[m].received <= worker[w].now
Eligible(w, m) ==
    worker[w].quotes[m].received >= order[m].eligible
      /\ worker[w].quotes[m].received <= worker[w].now

\* The cost of a fill.
Costs(m) == 1..Smaller(order[m].budget, account.cash)

Filled(w, m, filled) ==
    order' = [order EXCEPT ![m] =
      [@ EXCEPT !.used = worker[w].quotes[m].received,
                !.status = IF filled = order[m].quantity THEN "FILLED"
                           ELSE IF filled > 0 THEN "PARTIAL" ELSE "UNFILLED"]]

Bought(w, m) ==
    /\ order[m].side = "BUY"
    /\ \E filled \in 1..order[m].quantity, cost \in Costs(m) :
         /\ account' = [account EXCEPT !.cash = @ - cost, !.ledger = @ - cost]
         /\ position' = [position EXCEPT ![m] =
              IF m \notin Held
              THEN [quantity |-> filled, cost |-> cost, closed |-> Never,
                    settled |-> FALSE]
              ELSE [position[m] EXCEPT !.quantity = position[m].quantity + filled,
                                       !.cost = position[m].cost + cost]]
         /\ Filled(w, m, filled)

\* The basis of the sold part is rounded; a fee may exceed what was sold.
\* (Mutant: it is always rounded up.)
BasisRoundedUp(m, sold) ==
    {(position[m].cost * sold) \div position[m].quantity + 1}
Basis(m, sold) ==
    IF sold = position[m].quantity THEN {position[m].cost}
    ELSE {b \in 0..position[m].cost :
            LET error == b * position[m].quantity - position[m].cost * sold IN
            -position[m].quantity < error /\ error < position[m].quantity}
Sold(w, m) ==
    /\ order[m].side = "SELL" /\ position[m].quantity > 0
    /\ \E sold \in 1..Smaller(order[m].quantity, position[m].quantity) :
       \E delta \in -1..sold, basis \in Basis(m, sold) :
         /\ account.cash + delta >= 0
         /\ account' = [cash |-> account.cash + delta,
                        realized |-> account.realized + delta - basis,
                        ledger |-> account.ledger + delta]
         /\ position' = [position EXCEPT ![m] =
              [position[m] EXCEPT !.quantity = position[m].quantity - sold,
                                  !.cost = position[m].cost - basis,
                                  !.closed = IF sold = position[m].quantity
                                             THEN worker[w].now ELSE position[m].closed]]
         /\ Filled(w, m, sold)

\* (Mutant: an order without a quote does not expire.)
ExpiredWithQuote(w, m) == worker[w].now >= order[m].expires /\ Fresh(w, m)
Expired(w, m) == worker[w].now >= order[m].expires

\* The body of the loop over the orders, with accounting.execute_order.
Execute(w, m) ==
    /\ worker[w].pc = "execute" /\ m \in worker[w].todo
    /\ worker' = [worker EXCEPT ![w].todo = @ \ {m}]
    /\ \/ Closed(m, "CANCELLED")                              \* rules_changed
       \/ Expired(w, m) /\ Closed(m, "EXPIRED")
       \/ ~Expired(w, m) /\ UNCHANGED books      \* no quote, or an issue of it
       \/ /\ ~Expired(w, m)
          /\ Eligible(w, m) /\ Tradable(w, m)
          /\ \/ Bought(w, m) \/ Sold(w, m)
             \/ Filled(w, m, 0) /\ UNCHANGED <<account, position>>
    /\ UNCHANGED <<lock, saved, world>>

ToDecide(w) ==
    /\ worker[w].pc = "execute" /\ worker[w].todo = {}
    /\ worker' = [worker EXCEPT ![w] = [@ EXCEPT !.pc = "decide", !.todo = Markets]]
    /\ UNCHANGED <<books, lock, saved, world>>

\* The budget of an entry.  (Mutant: pending orders are not counted.)
BudgetOfCost ==
    Smaller(account.cash, Smaller(MarketBudget, EventBudget - EventCost))
Budget == Smaller(account.cash - Reserved,
                  Smaller(MarketBudget, EventBudget - EventCost - Reserved))

\* (Mutant: a closed position may be opened again at once.)
NoCooldown(w, m) == TRUE
Reentry(w, m) ==
    position[m].closed # Never =>
        ~BuyHold /\ worker[w].now - position[m].closed >= Cooldown

Placed(w, m, side, quantity, budget) ==
    order' = [order EXCEPT ![m] =
      [status |-> "PENDING", side |-> side, quantity |-> quantity, budget |-> budget,
       eligible |-> worker[w].now + Latency, expires |-> worker[w].now + OrderLife,
       seen |-> worker[w].quotes[m].received, used |-> Never]]

\* strategy.decide; the second disjunct is a decision to wait or none at all.
Decide(w, m) ==
    /\ worker[w].pc = "decide" /\ m \in worker[w].todo
    /\ worker' = [worker EXCEPT ![w].todo = @ \ {m}]
    /\ UNCHANGED <<account, position, lock, saved, world>>
    /\ \/ UNCHANGED order
       \/ /\ m \notin Pending /\ Tradable(w, m)
          /\ worker[w].now + OrderLife <= MaxTime
          /\ \/ /\ m \in Held /\ ~BuyHold
                /\ Placed(w, m, "SELL", position[m].quantity, 0)
             \/ /\ m \notin Held /\ Reentry(w, m) /\ Budget > 0
                /\ \E q \in 1..MaxQuantity : Placed(w, m, "BUY", q, Budget)

Commit(w) ==
    /\ worker[w].pc = "decide" /\ worker[w].todo = {}
    /\ lock' = Free /\ saved' = books
    /\ worker' = [worker EXCEPT ![w] = IdleWorker]
    /\ UNCHANGED <<books, world>>

\* Any exception, or the death of the process.
Rollback(w) ==
    /\ lock = w
    /\ lock' = Free
    /\ account' = saved[1] /\ position' = saved[2] /\ order' = saved[3]
    /\ worker' = [worker EXCEPT ![w] = IdleWorker]
    /\ UNCHANGED <<saved, world>>

----------------------------------------------------------------------------
(* Everybody else *)

\* set_running: a pause cancels the pending orders.
SetRunning(value) ==
    /\ lock = Free
    /\ running' = value
    /\ order' = IF value THEN order ELSE CancelledIn(Markets)
    /\ saved' = <<account, position, order'>>
    /\ UNCHANGED <<account, position, lock, worker, feed, clock>>

\* The collector records a quote; a payout is final.
Record(m, status, payout) ==
    /\ feed[m].status = "RESOLVED" => status = "RESOLVED" /\ payout = feed[m].payout
    /\ IF status = "RESOLVED" THEN payout \in Payouts ELSE payout = 0
    /\ feed' = [feed EXCEPT ![m] = [received |-> clock, status |-> status,
                                    payout |-> payout]]
    /\ UNCHANGED <<books, running, lock, saved, worker, clock>>

Tick ==
    /\ clock < MaxTime
    /\ clock' = clock + 1
    /\ UNCHANGED <<books, running, lock, saved, worker, feed>>

----------------------------------------------------------------------------
WorkerStep(w) ==
    \/ Fetch(w) \/ ReadClock(w) \/ Begin(w) \/ Settle(w) \/ ToDecide(w)
    \/ Commit(w) \/ Rollback(w)
    \/ \E m \in Markets : Execute(w, m) \/ Decide(w, m)

Next ==
    \/ \E w \in Workers : WorkerStep(w)
    \/ \E b \in BOOLEAN : SetRunning(b)
    \/ \E m \in Markets, s \in {"OPEN", "RESOLVED"}, p \in Payouts \cup {0} :
         Record(m, s, p)
    \/ Tick

Spec == Init /\ [][Next]_vars

\* run_once is called every five seconds, and not every transaction fails.
Fairness ==
    /\ WF_vars(Tick)
    /\ \A w \in Workers :
         /\ WF_vars(Fetch(w)) /\ WF_vars(ReadClock(w)) /\ WF_vars(Begin(w))
         /\ SF_vars(Settle(w)) /\ SF_vars(ToDecide(w)) /\ SF_vars(Commit(w))
         /\ \A m \in Markets : SF_vars(Execute(w, m)) /\ SF_vars(Decide(w, m))

FairSpec == Spec /\ Fairness

----------------------------------------------------------------------------
\* What everybody but the transaction sees.
Committed == IF lock = Free THEN books ELSE saved
Account == Committed[1]
Position == Committed[2]
Order == Committed[3]

\* docs/paper-trading.md: the ledger adds up to the cash, and what the account
\* gained or lost is realized or bound in positions, although settlements,
\* partial sales with rounded cost and rollbacks interleave.
BooksBalance ==
    /\ Account.ledger = Account.cash
    /\ Account.cash + SumFunctionOnSet(Cost(Position), Markets)
         - InitialCash = Account.realized

\* Never more than the share of an event is invested or reserved in it.
EventLimit == EventCost + Reserved <= EventBudget

\* An order is filled by a quote that was received after the one its decision
\* saw, whichever worker fetched it and whenever.
NoLookAhead ==
    \A m \in Markets : Order[m].used # Never => Order[m].used > Order[m].seen

\* A market that was paid out gets neither a position nor an order again, although
\* a worker may still hold an older quote of the open market and an older clock.
PayoutIsFinal ==
    [][\A m \in Markets : Position[m].settled =>
         Position'[m] = Position[m] /\ Order'[m] = Order[m]]_vars

\* An order that has ended does not change again until a new one replaces it.
OrdersEndOnce ==
    [][\A m \in Markets :
         LET a == Order[m] b == Order'[m] IN
         a.status \notin {"NONE", "PENDING"} /\ b # a =>
             b.status = "PENDING" /\ b.used = Never]_vars

\* Every pending order ends.
OrdersEnd ==
    \A m \in Markets : order[m].status = "PENDING" ~> order[m].status # "PENDING"

\* The books of the account balance, and no order fills on a price its decision saw.
BooksAreSound == TypeOK /\ BooksBalance /\ NoLookAhead

\* What has ended stays ended: orders, and the payout of a resolved market.
EndsAreFinal == OrdersEndOnce /\ PayoutIsFinal
=============================================================================
