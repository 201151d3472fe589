----------------------------- MODULE MatchOrder -----------------------------
(***************************************************************************)
(* match_order of quanthecy_analytics/paper.py: the fills of one order     *)
(* against one displayed book.  TakeLevel is one iteration of its loop.    *)
(*                                                                         *)
(* Decimals are integers here: money and prices count units of MONEY, of   *)
(* which Scale make one dollar, the payout of a contract; fee rates count  *)
(* 1/RateBase and slippage 1/SlippageBase.  Cent and Tick are the places   *)
(* the two fee models round to.                                            *)
(***************************************************************************)
EXTENDS Integers, Sequences, FiniteSets

CONSTANTS
    Scale, RateBase, SlippageBase, Cent, Tick,
    Depth,    \* the visible part of a level is divided by Depth (0.1)
    Inputs    \* the calls to consider

\* The arguments of a call; ExecutionQuote has sorted the levels, best price first.
Call ==
    [side : {"BUY", "SELL"}, quantity : Nat, limit : Nat, budget : Nat,
     slippage : Nat, rate : Nat, model : {"kalshi", "polymarket"},
     levels : Seq([price : 1..(Scale - 1), size : Nat \ {0}])]

ASSUME ScaleAssumption ==
    \A n \in {Scale, RateBase, SlippageBase, Cent, Tick, Depth} : n \in Nat \ {0}
BestFirst(c) ==
    \A i, j \in 1..Len(c.levels) : i < j =>
        IF c.side = "BUY" THEN c.levels[i].price <= c.levels[j].price
                          ELSE c.levels[j].price <= c.levels[i].price

ASSUME InputsAssumption ==
    \A c \in Inputs :
        c \in Call /\ c.rate <= RateBase /\ c.slippage <= SlippageBase /\ BestFirst(c)

VARIABLES
    call,      \* the arguments
    at,        \* the level the loop looks at
    remaining, \* shares not filled
    budget,    \* money not spent (of a BUY)
    fills,
    done

vars == <<call, at, remaining, budget, fills, done>>

----------------------------------------------------------------------------
HalfUp(n, d) == (2 * n + d) \div (2 * d)
Ceiling(n, d) == (n + d - 1) \div d

\* fee, in units of money.
Fee(quantity, price) ==
    LET n == call.rate * quantity * price * (Scale - price)
        d == RateBase * Scale IN
    IF call.model = "kalshi" THEN Cent * Ceiling(n, d * Cent)
                             ELSE Tick * HalfUp(n, d * Tick)

Cost(quantity, price) == quantity * price + Fee(quantity, price)

Slipped(level) ==
    HalfUp(level.price * (IF call.side = "BUY" THEN SlippageBase + call.slippage
                                               ELSE SlippageBase - call.slippage),
           SlippageBase)

\* (Mutant: the limit is compared with the displayed price.)
BeyondDisplayed(level) ==
    IF call.side = "BUY" THEN level.price > call.limit ELSE level.price < call.limit
Beyond(level) ==
    IF call.side = "BUY" THEN Slipped(level) > call.limit
                         ELSE Slipped(level) < call.limit

\* (Mutant: the whole level is taken.)
WholeLevel(level) == level.size
Available(level) == level.size \div Depth

\* Shares the budget pays for, fee included but not yet rounded.
Payable(price) ==
    (budget * RateBase * Scale)
      \div (price * RateBase * Scale + call.rate * price * (Scale - price))

Least(i, j) == IF i < j THEN i ELSE j

\* The while loop: the most shares whose rounded cost is within the budget.
\* (Mutants: the rounding of the fee is not looked at; all or nothing.)
Unrounded(limit, price) == limit
AllOrNothing(limit, price) == IF Cost(limit, price) <= budget THEN limit ELSE 0
Affordable(limit, price) ==
    CHOOSE n \in 0..limit :
        /\ n = 0 \/ Cost(n, price) <= budget
        /\ \A k \in (n + 1)..limit : Cost(k, price) > budget

\* The shares taken from a level.  (Mutants: a sale needs a budget as well; what
\* is left of the order is not looked at.)
TakePaid(level) ==
    Affordable(Least(Least(remaining, Available(level)), Payable(Slipped(level))),
               Slipped(level))
TakeAll(level) ==
    IF call.side = "BUY" THEN Affordable(Available(level), Slipped(level))
                         ELSE Available(level)
Take(level) ==
    LET wanted == Least(remaining, Available(level))
        price == Slipped(level) IN
    IF call.side = "BUY" THEN Affordable(Least(wanted, Payable(price)), price)
                         ELSE wanted

----------------------------------------------------------------------------
\* Nothing is asked for.
Rejected(c) == c.quantity = 0

Init ==
    /\ call \in Inputs
    /\ at = 1
    /\ remaining = call.quantity /\ budget = call.budget
    /\ fills = <<>>
    /\ done = Rejected(call)

\* No level is left, or the price is beyond the limit.
Stop ==
    /\ ~done
    /\ \/ at > Len(call.levels)
       \/ at <= Len(call.levels) /\ Slipped(call.levels[at]) \in 1..(Scale - 1)
            /\ Beyond(call.levels[at])
    /\ done' = TRUE
    /\ UNCHANGED <<call, at, remaining, budget, fills>>

\* The level is not usable, or nothing can be taken from it.
SkipLevel ==
    /\ ~done /\ at <= Len(call.levels)
    /\ \/ Slipped(call.levels[at]) \notin 1..(Scale - 1)
       \/ ~Beyond(call.levels[at]) /\ Take(call.levels[at]) = 0
    /\ at' = at + 1
    /\ UNCHANGED <<call, remaining, budget, fills, done>>

\* remaining and budget after the fill; the loop ends when nothing is left.
TakeLevel ==
    LET level == call.levels[at]
        price == Slipped(level)
        take == Take(level) IN
    /\ ~done /\ at <= Len(call.levels)
    /\ price \in 1..(Scale - 1) /\ ~Beyond(level) /\ take > 0
    /\ fills' = Append(fills, [quantity |-> take, price |-> price,
                               fee |-> Fee(take, price), level |-> at])
    /\ remaining' = remaining - take
    /\ budget' = IF call.side = "BUY" THEN budget - Cost(take, price) ELSE budget
    /\ done' = (remaining' = 0)
    /\ at' = at + 1
    /\ UNCHANGED call

Next == Stop \/ SkipLevel \/ TakeLevel

Spec == Init /\ [][Next]_vars

----------------------------------------------------------------------------
Fill == [quantity : Nat \ {0}, price : 1..(Scale - 1), fee : Nat, level : Nat \ {0}]

TypeOK ==
    /\ call \in Call
    /\ at \in 1..(Len(call.levels) + 1)
    /\ remaining \in Nat /\ budget \in Nat
    /\ fills \in Seq(Fill)
    /\ done \in BOOLEAN

\* The money of the first n fills.
SpentOn ==
    LET f[n \in 0..Len(fills)] ==
          IF n = 0 THEN 0
          ELSE f[n - 1] + fills[n].quantity * fills[n].price + fills[n].fee
    IN f[Len(fills)]

\* A BUY never costs more than its budget, whatever the rounding of prices and
\* fees, and the loop accounts for every unit of it.
WithinBudget ==
    call.side = "BUY" => budget >= 0 /\ budget = call.budget - SpentOn

\* Each level gives a fill once, of a tenth of it at most, at a price that is not
\* better than displayed and within the limit of the order.
FillsWithinBook ==
    \A i \in 1..Len(fills) :
        LET f == fills[i]
            displayed == call.levels[f.level] IN
        /\ f.level < at /\ \A k \in 1..(i - 1) : fills[k].level < f.level
        /\ Depth * f.quantity <= displayed.size
        /\ IF call.side = "BUY" THEN displayed.price <= f.price /\ f.price <= call.limit
                                ELSE call.limit <= f.price /\ f.price <= displayed.price

\* A SELL never sells more than was asked for, and stops short only when the
\* book within its limit is used up.
SoldOut ==
    done /\ call.side = "SELL" /\ remaining > 0 =>
        \A i \in 1..Len(call.levels) :
            LET level == call.levels[i] IN
            (Slipped(level) \in 1..(Scale - 1) /\ ~Beyond(level) /\ Available(level) > 0)
              => \E k \in 1..Len(fills) : fills[k].level = i
                                           /\ fills[k].quantity = Available(level)

\* Rates are a half at most, and the asks are apart by what the rounding of a fee may
\* differ between them: otherwise a level may be the cheaper one, fee included, though its
\* price is the higher one.
Step(c) == IF c.model = "kalshi" THEN Cent ELSE 3 * Tick
Spaced(c) ==
    /\ 2 * c.rate <= RateBase
    /\ \A i, j \in 1..Len(c.levels) :
          i < j => c.levels[i].price + Step(c) <= c.levels[j].price

\* No share is bought or sold at a worse price while a better level still has one.
BestPriceFirst ==
    (call.side = "BUY" => Spaced(call)) =>
        \A k \in 1..Len(fills) : \A i \in 1..(fills[k].level - 1) :
            LET level == call.levels[i] IN
            (Slipped(level) \in 1..(Scale - 1) /\ Available(level) > 0)
              => \E j \in 1..Len(fills) : fills[j].level = i
                                           /\ fills[j].quantity = Available(level)

\* The fills of an order keep to the book, use it up, and take its best prices first.
FillsAreSound == TypeOK /\ FillsWithinBook /\ SoldOut /\ BestPriceFirst
=============================================================================
