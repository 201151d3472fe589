---------------------------- MODULE MarketProofs ----------------------------
(***************************************************************************)
(* Theorems about what is computed from market data and by the assistants  *)
(* that study it: the matching of an order against a book (for every book, *)
(* order, fee rate and scale), the comparison of two histories in time,    *)
(* the signals and usable quotes of one market, graphs of assistants, the  *)
(* evidence a run is given, and the grouping of a report's lists.          *)
(***************************************************************************)
EXTENDS MatchOrder, Alignment, MarketSignals, AssistantGraphs, ResearchContext, NarrativeLists,
        Sums, FiniteSetTheorems, NaturalsInduction, WellFoundedInduction, TLAPS

----------------------------------------------------------------------------
(* Matching of an order.  The arithmetic is in lemmas about division; the  *)
(* invariant adds to TypeOK that a fill refers to a level the loop has     *)
(* left behind.  First, integer division.                                  *)

\* A quotient of natural numbers is a natural number.
LEMMA DivNat == ASSUME NEW a \in Nat, NEW b \in Nat \ {0} PROVE a \div b \in Nat
  BY SMT

\* A quotient is at least k when the dividend is at least k times the divisor.
LEMMA DivLower ==
    ASSUME NEW a \in Nat, NEW b \in Nat \ {0}, NEW k \in Nat, k * b <= a
    PROVE  k <= a \div b
  BY SMT

\* It is at most k when the dividend is below k + 1 times the divisor.
LEMMA DivUpper ==
    ASSUME NEW a \in Nat, NEW b \in Nat \ {0}, NEW k \in Nat, a < (k + 1) * b
    PROVE  a \div b <= k
  BY SMT

\* Multiplying back does not exceed the dividend.
LEMMA DivBack ==
    ASSUME NEW a \in Nat, NEW b \in Nat \ {0} PROVE b * (a \div b) <= a
  BY SMT

\* Products of natural numbers are natural numbers.
LEMMA ProductNat == ASSUME NEW a \in Nat, NEW b \in Nat PROVE a * b \in Nat
  BY SMT

\* Multiplication is monotone.
LEMMA ProductMonotone ==
    ASSUME NEW a \in Nat, NEW b \in Nat, NEW c \in Nat, a <= b
    PROVE  c * a <= c * b
  BY SMT

\* A sum divided after adding half of the divisor is a natural number.
LEMMA HalfUpNat == ASSUME NEW a \in Nat, NEW b \in Nat \ {0} PROVE HalfUp(a, b) \in Nat
<1>1. 2 * a + b \in Nat /\ 2 * b \in Nat \ {0}
  OBVIOUS
<1>2. QED
  BY <1>1, DivNat DEF HalfUp

LEMMA CeilingNat ==
    ASSUME NEW a \in Nat, NEW b \in Nat \ {0} PROVE Ceiling(a, b) \in Nat
<1>1. a + b - 1 \in Nat
  OBVIOUS
<1>2. QED
  BY <1>1, DivNat DEF Ceiling

\* A nonempty set of natural numbers has a least element.
LEMMA LeastNatural ==
    ASSUME NEW S, S \subseteq Nat, S # {} PROVE \E r \in S : \A s \in S : r <= s
<1>1. \E r \in S : \A s \in S : ~(<<s, r>> \in OpToRel(<, Nat))
  BY WFMin, NatLessThanWellFounded, Zenon
<1>2. \A r, s \in Nat : <<s, r>> \in OpToRel(<, Nat) <=> s < r
  BY DEF OpToRel
<1>3. \A r, s \in S : s < r \/ r <= s
  OBVIOUS
<1>4. QED
  BY <1>1, <1>2, <1>3

----------------------------------------------------------------------------
(* Fees, prices and the shares of a level *)

BookLevel == [price : 1..(Scale - 1), size : Nat \ {0}]

LEMMA CallTypes ==
    ASSUME call \in Inputs
    PROVE  /\ call.side \in {"BUY", "SELL"} /\ call.model \in {"kalshi", "polymarket"}
           /\ call.quantity \in Nat /\ call.limit \in Nat /\ call.budget \in Nat
           /\ call.slippage \in Nat /\ call.slippage <= SlippageBase
           /\ call.rate \in Nat
           /\ call.levels \in Seq(BookLevel)
  BY InputsAssumption DEF Call, BookLevel

LEMMA FeeNat ==
    ASSUME call \in Inputs, NEW q \in Nat, NEW price \in 0..Scale
    PROVE  Fee(q, price) \in Nat
<1> DEFINE n == call.rate * q * price * (Scale - price)
           d == RateBase * Scale
<1>1. n \in Nat
  <2>1. price \in Nat /\ Scale - price \in Nat
    BY ScaleAssumption
  <2>2. call.rate * q \in Nat
    BY CallTypes, ProductNat
  <2>3. call.rate * q * price \in Nat
    BY <2>1, <2>2, ProductNat
  <2>4. QED
    BY <2>1, <2>3, ProductNat
<1>2. d \in Nat \ {0}
  BY ScaleAssumption, SMT
<1>3. d * Cent \in Nat \ {0} /\ d * Tick \in Nat \ {0}
  <2> HIDE DEF d
  <2>1. QED
    BY <1>2, ScaleAssumption, SMT
<1> HIDE DEF n, d
<1>4. Ceiling(n, d * Cent) \in Nat /\ HalfUp(n, d * Tick) \in Nat
  BY <1>1, <1>3, CeilingNat, HalfUpNat
<1>5. Cent * Ceiling(n, d * Cent) \in Nat /\ Tick * HalfUp(n, d * Tick) \in Nat
  BY <1>4, ScaleAssumption, ProductNat
<1>6. QED
  BY <1>5 DEF Fee, n, d

LEMMA CostNat ==
    ASSUME call \in Inputs, NEW q \in Nat, NEW price \in 0..Scale
    PROVE  Cost(q, price) \in Nat
<1>1. price \in Nat
  BY ScaleAssumption
<1>2. q * price \in Nat
  BY <1>1, ProductNat
<1>3. QED
  BY <1>2, FeeNat DEF Cost

\* The loop ends at the largest number of shares whose cost is within the budget.
LEMMA AffordableFits ==
    ASSUME call \in Inputs, budget \in Nat, NEW limit \in Nat, NEW price \in 0..Scale
    PROVE  /\ Affordable(limit, price) \in 0..limit
           /\ Affordable(limit, price) = 0
                \/ Cost(Affordable(limit, price), price) <= budget
           /\ \A k \in (Affordable(limit, price) + 1)..limit : Cost(k, price) > budget
<1> DEFINE Fits(n) == n = 0 \/ Cost(n, price) <= budget
           Rest == {r \in 0..limit : Fits(limit - r)}
           Highest(n) == Fits(n) /\ \A k \in (n + 1)..limit : Cost(k, price) > budget
<1>1. \E n \in 0..limit : Highest(n)
  <2>1. limit \in Rest
    OBVIOUS
  <2>2. Rest \subseteq Nat
    OBVIOUS
  <2>3. PICK r \in Rest : \A s \in Rest : r <= s
    <3> HIDE DEF Rest
    <3>1. Rest # {}
      BY <2>1
    <3>2. QED
      BY <2>2, <3>1, LeastNatural
  <2>4. r \in 0..limit /\ Fits(limit - r)
    OBVIOUS
  <2>5. ASSUME NEW k \in (limit - r + 1)..limit PROVE Cost(k, price) > budget
    <3>1. k \in Nat /\ limit - k \in 0..limit /\ limit - k < r
      BY <2>4, <2>5
    <3>2. limit - k \notin Rest
      <4> HIDE DEF Rest
      <4>1. limit - k \in Nat /\ r \in Nat
        BY <3>1, <2>2, <2>3
      <4>2. QED
        BY <3>1, <4>1, <2>3
    <3>3. ~Fits(limit - (limit - k))
      BY <3>1, <3>2
    <3>4. limit - (limit - k) = k
      BY <3>1
    <3>5. Cost(k, price) \in Nat
      BY <3>1, CostNat
    <3>6. ~(Cost(k, price) <= budget)
      BY <3>3, <3>4
    <3>7. QED
      BY <3>5, <3>6
  <2>6. limit - r \in 0..limit
    BY <2>4
  <2>7. QED
    BY <2>4, <2>5, <2>6
<1>2. Affordable(limit, price) = CHOOSE n \in 0..limit : Highest(n)
  BY DEF Affordable
<1>3. Affordable(limit, price) \in 0..limit /\ Highest(Affordable(limit, price))
  <2> HIDE DEF Highest
  <2>1. QED
    BY <1>1, <1>2
<1>4. QED
  BY <1>3

\* Slippage is adverse: a purchase is not cheaper than displayed, a sale brings
\* not more.
LEMMA SlippedBounds ==
    ASSUME call \in Inputs, NEW level \in BookLevel
    PROVE  /\ Slipped(level) \in Nat
           /\ call.side = "BUY" => level.price <= Slipped(level)
           /\ call.side = "SELL" => Slipped(level) <= level.price
<1> DEFINE p == level.price
           b == SlippageBase
           s == call.slippage
<1>1. p \in Nat /\ b \in Nat \ {0} /\ s \in Nat /\ s <= b
  <2>1. p \in Nat
    BY ScaleAssumption DEF BookLevel
  <2>2. b \in Nat \ {0} /\ s \in Nat /\ s <= b
    BY CallTypes, ScaleAssumption
  <2>3. QED
    BY <2>1, <2>2
<1> HIDE DEF p, b, s
<1>2. p * (b + s) \in Nat /\ p * (b - s) \in Nat
  BY <1>1, ProductNat
<1>3. HalfUp(p * (b + s), b) \in Nat /\ HalfUp(p * (b - s), b) \in Nat
  BY <1>1, <1>2, HalfUpNat
<1>4. p <= HalfUp(p * (b + s), b)
  <2>1. b * p <= (b + s) * p
    BY <1>1, SMT
  <2>2. p * (2 * b) <= 2 * (p * (b + s)) + b
    BY <1>1, <1>2, <2>1, SMT
  <2>3. 2 * (p * (b + s)) + b \in Nat /\ 2 * b \in Nat \ {0}
    BY <1>1, <1>2
  <2>4. QED
    BY <1>1, <2>2, <2>3, DivLower DEF HalfUp
<1>5. HalfUp(p * (b - s), b) <= p
  <2>1. p * (b - s) <= p * b
    BY <1>1, ProductMonotone
  <2>2. p * b \in Nat /\ (p + 1) * (2 * b) = 2 * (p * b) + 2 * b
    BY <1>1, SMT
  <2>3. 2 * (p * (b - s)) + b < (p + 1) * (2 * b)
    BY <1>1, <1>2, <2>1, <2>2
  <2>4. 2 * (p * (b - s)) + b \in Nat /\ 2 * b \in Nat \ {0}
    BY <1>1, <1>2
  <2>5. QED
    BY <1>1, <2>3, <2>4, DivUpper DEF HalfUp
<1>6. Slipped(level) = HalfUp(p * (IF call.side = "BUY" THEN b + s ELSE b - s), b)
  BY DEF Slipped, p, b, s
<1>7. QED
  BY <1>3, <1>4, <1>5, <1>6, CallTypes DEF p

\* What is taken from a level fits the rest of the order, the visible part of
\* the level and, when buying, the budget.
LEMMA TakeBounds ==
    ASSUME call \in Inputs, remaining \in Nat, budget \in Nat, NEW level \in BookLevel,
           Slipped(level) \in 1..(Scale - 1)
    PROVE  /\ Take(level) \in Nat
           /\ Take(level) <= remaining
           /\ Depth * Take(level) <= level.size
           /\ call.side = "BUY" /\ Take(level) > 0 =>
                Cost(Take(level), Slipped(level)) <= budget
<1> DEFINE wanted == Least(remaining, Available(level))
           price == Slipped(level)
           limit == Least(wanted, Payable(price))
<1>1. Available(level) \in Nat /\ Depth * Available(level) <= level.size
  BY ScaleAssumption, DivNat, DivBack DEF Available, BookLevel
<1>2. wanted \in Nat /\ wanted <= remaining /\ wanted <= Available(level)
  BY <1>1 DEF Least
<1>3. Payable(price) \in Nat
  <2>1. price \in Nat \ {0} /\ Scale - price \in Nat /\ RateBase \in Nat \ {0}
          /\ Scale \in Nat \ {0}
    BY ScaleAssumption
  <2> HIDE DEF price
  <2>2. budget * RateBase * Scale \in Nat
    BY <2>1, ProductNat
  <2>3. price * RateBase * Scale \in Nat \ {0}
    <3>1. price * RateBase \in Nat \ {0}
      BY <2>1, SMT
    <3>2. QED
      BY <2>1, <3>1, SMT
  <2>4. call.rate * price * (Scale - price) \in Nat
    <3>1. call.rate * price \in Nat
      BY <2>1, CallTypes, ProductNat
    <3>2. QED
      BY <2>1, <3>1, ProductNat
  <2>5. price * RateBase * Scale + call.rate * price * (Scale - price) \in Nat \ {0}
    BY <2>3, <2>4
  <2>6. QED
    BY <2>2, <2>5, DivNat DEF Payable
<1>4. limit \in Nat /\ limit <= wanted
  BY <1>2, <1>3 DEF Least
<1>5. price \in 0..Scale
  BY ScaleAssumption
<1>6. /\ Affordable(limit, price) \in 0..limit
      /\ Affordable(limit, price) = 0
           \/ Cost(Affordable(limit, price), price) <= budget
  <2> HIDE DEF limit, price
  <2>1. QED
    BY <1>4, <1>5, AffordableFits
<1>7. Take(level) = IF call.side = "BUY" THEN Affordable(limit, price) ELSE wanted
  BY DEF Take
<1> HIDE DEF limit, wanted, price
<1>8. Take(level) \in Nat /\ Take(level) <= wanted
  BY <1>2, <1>4, <1>6, <1>7
<1>9. Depth * Take(level) <= level.size
  <2>1. Depth * Take(level) <= Depth * Available(level)
    BY <1>1, <1>2, <1>8, ProductMonotone, ScaleAssumption
  <2>2. Depth * Take(level) \in Nat /\ Depth * Available(level) \in Nat
    BY <1>1, <1>8, ProductNat, ScaleAssumption
  <2>3. QED
    BY <1>1, <2>1, <2>2 DEF BookLevel
<1>10. QED
  BY <1>2, <1>6, <1>7, <1>8, <1>9 DEF price

----------------------------------------------------------------------------
(* The invariant *)

Inv == call \in Inputs /\ TypeOK /\ FillsWithinBook

LEMMA InitInv == Init => Inv
<1> SUFFICES ASSUME Init PROVE Inv
  OBVIOUS
<1>1. call \in Inputs /\ call \in Call
  BY InputsAssumption DEF Init
<1>2. Len(call.levels) \in Nat
  BY <1>1, CallTypes
<1>3. TypeOK
  BY <1>1, <1>2, CallTypes DEF Init, TypeOK, Rejected
<1>4. FillsWithinBook
  BY DEF Init, FillsWithinBook
<1>5. QED
  BY <1>1, <1>3, <1>4 DEF Inv

\* One iteration that takes shares: the fill is typed and within the book.
LEMMA TakeInv == ASSUME Inv, TakeLevel PROVE Inv'
<1> DEFINE level == call.levels[at]
           fill == [quantity |-> Take(level), price |-> Slipped(level),
                    fee |-> Fee(Take(level), Slipped(level)), level |-> at]
<1>1. /\ call \in Inputs /\ call \in Call /\ call.levels \in Seq(BookLevel)
      /\ at \in 1..Len(call.levels) /\ Len(call.levels) \in Nat
      /\ remaining \in Nat /\ budget \in Nat /\ fills \in Seq(Fill)
  <2>1. call \in Inputs
    BY DEF Inv
  <2>2. at \in 1..(Len(call.levels) + 1) /\ remaining \in Nat /\ budget \in Nat
          /\ fills \in Seq(Fill) /\ call \in Call
    BY DEF Inv, TypeOK
  <2>3. call.levels \in Seq(BookLevel)
    BY <2>1, CallTypes
  <2>4. Len(call.levels) \in Nat
    BY <2>3
  <2>5. at <= Len(call.levels)
    BY DEF TakeLevel
  <2>6. QED
    BY <2>1, <2>2, <2>3, <2>4, <2>5
<1>2. level \in BookLevel
  BY <1>1
<1>3. Slipped(level) \in 1..(Scale - 1) /\ ~Beyond(level) /\ Take(level) > 0
  BY DEF TakeLevel
<1>4. /\ fills' = Append(fills, fill)
      /\ remaining' = remaining - Take(level)
      /\ budget' = IF call.side = "BUY"
                   THEN budget - Cost(Take(level), Slipped(level)) ELSE budget
      /\ done' = (remaining' = 0) /\ at' = at + 1 /\ call' = call
  BY DEF TakeLevel
<1>5. /\ Take(level) \in Nat \ {0} /\ Take(level) <= remaining
      /\ Depth * Take(level) <= level.size
      /\ call.side = "BUY" => Cost(Take(level), Slipped(level)) <= budget
  BY <1>1, <1>2, <1>3, TakeBounds
<1>6. /\ Cost(Take(level), Slipped(level)) \in Nat
      /\ Fee(Take(level), Slipped(level)) \in Nat
  <2>1. Slipped(level) \in 0..Scale
    BY <1>3, ScaleAssumption
  <2>2. QED
    BY <1>1, <1>5, <2>1, CostNat, FeeNat
<1>7. fill \in Fill
  <2> HIDE DEF level
  <2>1. QED
    BY <1>1, <1>3, <1>5, <1>6 DEF Fill
<1>8. /\ call.side = "BUY" => level.price <= Slipped(level)
                                /\ Slipped(level) <= call.limit
      /\ call.side = "SELL" => call.limit <= Slipped(level)
                                 /\ Slipped(level) <= level.price
  <2> DEFINE p == level.price
             q == Slipped(level)
  <2>1. p \in Nat /\ q \in Nat /\ call.limit \in Nat
    <3>1. p \in Nat
      BY <1>2 DEF BookLevel
    <3>2. q \in Nat
      <4> HIDE DEF level
      <4>1. QED
        BY <1>3, ScaleAssumption
    <3>3. QED
      BY <1>1, <3>1, <3>2, CallTypes
  <2>2. /\ call.side = "BUY" => p <= q
        /\ call.side = "SELL" => q <= p
    <3> HIDE DEF level
    <3>1. QED
      BY <1>1, <1>2, SlippedBounds DEF p, q
  <2>3. ~(IF call.side = "BUY" THEN q > call.limit ELSE q < call.limit)
    BY <1>3 DEF Beyond
  <2> HIDE DEF p, q
  <2>4. /\ call.side = "BUY" => p <= q /\ q <= call.limit
        /\ call.side = "SELL" => call.limit <= q /\ q <= p
    BY <2>1, <2>2, <2>3
  <2>5. QED
    BY <2>4 DEF p, q
<1>9. /\ fill.quantity = Take(level) /\ fill.price = Slipped(level)
      /\ fill.level = at
  OBVIOUS
<1>10. call.levels[fill.level] = level
  OBVIOUS
<1>11. TypeOK'
  <2> HIDE DEF fill, level
  <2>1. fills' \in Seq(Fill)
    BY <1>1, <1>4, <1>7
  <2>2. remaining' \in Nat
    BY <1>1, <1>4, <1>5
  <2>3. budget' \in Nat
    BY <1>1, <1>4, <1>5, <1>6
  <2>4. at' \in 1..(Len(call.levels) + 1)
    BY <1>1, <1>4
  <2>5. done' \in BOOLEAN
    BY <1>4
  <2>6. QED
    BY <1>1, <1>4, <2>1, <2>2, <2>3, <2>4, <2>5 DEF TypeOK
<1>12. FillsWithinBook'
  <2> HIDE DEF fill, level
  <2>1. \A i \in 1..Len(fills) :
          /\ fills'[i] = fills[i] /\ fills[i] \in Fill
          /\ fills[i].level < at
    BY <1>1, <1>4, <1>7 DEF Inv, FillsWithinBook
  <2>2. Len(fills') = Len(fills) + 1 /\ fills'[Len(fills) + 1] = fill
          /\ Len(fills) \in Nat
    BY <1>1, <1>4, <1>7
  <2>3. SUFFICES ASSUME NEW i \in 1..(Len(fills) + 1)
                 PROVE  LET f == fills'[i]
                            displayed == call.levels[f.level] IN
                        /\ f.level < at + 1
                        /\ \A k \in 1..(i - 1) : fills'[k].level < f.level
                        /\ Depth * f.quantity <= displayed.size
                        /\ IF call.side = "BUY"
                           THEN displayed.price <= f.price /\ f.price <= call.limit
                           ELSE call.limit <= f.price /\ f.price <= displayed.price
    BY <1>4, <2>2 DEF FillsWithinBook
  <2>4. CASE i \in 1..Len(fills)
    <3>1. fills'[i] = fills[i] /\ fills[i].level < at /\ at \in Nat
            /\ fills[i].level \in Nat
      <4>1. fills'[i] = fills[i] /\ fills[i] \in Fill /\ fills[i].level < at
        BY <2>1, <2>4
      <4>2. fills[i].level \in Nat
        BY <4>1 DEF Fill
      <4>3. at \in Nat
        BY <1>1
      <4>4. QED
        BY <4>1, <4>2, <4>3
    <3>2. \A k \in 1..(i - 1) : fills'[k] = fills[k]
      BY <2>1, <2>2, <2>4
    <3>3. LET f == fills[i]
              displayed == call.levels[f.level] IN
          /\ \A k \in 1..(i - 1) : fills[k].level < f.level
          /\ Depth * f.quantity <= displayed.size
          /\ IF call.side = "BUY"
             THEN displayed.price <= f.price /\ f.price <= call.limit
             ELSE call.limit <= f.price /\ f.price <= displayed.price
      BY <2>4 DEF Inv, FillsWithinBook
    <3>4. fills[i].level < at + 1
      BY <3>1
    <3>5. QED
      BY <3>1, <3>2, <3>3, <3>4
  <2>5. CASE i = Len(fills) + 1
    <3>1. fills'[i] = fill
      BY <2>2, <2>5
    <3>2. \A k \in 1..(i - 1) : fills'[k].level < at
      BY <2>1, <2>2, <2>5
    <3>3. at < at + 1
      BY <1>1
    <3>4. call.side \in {"BUY", "SELL"}
      BY <1>1, CallTypes
    <3>5. QED
      BY <1>5, <1>8, <1>9, <1>10, <3>1, <3>2, <3>3, <3>4
  <2>6. QED
    BY <2>2, <2>3, <2>4, <2>5
<1>13. QED
  BY <1>1, <1>4, <1>11, <1>12 DEF Inv

LEMMA StepInv == Inv /\ [Next]_vars => Inv'
<1> SUFFICES ASSUME Inv, [Next]_vars PROVE Inv'
  OBVIOUS
<1>1. CASE Stop
  BY <1>1 DEF Stop, Inv, TypeOK, FillsWithinBook
<1>2. CASE SkipLevel
  <2>1. /\ call' = call /\ remaining' = remaining /\ budget' = budget
        /\ fills' = fills /\ done' = done /\ at' = at + 1
        /\ at <= Len(call.levels)
    BY <1>2 DEF SkipLevel
  <2>2. at \in Nat /\ Len(call.levels) \in Nat /\ fills \in Seq(Fill)
          /\ at \in 1..Len(call.levels)
    BY <2>1, CallTypes DEF Inv, TypeOK
  <2>3. TypeOK'
    BY <2>1, <2>2 DEF Inv, TypeOK
  <2>4. FillsWithinBook'
    <3>1. \A i \in 1..Len(fills) : fills[i].level \in Nat /\ fills[i].level < at
      <4>1. \A i \in 1..Len(fills) : fills[i] \in Fill
        BY <2>2
      <4>2. \A i \in 1..Len(fills) : fills[i].level < at
        BY DEF Inv, FillsWithinBook
      <4>3. QED
        BY <4>1, <4>2 DEF Fill
    <3>2. \A i \in 1..Len(fills) : fills[i].level < at + 1
      BY <2>2, <3>1
    <3>3. SUFFICES ASSUME NEW i \in 1..Len(fills)
                   PROVE  LET f == fills[i]
                              displayed == call.levels[f.level] IN
                          /\ f.level < at + 1
                          /\ \A k \in 1..(i - 1) : fills[k].level < f.level
                          /\ Depth * f.quantity <= displayed.size
                          /\ IF call.side = "BUY"
                             THEN displayed.price <= f.price /\ f.price <= call.limit
                             ELSE call.limit <= f.price /\ f.price <= displayed.price
      BY <2>1 DEF FillsWithinBook
    <3>4. LET f == fills[i]
              displayed == call.levels[f.level] IN
          /\ \A k \in 1..(i - 1) : fills[k].level < f.level
          /\ Depth * f.quantity <= displayed.size
          /\ IF call.side = "BUY"
             THEN displayed.price <= f.price /\ f.price <= call.limit
             ELSE call.limit <= f.price /\ f.price <= displayed.price
      BY DEF Inv, FillsWithinBook
    <3>5. QED
      BY <3>2, <3>4
  <2>5. QED
    BY <2>1, <2>3, <2>4 DEF Inv
<1>3. CASE TakeLevel
  BY <1>3, TakeInv
<1>4. CASE UNCHANGED vars
  BY <1>4 DEF vars, Inv, TypeOK, FillsWithinBook
<1>5. QED
  BY <1>1, <1>2, <1>3, <1>4 DEF Next

\* match_order only meets values of the types of TypeOK; in particular the
\* budget of a purchase never gets negative, whatever fees round to.
THEOREM TypeCorrect == Spec => []TypeOK
<1>1. Inv => TypeOK
  BY DEF Inv
<1>2. QED
  BY <1>1, InitInv, StepInv, PTL DEF Spec

\* Fills take a level once, at most its visible part, at an adverse price within
\* the limit of the order.
THEOREM FillsStayWithinBook == Spec => []FillsWithinBook
<1>1. Inv => FillsWithinBook
  BY DEF Inv
<1>2. QED
  BY <1>1, InitInv, StepInv, PTL DEF Spec


----------------------------------------------------------------------------
(* What a purchase has spent.  SpentOn is what any function that adds up   *)
(* the fills gives; the invariant says that there is one, and that each    *)
(* of them gives what is missing from the budget.                          *)

Plus(total, fill) == total + fill.quantity * fill.price + fill.fee
Totals(s, f) == f = [n \in 0..Len(s) |-> IF n = 0 THEN 0 ELSE Plus(f[n - 1], s[n])]

Accounted ==
    /\ \E f : Totals(fills, f)
    /\ call.side = "BUY" =>
         \A f : Totals(fills, f) => f[Len(fills)] = call.budget - budget

LEMMA SpentOnTotals == SpentOn = (CHOOSE f : Totals(fills, f))[Len(fills)]
  BY DEF SpentOn, Totals, Plus

\* A fill adds its money to the totals.
LEMMA TotalsGrow ==
    ASSUME NEW s \in Seq(Fill), NEW fill \in Fill
    PROVE  /\ (\E f : Totals(s, f)) => \E g : Totals(Append(s, fill), g)
           /\ \A g : Totals(Append(s, fill), g) =>
                \E f : Totals(s, f) /\ g[Len(s) + 1] = Plus(f[Len(s)], fill)
<1> DEFINE t == Append(s, fill)
<1>1. /\ Len(s) \in Nat /\ Len(t) = Len(s) + 1 /\ t[Len(s) + 1] = fill
      /\ \A n \in 1..Len(s) : t[n] = s[n]
  OBVIOUS
<1> HIDE DEF t
<1>2. ASSUME NEW f, Totals(s, f) PROVE \E g : Totals(t, g)
  <2> DEFINE g == [n \in 0..Len(t) |-> IF n = Len(t) THEN Plus(f[Len(s)], fill) ELSE f[n]]
  <2>1. f = [n \in 0..Len(s) |-> IF n = 0 THEN 0 ELSE Plus(f[n - 1], s[n])]
    BY <1>2 DEF Totals
  <2>2. ASSUME NEW n \in 0..Len(t)
        PROVE  g[n] = IF n = 0 THEN 0 ELSE Plus(g[n - 1], t[n])
    <3>1. CASE n = Len(t)
      <4>1. n # 0 /\ n - 1 = Len(s) /\ n - 1 \in 0..Len(t) /\ n - 1 # Len(t) /\ t[n] = fill
        BY <1>1, <3>1
      <4>2. g[n - 1] = f[Len(s)]
        BY <4>1
      <4>3. QED
        BY <3>1, <4>1, <4>2
    <3>2. CASE n # Len(t)
      <4>1. n \in 0..Len(s) /\ (n # 0 => n - 1 \in 0..Len(t) /\ n - 1 # Len(t) /\ n \in 1..Len(s))
        BY <1>1, <3>2
      <4>2. g[n] = f[n] /\ (n # 0 => g[n - 1] = f[n - 1] /\ t[n] = s[n])
        BY <1>1, <3>2, <4>1
      <4>3. f[n] = IF n = 0 THEN 0 ELSE Plus(f[n - 1], s[n])
        BY <2>1, <4>1
      <4>4. QED
        BY <4>2, <4>3
    <3>3. QED
      BY <3>1, <3>2
  <2>3. g = [n \in 0..Len(t) |-> g[n]]
    OBVIOUS
  <2> HIDE DEF g
  <2>4. g = [n \in 0..Len(t) |-> IF n = 0 THEN 0 ELSE Plus(g[n - 1], t[n])]
    BY <2>2, <2>3
  <2>5. QED
    BY <2>4 DEF Totals
<1>3. ASSUME NEW g, Totals(t, g)
      PROVE  \E f : Totals(s, f) /\ g[Len(s) + 1] = Plus(f[Len(s)], fill)
  <2> DEFINE f == [n \in 0..Len(s) |-> g[n]]
  <2>1. g = [n \in 0..Len(t) |-> IF n = 0 THEN 0 ELSE Plus(g[n - 1], t[n])]
    BY <1>3 DEF Totals
  <2>2. \A n \in 0..Len(t) : g[n] = IF n = 0 THEN 0 ELSE Plus(g[n - 1], t[n])
    BY <2>1
  <2>3. ASSUME NEW n \in 0..Len(s)
        PROVE  f[n] = IF n = 0 THEN 0 ELSE Plus(f[n - 1], s[n])
    <3>1. n \in 0..Len(t) /\ (n # 0 => n - 1 \in 0..Len(s) /\ n \in 1..Len(s))
      BY <1>1
    <3>2. f[n] = g[n] /\ (n # 0 => f[n - 1] = g[n - 1] /\ t[n] = s[n])
      BY <1>1, <3>1
    <3>3. QED
      BY <2>2, <3>1, <3>2
  <2>4. f = [n \in 0..Len(s) |-> f[n]] /\ f[Len(s)] = g[Len(s)]
    BY <1>1
  <2> HIDE DEF f
  <2>5. Totals(s, f)
    BY <2>3, <2>4 DEF Totals
  <2>6. g[Len(s) + 1] = Plus(g[Len(s)], fill)
    <3>1. Len(s) + 1 \in 0..Len(t) /\ Len(s) + 1 # 0 /\ Len(s) + 1 - 1 = Len(s)
      BY <1>1
    <3>2. QED
      BY <1>1, <2>2, <3>1
  <2>7. QED
    BY <2>4, <2>5, <2>6
<1>4. QED
  BY <1>2, <1>3 DEF t

LEMMA AccountedInitially == Init => Accounted
<1> SUFFICES ASSUME Init PROVE Accounted
  OBVIOUS
<1>1. fills = <<>> /\ Len(fills) = 0 /\ budget = call.budget /\ call.budget \in Int
  BY CallTypes DEF Init
<1>2. \A f : Totals(fills, f) <=> f = [n \in 0..0 |-> 0]
  <2>1. ASSUME NEW f
        PROVE  [n \in 0..0 |-> IF n = 0 THEN 0 ELSE Plus(f[n - 1], fills[n])] = [n \in 0..0 |-> 0]
    OBVIOUS
  <2>2. QED
    BY <1>1, <2>1 DEF Totals
<1>3. \A f : Totals(fills, f) => f[0] = 0
  BY <1>2
<1>4. call.budget - budget = 0
  BY <1>1
<1>5. QED
  BY <1>1, <1>2, <1>3, <1>4 DEF Accounted

LEMMA AccountedStep == Inv /\ Accounted /\ [Next]_vars => Accounted'
<1> SUFFICES ASSUME Inv, Accounted, [Next]_vars PROVE Accounted'
  OBVIOUS
<1>1. CASE UNCHANGED <<call, budget, fills>>
  BY <1>1 DEF Accounted, Totals
<1>2. CASE TakeLevel
  <2> DEFINE take == Take(call.levels[at])
             price == Slipped(call.levels[at])
             fill == [quantity |-> take, price |-> price, fee |-> Fee(take, price), level |-> at]
  <2>1. /\ fills' = Append(fills, fill) /\ call' = call
        /\ budget' = IF call.side = "BUY" THEN budget - Cost(take, price) ELSE budget
    BY <1>2 DEF TakeLevel
  <2>2. Inv'
    BY <1>2, TakeInv
  <2>3. fills \in Seq(Fill) /\ fills' \in Seq(Fill) /\ budget \in Nat /\ budget' \in Nat
          /\ call.budget \in Nat
    BY <2>2, CallTypes DEF Inv, TypeOK
  <2>4. fill \in Fill
    <3>1. Len(fills) \in Nat /\ Len(fills') = Len(fills) + 1 /\ fills'[Len(fills) + 1] = fill
      <4> HIDE DEF fill
      <4>1. QED
        BY <2>1, <2>3
    <3>2. fills'[Len(fills) + 1] \in Fill
      <4> HIDE DEF fill
      <4>1. Len(fills) + 1 \in 1..Len(fills')
        BY <3>1
      <4>2. QED
        BY <2>3, <4>1
    <3>3. QED
      BY <3>1, <3>2
  <2>5. Cost(take, price) \in Int /\ \A n \in Int : Plus(n, fill) = n + Cost(take, price)
    <3>1. fill.quantity = take /\ fill.price = price /\ fill.fee = Fee(take, price)
      OBVIOUS
    <3> HIDE DEF fill, take, price
    <3>2. take \in Nat /\ price \in Nat /\ Fee(take, price) \in Nat
      BY <2>4, <3>1, ScaleAssumption DEF Fill
    <3>3. take * price \in Nat
      BY <3>2, ProductNat
    <3> DEFINE product == take * price
    <3>4. /\ Cost(take, price) = product + Fee(take, price) /\ product \in Nat
          /\ \A n \in Int : Plus(n, fill) = n + product + Fee(take, price)
      BY <3>1, <3>3 DEF Cost, Plus
    <3> HIDE DEF product
    <3>5. QED
      BY <3>2, <3>4
  <2> DEFINE cost == Cost(take, price)
  <2>6. budget' = (IF call.side = "BUY" THEN budget - cost ELSE budget) /\ cost \in Int
          /\ \A n \in Int : Plus(n, fill) = n + cost
    BY <2>1, <2>5
  <2> HIDE DEF fill, take, price, cost
  <2>7. Len(fills) \in Nat /\ Len(fills') = Len(fills) + 1
    BY <2>1, <2>3
  <2>8. \E f : Totals(fills', f)
    BY <2>1, <2>3, <2>4, TotalsGrow DEF Accounted
  <2>9. ASSUME call.side = "BUY", NEW g, Totals(fills', g)
        PROVE  g[Len(fills')] = call.budget - budget'
    <3>1. PICK f : Totals(fills, f) /\ g[Len(fills) + 1] = Plus(f[Len(fills)], fill)
      BY <2>1, <2>3, <2>4, <2>9, TotalsGrow
    <3>2. f[Len(fills)] = call.budget - budget
      BY <2>9, <3>1 DEF Accounted
    <3> DEFINE total == f[Len(fills)]
    <3>3. g[Len(fills')] = total + cost /\ total = call.budget - budget /\ budget' = budget - cost
      <4>1. total = call.budget - budget /\ total \in Int
        BY <2>3, <3>2
      <4>2. g[Len(fills')] = Plus(total, fill)
        BY <2>7, <3>1
      <4> HIDE DEF total
      <4>3. QED
        BY <2>6, <2>9, <4>1, <4>2
    <3> DEFINE given == call.budget
    <3>4. given \in Int /\ budget \in Int
      BY <2>3
    <3>5. cost \in Int
      BY <2>6
    <3> HIDE DEF total, given
    <3>6. given - (budget - cost) = (given - budget) + cost
      BY <3>4, <3>5
    <3>7. QED
      BY <3>3, <3>6 DEF given
  <2>10. QED
    BY <2>1, <2>8, <2>9 DEF Accounted, Totals
<1>3. QED
  BY <1>1, <1>2 DEF Next, Stop, SkipLevel, vars

\* A purchase costs what is missing from its budget, fees and their rounding included,
\* and never more than the budget.
THEOREM BudgetHolds == Spec => []WithinBudget
<1>1. Inv /\ Accounted => WithinBudget
  <2> SUFFICES ASSUME Inv, Accounted, call.side = "BUY"
               PROVE  budget >= 0 /\ budget = call.budget - SpentOn
    BY DEF WithinBudget
  <2>1. budget \in Nat /\ call.budget \in Nat
    BY CallTypes DEF Inv, TypeOK
  <2>2. Totals(fills, CHOOSE f : Totals(fills, f))
    BY DEF Accounted
  <2>3. SpentOn = call.budget - budget
    BY <2>2, SpentOnTotals DEF Accounted
  <2>4. QED
    BY <2>1, <2>3
<1>2. Init => Inv /\ Accounted
  BY InitInv, AccountedInitially
<1>3. (Inv /\ Accounted) /\ [Next]_vars => (Inv /\ Accounted)'
  BY StepInv, AccountedStep
<1>4. QED
  BY <1>1, <1>2, <1>3, PTL DEF Spec

----------------------------------------------------------------------------
(* A sale uses up the book within its limit.  Behind the loop nothing is   *)
(* left; where it stops every later level is beyond the limit, because     *)
(* levels are sorted and slippage keeps their order.                       *)

Usable(i) ==
    Slipped(call.levels[i]) \in 1..(Scale - 1) /\ ~Beyond(call.levels[i])
Emptied(i) ==
    \E k \in 1..Len(fills) :
        fills[k].level = i /\ fills[k].quantity = Available(call.levels[i])

SoldSoFar ==
    call.side = "SELL" =>
      /\ remaining > 0 => \A i \in 1..Len(call.levels) :
           i < at /\ Usable(i) /\ Available(call.levels[i]) > 0 => Emptied(i)
      /\ done /\ remaining > 0 => \A i \in 1..Len(call.levels) : at <= i => ~Usable(i)

\* A larger dividend gives no smaller quotient.
LEMMA DivMonotone ==
    ASSUME NEW a \in Nat, NEW c \in Nat, a <= c, NEW b \in Nat \ {0}
    PROVE  a \div b <= c \div b
<1>1. a \div b \in Nat /\ b * (a \div b) <= a
  BY DivNat, DivBack
<1> DEFINE q == a \div b
<1>2. q \in Nat /\ q * b = b * q /\ b * q \in Nat
  BY <1>1, SMT
<1> HIDE DEF q
<1>3. q * b <= c
  BY <1>1, <1>2 DEF q
<1>4. q <= c \div b
  BY <1>2, <1>3, DivLower
<1>5. QED
  BY <1>4 DEF q

\* A sale brings no more at a level with a lower price.
LEMMA SlippedKeepsOrder ==
    ASSUME call \in Inputs, call.side = "SELL", NEW x \in BookLevel, NEW y \in BookLevel,
           y.price <= x.price
    PROVE  Slipped(y) <= Slipped(x)
<1> DEFINE p == x.price
           q == y.price
           b == SlippageBase
           s == SlippageBase - call.slippage
<1>1. p \in Nat /\ q \in Nat /\ q <= p /\ b \in Nat \ {0} /\ s \in Nat
  <2>1. p \in Nat /\ q \in Nat /\ q <= p
    BY ScaleAssumption DEF BookLevel
  <2>2. b \in Nat \ {0} /\ call.slippage \in Nat /\ call.slippage <= b
    BY CallTypes, ScaleAssumption
  <2>3. s \in Nat
    BY <2>2
  <2>4. QED
    BY <2>1, <2>2, <2>3
<1>2. Slipped(x) = HalfUp(p * s, b) /\ Slipped(y) = HalfUp(q * s, b)
  BY DEF Slipped
<1> HIDE DEF p, q, b, s
<1>3. s * q <= s * p /\ s * q = q * s /\ s * p = p * s
  <2>1. s * q <= s * p
    BY <1>1, ProductMonotone
  <2>2. s * q = q * s /\ s * p = p * s
    BY <1>1, SMT
  <2>3. QED
    BY <2>1, <2>2
<1>4. q * s \in Nat /\ p * s \in Nat
  BY <1>1, ProductNat
<1> DEFINE u == q * s
           v == p * s
<1>5. u \in Nat /\ v \in Nat /\ u <= v
  BY <1>3, <1>4
<1> HIDE DEF u, v
<1>6. 2 * u + b \in Nat /\ 2 * v + b \in Nat /\ 2 * u + b <= 2 * v + b /\ 2 * b \in Nat \ {0}
  BY <1>1, <1>5
<1>7. HalfUp(u, b) <= HalfUp(v, b)
  BY <1>6, DivMonotone DEF HalfUp
<1>8. QED
  BY <1>2, <1>7 DEF u, v

LEMMA SoldStep == Inv /\ SoldSoFar /\ [Next]_vars => SoldSoFar'
<1> SUFFICES ASSUME Inv, SoldSoFar, [Next]_vars PROVE SoldSoFar'
  OBVIOUS
<1>0. call' = call
  BY DEF Next, Stop, SkipLevel, TakeLevel, vars
<1> SUFFICES ASSUME call.side = "SELL" PROVE SoldSoFar'
  BY <1>0 DEF SoldSoFar
<1>1. /\ call \in Inputs /\ call.levels \in Seq(BookLevel) /\ Len(call.levels) \in Nat
      /\ at \in 1..(Len(call.levels) + 1) /\ remaining \in Nat /\ budget \in Nat
      /\ fills \in Seq(Fill) /\ call.limit \in Nat /\ BestFirst(call)
  <2>1. call \in Inputs
    BY DEF Inv
  <2>2. QED
    BY <2>1, CallTypes, InputsAssumption DEF Inv, TypeOK
<1>2. \A i \in 1..Len(call.levels) :
        /\ call.levels[i] \in BookLevel /\ Slipped(call.levels[i]) \in Nat
        /\ Available(call.levels[i]) \in Nat
  <2> SUFFICES ASSUME NEW i \in 1..Len(call.levels)
               PROVE  /\ call.levels[i] \in BookLevel /\ Slipped(call.levels[i]) \in Nat
                      /\ Available(call.levels[i]) \in Nat
    OBVIOUS
  <2>1. call.levels[i] \in BookLevel
    BY <1>1
  <2>2. call.levels[i].size \in Nat
    BY <2>1 DEF BookLevel
  <2>3. QED
    BY <1>1, <2>1, <2>2, SlippedBounds, DivNat, ScaleAssumption DEF Available
<1>3. CASE Stop
  <2>1. UNCHANGED <<call, at, remaining, budget, fills>>
    BY <1>3 DEF Stop
  <2>2. ASSUME NEW i \in 1..Len(call.levels), at <= i PROVE ~Usable(i)
    <3>1. /\ at \in 1..Len(call.levels)
          /\ Slipped(call.levels[at]) < call.limit
      BY <1>1, <1>3, <2>2 DEF Stop, Beyond
    <3>2. Slipped(call.levels[i]) <= Slipped(call.levels[at])
      <4>1. CASE i = at
        BY <1>2, <4>1
      <4>2. CASE i # at
        <5>1. call.levels[i].price <= call.levels[at].price
          BY <1>1, <2>2, <3>1, <4>2 DEF BestFirst
        <5>2. QED
          BY <1>1, <1>2, <3>1, <5>1, SlippedKeepsOrder
      <4>3. QED
        BY <4>1, <4>2
    <3>3. Slipped(call.levels[i]) \in Nat /\ Slipped(call.levels[at]) \in Nat
      BY <1>2, <3>1
    <3>4. Slipped(call.levels[i]) < call.limit
      BY <1>1, <3>1, <3>2, <3>3
    <3>5. QED
      BY <3>4 DEF Usable, Beyond
  <2>3. QED
    BY <2>1, <2>2 DEF SoldSoFar, Usable, Emptied, Slipped, Beyond, Available
<1>4. CASE SkipLevel
  <2>1. UNCHANGED <<call, remaining, budget, fills, done>> /\ at' = at + 1 /\ ~done
          /\ at \in 1..Len(call.levels)
    BY <1>1, <1>4 DEF SkipLevel
  <2>2. ASSUME remaining > 0, Usable(at), Available(call.levels[at]) > 0 PROVE FALSE
    <3>1. Take(call.levels[at]) = 0
      BY <1>4, <2>2 DEF SkipLevel, Usable
    <3>2. Take(call.levels[at]) = Least(remaining, Available(call.levels[at]))
      BY DEF Take
    <3>3. QED
      BY <2>2, <3>1, <3>2 DEF Least
  <2>3. ASSUME remaining > 0, NEW i \in 1..Len(call.levels), i < at', Usable(i),
               Available(call.levels[i]) > 0
        PROVE  Emptied(i)
    <3>1. i = at \/ i < at
      BY <1>1, <2>1, <2>3
    <3>2. CASE i = at
      BY <2>2, <2>3, <3>2
    <3>3. CASE i < at
      BY <2>3, <3>3 DEF SoldSoFar
    <3>4. QED
      BY <3>1, <3>2, <3>3
  <2>4. QED
    BY <2>1, <2>3 DEF SoldSoFar, Usable, Emptied, Slipped, Beyond, Available
<1>5. CASE TakeLevel
  <2> DEFINE take == Take(call.levels[at])
             price == Slipped(call.levels[at])
             fill == [quantity |-> take, price |-> price, fee |-> Fee(take, price), level |-> at]
  <2>1. /\ call' = call /\ at' = at + 1 /\ remaining' = remaining - take /\ ~done
        /\ done' = (remaining' = 0) /\ fills' = Append(fills, fill) /\ at \in 1..Len(call.levels)
    BY <1>1, <1>5 DEF TakeLevel
  <2>2. take = Least(remaining, Available(call.levels[at])) /\ take > 0
    BY <1>5 DEF Take, TakeLevel
  <2>3. fill.level = at /\ fill.quantity = take
    OBVIOUS
  <2> HIDE DEF fill, take, price
  <2>4. /\ Len(fills) \in Nat /\ Len(fills') = Len(fills) + 1 /\ fills'[Len(fills) + 1] = fill
        /\ \A k \in 1..Len(fills) : fills'[k] = fills[k]
    BY <1>1, <2>1
  <2>5. Available(call.levels[at]) \in Nat
    BY <1>2, <2>1
  <2>6. remaining' > 0 => remaining > 0 /\ take = Available(call.levels[at])
    BY <1>1, <2>1, <2>2, <2>5 DEF Least
  <2> DEFINE Empty(i) == \E k \in 1..Len(fills') :
               fills'[k].level = i /\ fills'[k].quantity = Available(call.levels[i])
  <2>7. ASSUME remaining' > 0, NEW i \in 1..Len(call.levels), i < at', Usable(i),
               Available(call.levels[i]) > 0
        PROVE  Empty(i)
    <3>1. i = at \/ i < at
      BY <1>1, <2>1, <2>7
    <3>2. CASE i = at
      BY <2>3, <2>4, <2>6, <2>7, <3>2
    <3>3. CASE i < at
      <4>1. Emptied(i)
        BY <2>6, <2>7, <3>3 DEF SoldSoFar
      <4>2. PICK k \in 1..Len(fills) :
              fills[k].level = i /\ fills[k].quantity = Available(call.levels[i])
        BY <4>1 DEF Emptied
      <4>3. k \in 1..Len(fills') /\ fills'[k] = fills[k]
        BY <2>4
      <4>4. QED
        BY <4>2, <4>3
    <3>4. QED
      BY <3>1, <3>2, <3>3
  <2>8. done' => ~(remaining' > 0)
    <3>1. done' => remaining' = 0
      BY <2>1
    <3>2. QED
      BY <3>1
  <2>9. QED
    BY <2>1, <2>7, <2>8 DEF SoldSoFar, Usable, Emptied, Slipped, Beyond, Available
<1>6. CASE UNCHANGED vars
  BY <1>6 DEF vars, SoldSoFar, Usable, Emptied, Slipped, Beyond, Available
<1>7. QED
  BY <1>3, <1>4, <1>5, <1>6 DEF Next

\* A sale stops short only when the book within its limit is used up: the break at the
\* first level beyond the limit skips none that could still be sold into.
THEOREM SalesUseUpTheBook == Spec => []SoldOut
<1>1. Inv /\ SoldSoFar => SoldOut
  <2>1. Inv => at \in Int /\ Len(call.levels) \in Int
    BY CallTypes DEF Inv, TypeOK
  <2>2. QED
    BY <2>1 DEF SoldSoFar, SoldOut, Usable, Emptied
<1>2. Init => Inv /\ SoldSoFar
  <2>1. Init => SoldSoFar
    <3> SUFFICES ASSUME Init PROVE SoldSoFar
      OBVIOUS
    <3>1. at = 1 /\ call.quantity \in Nat /\ remaining = call.quantity
          /\ done = (call.quantity = 0)
      BY CallTypes DEF Init, Rejected
    <3>2. \A i \in 1..Len(call.levels) : ~(i < at)
      BY <3>1
    <3>3. done => ~(remaining > 0)
      <4>1. done => remaining = 0
        BY <3>1
      <4>2. QED
        BY <4>1
    <3>4. QED
      BY <3>2, <3>3 DEF SoldSoFar
  <2>2. QED
    BY <2>1, InitInv
<1>3. (Inv /\ SoldSoFar) /\ [Next]_vars => (Inv /\ SoldSoFar)'
  BY StepInv, SoldStep
<1>4. QED
  BY <1>1, <1>2, <1>3, PTL DEF Spec

----------------------------------------------------------------------------
(* The best price first.  What is left of a level the budget does not pay: *)
(* neither one more share of it nor, as the asks are spaced, one share of  *)
(* a later level.                                                          *)

\* A dividend is less than the next multiple of the divisor.
LEMMA DivRest ==
    ASSUME NEW a \in Nat, NEW b \in Nat \ {0} PROVE a < b * (a \div b) + b
  BY SMT

\* A common factor can be cancelled.
LEMMA Cancel ==
    ASSUME NEW b \in Nat \ {0}, NEW s \in Int, NEW t \in Int, b * s < b * t PROVE s < t
  BY SMT

\* How far rounding to units of n / d goes.
LEMMA CeilingIs ==
    ASSUME NEW a \in Nat, NEW b \in Nat \ {0}
    PROVE  b * Ceiling(a, b) >= a /\ b * Ceiling(a, b) < a + b
<1> DEFINE c == a + b - 1
<1>1. c \in Nat /\ Ceiling(a, b) = c \div b
  BY DEF Ceiling
<1>2. c \div b \in Nat /\ b * (c \div b) <= c /\ c < b * (c \div b) + b
  <2> HIDE DEF c
  <2>1. QED
    BY <1>1, DivNat, DivBack, DivRest
<1> DEFINE m == b * (c \div b)
<1>3. m \in Nat
  <2> HIDE DEF c
  <2>1. QED
    BY <1>2, ProductNat
<1>4. m <= a + b - 1 /\ a + b - 1 < m + b
  BY <1>2
<1>5. b * Ceiling(a, b) = m
  BY <1>1
<1> HIDE DEF m, c
<1>6. QED
  BY <1>3, <1>4, <1>5

\* A half-up quotient is within half of the exact one.
LEMMA HalfUpIs ==
    ASSUME NEW a \in Nat, NEW b \in Nat \ {0}
    PROVE  2 * (b * HalfUp(a, b)) <= 2 * a + b /\ 2 * (b * HalfUp(a, b)) > 2 * a - b
<1> DEFINE c == 2 * a + b
           e == 2 * b
<1>1. c \in Nat /\ e \in Nat \ {0} /\ HalfUp(a, b) = c \div e
  BY DEF HalfUp
<1>2. c \div e \in Nat /\ e * (c \div e) <= c /\ c < e * (c \div e) + e
  <2> HIDE DEF c, e
  <2>1. QED
    BY <1>1, DivNat, DivBack, DivRest
<1> DEFINE k == c \div e
<1>3. k \in Nat /\ (2 * b) * k <= 2 * a + b /\ 2 * a + b < (2 * b) * k + 2 * b
  BY <1>2
<1>4. HalfUp(a, b) = k
  BY <1>1
<1> HIDE DEF k, c, e
<1> DEFINE m == b * k
<1>5. m \in Nat /\ (2 * b) * k = 2 * m
  BY <1>3, SMT
<1>6. 2 * m <= 2 * a + b /\ 2 * a + b < 2 * m + 2 * b
  BY <1>3, <1>5
<1> HIDE DEF m
<1>7. 2 * m <= 2 * a + b /\ 2 * m > 2 * a - b
  BY <1>5, <1>6
<1>8. QED
  BY <1>4, <1>7 DEF m

\* In units of 1 / Base a share at a price has this fee, before rounding.
Base == RateBase * Scale
Exact(price) == call.rate * price * (Scale - price)
Unit == IF call.model = "kalshi" THEN Cent ELSE Tick
RoundedFrom(fee, n) ==
    /\ \E k \in Nat : fee = Unit * k
    /\ call.model = "kalshi" => Base * fee >= n /\ Base * fee < n + Base * Unit
    /\ call.model # "kalshi" => /\ 2 * (Base * fee) <= 2 * n + Base * Unit
                                /\ 2 * (Base * fee) > 2 * n - Base * Unit

\* The units of the rounding are positive.
LEMMA BaseIs == Base \in Nat \ {0} /\ Unit \in Nat \ {0}
<1>1. Base \in Nat \ {0}
  BY ScaleAssumption, SMT DEF Base
<1>2. QED
  BY <1>1, ScaleAssumption DEF Unit

\* The fee before rounding is a natural number.
LEMMA ExactNat == ASSUME call \in Inputs, NEW price \in 0..Scale PROVE Exact(price) \in Nat
<1>1. price \in Nat /\ Scale - price \in Nat /\ call.rate \in Nat
  BY ScaleAssumption, CallTypes
<1>2. call.rate * price \in Nat
  BY <1>1, ProductNat
<1>3. QED
  BY <1>1, <1>2, ProductNat DEF Exact

\* The fee is the exact fee of the shares, rounded half up.
LEMMA FeeIs ==
    ASSUME call \in Inputs, NEW q \in Nat, NEW price \in 0..Scale
    PROVE  RoundedFrom(Fee(q, price), q * Exact(price))
<1> DEFINE n == call.rate * q * price * (Scale - price)
<1>1. n = q * Exact(price) /\ q * Exact(price) \in Nat
  <2>1. call.rate \in Nat /\ price \in Nat /\ Scale - price \in Nat
    BY ScaleAssumption, CallTypes
  <2> DEFINE r == call.rate
             o == Scale - price
  <2>2. r \in Nat /\ o \in Nat
    BY <2>1
  <2>3. n = r * q * price * o /\ Exact(price) = r * price * o
    BY DEF Exact
  <2> HIDE DEF r, o, n
  <2>4. r * q * price * o = q * (r * price * o)
    BY <2>1, <2>2, SMT
  <2>5. Exact(price) \in Nat
    BY ExactNat
  <2>6. q * Exact(price) \in Nat
    BY <2>5, ProductNat
  <2>7. QED
    BY <2>3, <2>4, <2>6
<1>2. n \in Nat
  BY <1>1
<1>3. Base \in Nat \ {0} /\ Cent \in Nat \ {0} /\ Tick \in Nat \ {0}
  BY BaseIs, ScaleAssumption
<1>4. Fee(q, price) = IF call.model = "kalshi" THEN Cent * Ceiling(n, Base * Cent)
                                               ELSE Tick * HalfUp(n, Base * Tick)
  BY DEF Fee, Base
<1> HIDE DEF n
<1>5. CASE call.model = "kalshi"
  <2> DEFINE k == Ceiling(n, Base * Cent)
  <2>1. Base * Cent \in Nat \ {0}
    BY <1>3, SMT
  <2>2. k \in Nat /\ (Base * Cent) * k >= n /\ (Base * Cent) * k < n + Base * Cent
    BY <1>2, <2>1, CeilingNat, CeilingIs
  <2>3. Fee(q, price) = Cent * k /\ Unit = Cent
    BY <1>4, <1>5 DEF Unit
  <2> HIDE DEF k
  <2>4. (Base * Cent) * k = Base * (Cent * k)
    BY <1>3, <2>2, SMT
  <2>5. Base * (Cent * k) >= n /\ Base * (Cent * k) < n + Base * Cent
    BY <2>2, <2>4
  <2>6. QED
    BY <1>1, <1>5, <2>2, <2>3, <2>5 DEF RoundedFrom
<1>6. CASE call.model # "kalshi"
  <2> DEFINE k == HalfUp(n, Base * Tick)
  <2>1. Base * Tick \in Nat \ {0}
    BY <1>3, SMT
  <2>2. /\ k \in Nat
        /\ 2 * ((Base * Tick) * k) <= 2 * n + Base * Tick
        /\ 2 * ((Base * Tick) * k) > 2 * n - Base * Tick
    BY <1>2, <2>1, HalfUpNat, HalfUpIs
  <2>3. Fee(q, price) = Tick * k /\ Unit = Tick
    BY <1>4, <1>6 DEF Unit
  <2> HIDE DEF k
  <2>4. (Base * Tick) * k = Base * (Tick * k)
    BY <1>3, <2>2, SMT
  <2>5. /\ 2 * (Base * (Tick * k)) <= 2 * n + Base * Tick
        /\ 2 * (Base * (Tick * k)) > 2 * n - Base * Tick
    BY <2>2, <2>4
  <2>6. QED
    BY <1>1, <1>6, <2>2, <2>3, <2>5 DEF RoundedFrom
<1>7. QED
  BY <1>5, <1>6

\* The fee of a share drops by at most half of what its price rises.
LEMMA FeeDrops ==
    ASSUME call \in Inputs, 2 * call.rate <= RateBase,
           NEW p \in 0..Scale, NEW d \in Nat, p + d \in 0..Scale
    PROVE  2 * Exact(p) <= 2 * Exact(p + d) + Base * d
<1> DEFINE r == call.rate
           s == Scale
           b == RateBase
           x == p * (s - p)
           y == (p + d) * (s - (p + d))
<1>1. r \in Nat /\ s \in Nat /\ b \in Nat /\ 2 * r <= b /\ p \in Nat /\ d \in Nat
        /\ p <= s /\ p + d <= s
  BY ScaleAssumption, CallTypes
<1>2. Exact(p) = r * p * (s - p) /\ Exact(p + d) = r * (p + d) * (s - (p + d)) /\ Base = b * s
  BY DEF Exact, Base
<1> HIDE DEF r, s, b
<1>3. x \in Nat /\ y \in Nat
  BY <1>1, SMT
<1>4. r * p * (s - p) = r * x /\ r * (p + d) * (s - (p + d)) = r * y
  <2>1. \A m \in Int, o \in Int : r * m * o = r * (m * o)
    BY <1>1, SMT
  <2>2. QED
    BY <1>1, <2>1
<1>5. x <= y + d * s
  <2>1. x = y + d * ((p + d) + p - s)
    BY <1>1, SMT
  <2>2. (p + d) + p - s <= s /\ (p + d) + p - s \in Int
    BY <1>1
  <2>3. d * ((p + d) + p - s) <= d * s
    BY <1>1, <2>2, SMT
  <2> HIDE DEF x, y
  <2>4. d * s \in Nat /\ d * ((p + d) + p - s) \in Int
    BY <1>1, SMT
  <2>5. QED
    BY <1>3, <2>1, <2>3, <2>4
<1> DEFINE z == d * s
<1>6. z \in Nat
  BY <1>1, ProductNat
<1> HIDE DEF x, y
<1>7. 2 * (r * x) <= 2 * (r * y) + b * z
  <2> HIDE DEF z
  <2>1. r * x <= r * (y + z)
    BY <1>1, <1>3, <1>5, <1>6, ProductMonotone DEF z
  <2>2. r * (y + z) = r * y + r * z
    BY <1>1, <1>3, <1>6, SMT
  <2>3. (2 * r) * z <= b * z /\ (2 * r) * z = 2 * (r * z)
    BY <1>1, <1>6, SMT
  <2>4. r * x \in Nat /\ r * y \in Nat /\ r * z \in Nat /\ b * z \in Nat
    BY <1>1, <1>3, <1>6, ProductNat
  <2>5. QED
    BY <2>1, <2>2, <2>3, <2>4
<1>8. b * z = (b * s) * d
  BY <1>1, SMT
<1>9. QED
  BY <1>2, <1>4, <1>7, <1>8

\* The fees of a next share and of one that is dearer by d, rounded up or half up.
LEMMA RoundedUp ==
    ASSUME NEW b \in Nat \ {0}, NEW u \in Nat \ {0}, NEW i \in Nat, NEW j \in Nat, NEW k \in Nat,
           NEW n \in Nat, NEW x \in Nat, NEW y \in Nat, NEW d \in Nat,
           b * (u * i) < n + x + b * u, b * (u * j) >= n, b * (u * k) >= y,
           2 * x <= 2 * y + b * d, u <= d
    PROVE  u * i <= u * j + u * k + d
<1> DEFINE w == i - j - k
           v == u * w
<1>1. w \in Int /\ v \in Int /\ v = u * i - u * j - u * k
  BY SMT
<1>2. u * i \in Nat /\ u * j \in Nat /\ u * k \in Nat
  BY ProductNat
<1>3. b * v = b * (u * i) - b * (u * j) - b * (u * k) /\ b * v \in Int
  <2> DEFINE ui == u * i
             uj == u * j
             uk == u * k
  <2>1. ui \in Nat /\ uj \in Nat /\ uk \in Nat /\ v = ui - uj - uk
    BY <1>1, <1>2
  <2> HIDE DEF ui, uj, uk, v
  <2>2. b * (ui - uj - uk) = b * ui - b * uj - b * uk /\ b * (ui - uj - uk) \in Int
    BY <2>1, SMT
  <2>3. QED
    BY <2>1, <2>2 DEF ui, uj, uk
<1>4. b * (u * i) \in Nat /\ b * (u * j) \in Nat /\ b * (u * k) \in Nat /\ b * u \in Nat
        /\ b * d \in Nat
  BY <1>2, ProductNat
<1> HIDE DEF v, w
<1>5. 2 * (b * v) < b * d + 2 * (b * u)
  BY <1>3, <1>4
<1>6. 2 * v < d + 2 * u
  <2>1. b * (2 * v) = 2 * (b * v) /\ b * (d + 2 * u) = b * d + 2 * (b * u)
    BY <1>1, SMT
  <2>2. b * (2 * v) < b * (d + 2 * u)
    BY <1>5, <2>1
  <2>3. QED
    BY <1>1, <2>2, Cancel
<1>7. v <= d
  <2>1. CASE w <= 1
    <3>1. u * w <= u * 1
      BY <1>1, <2>1, SMT
    <3>2. QED
      BY <1>1, <3>1 DEF v
  <2>2. CASE w >= 2
    <3>1. u * w >= u * 2
      BY <1>1, <2>2, SMT
    <3>2. v >= 2 * u
      BY <3>1 DEF v
    <3>3. QED
      BY <1>1, <1>6, <3>2
  <2>3. QED
    BY <1>1, <2>1, <2>2
<1>8. QED
  BY <1>1, <1>2, <1>7

\* Three roundings to a unit gain less than a price step of three units.
LEMMA RoundedHalfUp ==
    ASSUME NEW b \in Nat \ {0}, NEW u \in Nat \ {0}, NEW f \in Nat, NEW g \in Nat, NEW h \in Nat,
           NEW n \in Nat, NEW x \in Nat, NEW y \in Nat, NEW d \in Nat,
           2 * (b * f) <= 2 * (n + x) + b * u, 2 * (b * g) > 2 * n - b * u,
           2 * (b * h) > 2 * y - b * u, 2 * x <= 2 * y + b * d, 3 * u <= d
    PROVE  f <= g + h + d
<1>1. b * f \in Nat /\ b * g \in Nat /\ b * h \in Nat /\ b * u \in Nat /\ b * d \in Nat
  BY ProductNat
<1>2. 2 * (b * f) < 2 * (b * g) + 2 * (b * h) + b * d + 3 * (b * u)
  BY <1>1
<1>3. b * (3 * u) <= b * d /\ b * (3 * u) = 3 * (b * u)
  <2>1. 3 * u \in Nat
    OBVIOUS
  <2>2. b * (3 * u) <= b * d
    BY <2>1, ProductMonotone
  <2>3. b * (3 * u) = 3 * (b * u)
    BY SMT
  <2>4. QED
    BY <2>2, <2>3
<1>4. b * f < b * g + b * h + b * d
  BY <1>1, <1>2, <1>3
<1>5. b * (g + h + d) = b * g + b * h + b * d
  BY SMT
<1>6. f < g + h + d
  BY <1>4, <1>5, Cancel
<1>7. QED
  BY <1>6

\* A share in the later level costs no less than one more share would have.
LEMMA NextShareIsNoDearer ==
    ASSUME call \in Inputs, 2 * call.rate <= RateBase, NEW n \in Nat,
           NEW p \in 0..Scale, NEW d \in Nat, p + d \in 0..Scale, Step(call) <= d
    PROVE  Cost(n + 1, p) <= Cost(n, p) + Cost(1, p + d)
<1> DEFINE f == Fee(n + 1, p)
           g == Fee(n, p)
           h == Fee(1, p + d)
           x == Exact(p)
           y == Exact(p + d)
           m == n * x
<1>1. f \in Nat /\ g \in Nat /\ h \in Nat /\ x \in Nat /\ y \in Nat /\ m \in Nat
  <2>1. x \in Nat /\ y \in Nat
    BY ExactNat
  <2>2. m \in Nat
    <3> HIDE DEF x
    <3>1. QED
      BY <2>1, ProductNat
  <2>3. f \in Nat /\ g \in Nat /\ h \in Nat
    BY FeeNat
  <2>4. QED
    BY <2>1, <2>2, <2>3
<1>2. RoundedFrom(f, m + x) /\ RoundedFrom(g, m) /\ RoundedFrom(h, y)
  <2>1. RoundedFrom(f, (n + 1) * x) /\ RoundedFrom(g, n * x) /\ RoundedFrom(h, 1 * y)
    BY FeeIs
  <2> HIDE DEF f, g, h, x, y
  <2>2. (n + 1) * x = n * x + x /\ 1 * y = y
    BY <1>1, SMT
  <2>3. QED
    BY <2>1, <2>2
<1>3. 2 * x <= 2 * y + Base * d
  BY FeeDrops
<1>4. Cost(n + 1, p) = (n + 1) * p + f /\ Cost(n, p) = n * p + g /\ Cost(1, p + d) = 1 * (p + d) + h
  BY DEF Cost
<1>5. p \in Nat /\ Base \in Nat \ {0} /\ Unit \in Nat \ {0}
  BY BaseIs, ScaleAssumption
<1> HIDE DEF f, g, h, x, y, m
<1>6. f <= g + h + d
  <2>1. CASE call.model = "kalshi"
    <3>1. PICK i \in Nat, j \in Nat, k \in Nat : f = Unit * i /\ g = Unit * j /\ h = Unit * k
      BY <1>2 DEF RoundedFrom
    <3>2. Base * f < m + x + Base * Unit /\ Base * g >= m /\ Base * h >= y
      BY <1>2, <2>1 DEF RoundedFrom
    <3>3. Unit <= d
      BY <2>1 DEF Unit, Step
    <3>4. Unit * i <= Unit * j + Unit * k + d
      BY <1>1, <1>3, <1>5, <3>1, <3>2, <3>3, RoundedUp
    <3>5. QED
      BY <3>1, <3>4
  <2>2. CASE call.model # "kalshi"
    <3>1. /\ 2 * (Base * f) <= 2 * (m + x) + Base * Unit
          /\ 2 * (Base * g) > 2 * m - Base * Unit /\ 2 * (Base * h) > 2 * y - Base * Unit
      BY <1>2, <2>2 DEF RoundedFrom
    <3>2. 3 * Unit <= d
      BY <2>2 DEF Unit, Step
    <3>3. QED
      BY <1>1, <1>3, <1>5, <3>1, <3>2, RoundedHalfUp
  <2>3. QED
    BY <2>1, <2>2
<1>7. (n + 1) * p = n * p + p /\ n * p \in Nat /\ 1 * (p + d) = p + d
  BY <1>5, SMT
<1> DEFINE o == n * p
<1>8. o \in Nat /\ (n + 1) * p = o + p
  BY <1>7
<1> HIDE DEF o
<1>9. o + p + f <= (o + g) + (p + d + h)
  BY <1>1, <1>5, <1>6, <1>8
<1>10. QED
  BY <1>4, <1>7, <1>8, <1>9 DEF o

\* What the budget pays for, rounding left aside, leaves nothing for the later level.
LEMMA PaidOut ==
    ASSUME call \in Inputs, 2 * call.rate <= RateBase, budget \in Nat,
           NEW p \in 1..Scale, NEW d \in Nat \ {0}, p + d \in 0..Scale, Step(call) <= d
    PROVE  /\ Payable(p) \in Nat
           /\ budget < Cost(Payable(p), p) + Cost(1, p + d)
<1> DEFINE n == Payable(p)
           x == Exact(p)
           y == Exact(p + d)
           b == Base
           k == p * b + x
           g == Fee(n, p)
           h == Fee(1, p + d)
<1>1. x \in Nat /\ y \in Nat /\ b \in Nat \ {0} /\ p \in Nat \ {0} /\ Unit \in Nat \ {0}
        /\ p \in 0..Scale
  BY ExactNat, BaseIs, ScaleAssumption
<1>2. n = (budget * b) \div k
  <2>1. budget * RateBase * Scale = budget * (RateBase * Scale)
          /\ p * RateBase * Scale = p * (RateBase * Scale)
    BY <1>1, ScaleAssumption, SMT
  <2>2. QED
    BY <2>1 DEF Payable, Exact, Base
<1>3. k \in Nat \ {0} /\ budget * b \in Nat
  <2> HIDE DEF x, b
  <2>1. p * b \in Nat \ {0}
    BY <1>1, SMT
  <2>2. QED
    BY <1>1, <2>1, ProductNat
<1>4. n \in Nat /\ budget * b < k * n + k
  <2> HIDE DEF k
  <2>1. QED
    BY <1>2, <1>3, DivNat, DivRest
<1>5. g \in Nat /\ h \in Nat /\ n * x \in Nat
  <2>1. p \in 0..Scale
    BY <1>1
  <2>2. g \in Nat /\ h \in Nat
    <3> HIDE DEF n
    <3>1. QED
      BY <1>4, <2>1, FeeNat
  <2>3. n * x \in Nat
    <3> HIDE DEF n, x
    <3>1. QED
      BY <1>1, <1>4, ProductNat
  <2>4. QED
    BY <2>2, <2>3
<1>6. RoundedFrom(g, n * x) /\ RoundedFrom(h, y)
  <2>1. RoundedFrom(g, n * x) /\ RoundedFrom(h, 1 * y)
    <3> HIDE DEF n
    <3>1. QED
      BY <1>1, <1>4, FeeIs
  <2>2. 1 * y = y
    <3> HIDE DEF y
    <3>1. QED
      BY <1>1
  <2>3. QED
    BY <2>1, <2>2
<1>7. 2 * x <= 2 * y + b * d
  BY <1>1, FeeDrops
<1>8. Cost(n, p) = n * p + g /\ Cost(1, p + d) = p + d + h
  <2>1. 1 * (p + d) = p + d
    BY <1>1
  <2>2. QED
    BY <2>1 DEF Cost
<1> DEFINE l == IF call.model = "kalshi" THEN 0 ELSE Unit
<1>9. l \in Nat /\ 3 * l <= d
  BY <1>1 DEF Step, Unit
<1>10. 2 * (b * g) >= 2 * (n * x) - b * l /\ 2 * (b * h) >= 2 * y - b * l
  <2>1. b * g \in Nat /\ b * h \in Nat /\ b * l \in Nat /\ b * 0 = 0
    <3> HIDE DEF b, g, h, l
    <3>1. QED
      BY <1>1, <1>5, <1>9, ProductNat
  <2> DEFINE m == n * x
  <2>2. m \in Nat /\ RoundedFrom(g, m)
    BY <1>5, <1>6
  <2> HIDE DEF m, n, x, y, g, h
  <2>3. CASE call.model = "kalshi"
    <3>1. b * g >= m /\ b * h >= y /\ b * l = 0
      BY <1>6, <2>1, <2>2, <2>3 DEF RoundedFrom
    <3> HIDE DEF b, l
    <3>2. 2 * (b * g) >= 2 * m - b * l /\ 2 * (b * h) >= 2 * y - b * l
      BY <1>1, <2>1, <2>2, <3>1
    <3>3. QED
      BY <3>2 DEF m
  <2>4. CASE call.model # "kalshi"
    <3>1. 2 * (b * g) > 2 * m - b * l /\ 2 * (b * h) > 2 * y - b * l
      BY <1>6, <2>2, <2>4 DEF RoundedFrom
    <3> HIDE DEF b, l
    <3>2. 2 * (b * g) >= 2 * m - b * l /\ 2 * (b * h) >= 2 * y - b * l
      BY <1>1, <2>1, <2>2, <3>1
    <3>3. QED
      BY <3>2 DEF m
  <2>5. QED
    BY <2>3, <2>4
<1> HIDE DEF n, x, y, b, g, h, l
<1>11. SUFFICES ASSUME (n * p + g) + (p + d + h) <= budget PROVE FALSE
  <2>1. n * p \in Nat
    BY <1>1, <1>4, ProductNat
  <2> DEFINE o == n * p
  <2>2. o \in Nat /\ Cost(n, p) = o + g
    BY <1>8, <2>1
  <2> HIDE DEF o
  <2>3. budget < (o + g) + (p + d + h) \/ (o + g) + (p + d + h) <= budget
    BY <1>1, <1>5, <2>2
  <2>4. QED
    BY <1>4, <1>8, <2>2, <2>3 DEF n, o
<1> DEFINE np == n * p
           nx == n * x
<1>12. np \in Nat /\ nx \in Nat
  BY <1>1, <1>4, ProductNat
<1>13. k * n + k = b * np + nx + b * p + x
  BY <1>1, <1>4, SMT
<1>14. b * ((np + g) + (p + d + h)) = b * np + b * g + b * p + b * d + b * h
  <2> HIDE DEF np
  <2>1. QED
    BY <1>1, <1>5, <1>12, SMT
<1>15. b * ((np + g) + (p + d + h)) <= budget * b
  <2>1. (np + g) + (p + d + h) \in Nat /\ (np + g) + (p + d + h) <= budget
    <3> HIDE DEF np
    <3>1. (np + g) + (p + d + h) \in Nat
      BY <1>1, <1>5, <1>12
    <3>2. QED
      BY <1>11, <3>1 DEF np
  <2> DEFINE e == (np + g) + (p + d + h)
  <2> HIDE DEF np, e
  <2>2. b * e <= b * budget /\ b * budget = budget * b
    BY <1>1, <2>1, ProductMonotone, SMT DEF e
  <2>3. QED
    BY <2>2 DEF e
<1>16. b * np \in Nat /\ b * g \in Nat /\ b * h \in Nat /\ b * p \in Nat /\ b * d \in Nat
         /\ b * l \in Nat
  <2> HIDE DEF np
  <2>1. QED
    BY <1>1, <1>5, <1>9, <1>12, ProductNat
<1> HIDE DEF np, nx, k
<1>17. b * g + b * d + b * h < nx + x
  BY <1>1, <1>3, <1>4, <1>12, <1>13, <1>14, <1>15, <1>16
<1>18. 2 * (b * d) < 2 * (b * l) + b * d
  BY <1>1, <1>7, <1>10, <1>12, <1>16, <1>17 DEF nx
<1>19. b * d < b * (2 * l)
  <2>1. b * (2 * l) = 2 * (b * l)
    BY <1>1, <1>9, SMT
  <2>2. QED
    BY <1>16, <1>18, <2>1
<1>20. d < 2 * l
  BY <1>1, <1>9, <1>19, Cancel
<1>21. QED
  BY <1>9, <1>20

\* More shares at a price do not cost less; none cost nothing.
LEMMA CostGrows ==
    ASSUME call \in Inputs, NEW n \in Nat \ {0}, NEW p \in 0..Scale
    PROVE  Cost(1, p) <= Cost(n, p)
<1> DEFINE x == Exact(p)
           u == 1 * x
           v == n * x
           Rounded(a) == IF call.model = "kalshi" THEN Cent * Ceiling(a, Base * Cent)
                                                  ELSE Tick * HalfUp(a, Base * Tick)
<1>1. x \in Nat /\ p \in Nat /\ Base \in Nat \ {0} /\ Cent \in Nat \ {0} /\ Tick \in Nat \ {0}
  BY ExactNat, BaseIs, ScaleAssumption
<1>2. u \in Nat /\ v \in Nat /\ u <= v
  <2> HIDE DEF x
  <2>1. 1 * x = x /\ x * 1 = x /\ n * x = x * n
    BY <1>1, SMT
  <2>2. x * 1 <= x * n
    BY <1>1, ProductMonotone
  <2>3. x * n \in Nat
    BY <1>1, ProductNat
  <2>4. QED
    BY <1>1, <2>1, <2>2, <2>3
<1>3. \A q \in Nat : Fee(q, p) = Rounded(q * x)
  <2>1. call.rate \in Nat /\ Scale - p \in Nat
    BY ScaleAssumption, CallTypes
  <2>2. \A q \in Nat : call.rate * q * p * (Scale - p) = q * (call.rate * p * (Scale - p))
    <3> DEFINE r == call.rate
               o == Scale - p
    <3>1. r \in Nat /\ o \in Nat
      BY <2>1
    <3> HIDE DEF r, o
    <3>2. \A q \in Nat : r * q * p * o = q * (r * p * o)
      BY <1>1, <3>1, SMT
    <3>3. QED
      BY <3>2 DEF r, o
  <2>3. QED
    BY <2>2 DEF Fee, Exact, Base
<1> HIDE DEF x, u, v
<1>4. Rounded(u) <= Rounded(v)
  <2>1. Base * Cent \in Nat \ {0} /\ Base * Tick \in Nat \ {0}
    BY <1>1, SMT
  <2> DEFINE c == Base * Cent
             t == Base * Tick
  <2>2. c \in Nat \ {0} /\ t \in Nat \ {0}
    BY <2>1
  <2> HIDE DEF c, t
  <2>3. Ceiling(u, c) <= Ceiling(v, c) /\ Ceiling(u, c) \in Nat /\ Ceiling(v, c) \in Nat
    <3>1. u + c - 1 \in Nat /\ v + c - 1 \in Nat /\ u + c - 1 <= v + c - 1
      BY <1>2, <2>2
    <3>2. QED
      BY <1>2, <2>2, <3>1, DivMonotone, CeilingNat DEF Ceiling
  <2>4. HalfUp(u, t) <= HalfUp(v, t) /\ HalfUp(u, t) \in Nat /\ HalfUp(v, t) \in Nat
    <3>1. 2 * u + t \in Nat /\ 2 * v + t \in Nat /\ 2 * u + t <= 2 * v + t /\ 2 * t \in Nat \ {0}
      BY <1>2, <2>2
    <3>2. QED
      BY <1>2, <2>2, <3>1, DivMonotone, HalfUpNat DEF HalfUp
  <2>5. /\ Cent * Ceiling(u, c) <= Cent * Ceiling(v, c)
        /\ Tick * HalfUp(u, t) <= Tick * HalfUp(v, t)
    BY <1>1, <2>3, <2>4, ProductMonotone
  <2>6. QED
    BY <2>5 DEF c, t
<1>5. Fee(1, p) <= Fee(n, p)
  BY <1>3, <1>4 DEF u, v
<1>6. 1 * p <= n * p /\ 1 * p \in Nat /\ n * p \in Nat
  <2>1. p * 1 <= p * n
    BY <1>1, ProductMonotone
  <2>2. 1 * p = p * 1 /\ n * p = p * n /\ 1 * p \in Nat
    BY <1>1, SMT
  <2>3. n * p \in Nat
    BY <1>1, ProductNat
  <2>4. QED
    BY <2>1, <2>2, <2>3
<1>7. Fee(1, p) \in Nat /\ Fee(n, p) \in Nat
  BY FeeNat
<1> DEFINE o == 1 * p
           m == n * p
<1>8. o <= m /\ o \in Nat /\ m \in Nat
  BY <1>6
<1>9. Cost(1, p) = o + Fee(1, p) /\ Cost(n, p) = m + Fee(n, p)
  BY DEF Cost
<1> HIDE DEF o, m
<1>10. QED
  BY <1>5, <1>7, <1>8, <1>9

\* No shares cost nothing.
LEMMA NoneCostNothing ==
    ASSUME call \in Inputs, NEW p \in 0..Scale PROVE Cost(0, p) = 0
<1>1. Exact(p) \in Nat /\ Fee(0, p) \in Nat /\ Base \in Nat \ {0} /\ Unit \in Nat \ {0} /\ p \in Nat
  BY ExactNat, FeeNat, BaseIs, ScaleAssumption
<1>2. 0 * Exact(p) = 0 /\ 0 * p = 0
  BY <1>1, SMT
<1>3. RoundedFrom(Fee(0, p), 0)
  BY <1>2, FeeIs
<1>4. PICK k \in Nat : Fee(0, p) = Unit * k
  BY <1>3 DEF RoundedFrom
<1>5. Base * Fee(0, p) < Base * Unit
  <2>1. Base * Fee(0, p) \in Nat /\ Base * Unit \in Nat \ {0}
    BY <1>1, SMT
  <2>2. QED
    BY <1>3, <2>1 DEF RoundedFrom
<1>6. Unit * k < Unit * 1
  <2>1. Fee(0, p) < Unit
    BY <1>1, <1>5, Cancel
  <2>2. Unit * 1 = Unit
    BY <1>1, SMT
  <2>3. QED
    BY <1>4, <2>1, <2>2
<1>7. k = 0
  <2>1. k < 1
    BY <1>1, <1>6, Cancel
  <2>2. QED
    BY <2>1
<1>8. Fee(0, p) = 0
  BY <1>1, <1>4, <1>7, SMT
<1>9. QED
  BY <1>2, <1>8 DEF Cost

\* Slippage does not bring two asks closer to each other.
LEMMA SlippedApart ==
    ASSUME call \in Inputs, call.side = "BUY", NEW x \in BookLevel, NEW y \in BookLevel,
           NEW d \in Nat, x.price + d <= y.price
    PROVE  Slipped(x) + d <= Slipped(y)
<1> DEFINE p == x.price
           q == y.price
           b == SlippageBase
           s == SlippageBase + call.slippage
<1>1. p \in Nat /\ q \in Nat /\ p + d <= q /\ b \in Nat \ {0} /\ s \in Nat /\ b <= s
  <2>1. p \in Nat /\ q \in Nat
    BY ScaleAssumption DEF BookLevel
  <2>2. b \in Nat \ {0} /\ call.slippage \in Nat
    BY CallTypes, ScaleAssumption
  <2>3. p + d <= q
    OBVIOUS
  <2>4. QED
    BY <2>1, <2>2, <2>3
<1>2. Slipped(x) = HalfUp(p * s, b) /\ Slipped(y) = HalfUp(q * s, b)
  BY DEF Slipped
<1> HIDE DEF p, q, b, s
<1>3. p * s + d * b <= q * s
  <2>1. s * (p + d) <= s * q
    BY <1>1, ProductMonotone
  <2>2. d * b <= d * s
    BY <1>1, ProductMonotone
  <2>3. s * (p + d) = p * s + d * s /\ s * q = q * s
    BY <1>1, SMT
  <2>4. p * s \in Nat /\ d * s \in Nat /\ d * b \in Nat /\ q * s \in Nat
    BY <1>1, ProductNat
  <2>5. QED
    BY <2>1, <2>2, <2>3, <2>4
<1> DEFINE u == p * s
           v == q * s
           e == d * b
           k == (2 * u + b) \div (2 * b)
<1>4. u \in Nat /\ v \in Nat /\ e \in Nat /\ u + e <= v
  BY <1>1, <1>3, ProductNat
<1>5. 2 * u + b \in Nat /\ 2 * v + b \in Nat /\ 2 * b \in Nat \ {0}
  <2> HIDE DEF u, v, e
  <2>1. QED
    BY <1>1, <1>4
<1>6. k \in Nat /\ (2 * b) * k <= 2 * u + b
  <2> HIDE DEF u, v, e
  <2>1. QED
    BY <1>5, DivNat, DivBack
<1> HIDE DEF k
<1>7. (k + d) * (2 * b) = (2 * b) * k + 2 * e
  BY <1>1, <1>6, SMT
<1> HIDE DEF u, v, e
<1>8. (k + d) * (2 * b) <= 2 * v + b
  <2>1. (2 * b) * k \in Nat
    BY <1>5, <1>6, ProductNat
  <2> DEFINE f == (2 * b) * k
  <2>2. f \in Nat /\ f <= 2 * u + b
    BY <1>6, <2>1
  <2> HIDE DEF f
  <2>3. f + 2 * e <= 2 * v + b
    BY <1>1, <1>4, <2>2
  <2>4. QED
    BY <1>7, <2>3 DEF f
<1>9. k + d <= (2 * v + b) \div (2 * b)
  BY <1>5, <1>6, <1>8, DivLower
<1>10. QED
  BY <1>2, <1>9 DEF HalfUp, k, u, v

\* The least distance of two levels is positive.
LEMMA StepNat == Step(call) \in Nat \ {0}
<1>1. Cent \in Nat \ {0} /\ 3 * Tick \in Nat \ {0}
  BY ScaleAssumption
<1>2. QED
  BY <1>1 DEF Step

\* A purchase that leaves shares of a level has no money for one of a later level.
LEMMA TakeLeaves ==
    ASSUME call \in Inputs, call.side = "BUY", Spaced(call), remaining \in Nat, budget \in Nat,
           NEW level \in BookLevel, Slipped(level) \in 1..(Scale - 1),
           Take(level) # Least(remaining, Available(level)),
           NEW p \in 1..(Scale - 1), Slipped(level) + Step(call) <= p
    PROVE  budget < Cost(Take(level), Slipped(level)) + Cost(1, p)
<1> DEFINE wanted == Least(remaining, Available(level))
           price == Slipped(level)
           limit == Least(wanted, Payable(price))
           n == Affordable(limit, price)
           d == p - price
<1>1. 2 * call.rate <= RateBase
  BY DEF Spaced
<1>2. Step(call) \in Nat \ {0}
  BY StepNat
<1>3. /\ price \in 1..Scale /\ price \in 0..Scale /\ p \in 0..Scale
      /\ d \in Nat \ {0} /\ price + d = p /\ Step(call) <= d
  <2> HIDE DEF price
  <2>1. Scale \in Nat /\ price \in 1..(Scale - 1) /\ price + Step(call) <= p
    BY ScaleAssumption DEF price
  <2>2. QED
    BY <1>2, <2>1
<1>4. Take(level) = n
  BY DEF Take
<1>5. wanted \in Nat
  <2>1. Available(level) \in Nat
    BY ScaleAssumption, DivNat DEF Available, BookLevel
  <2>2. QED
    BY <2>1 DEF Least
<1> HIDE DEF d, price, wanted
<1>6. /\ Payable(price) \in Nat
      /\ budget < Cost(Payable(price), price) + Cost(1, price + d)
  BY <1>1, <1>3, PaidOut
<1>7. limit \in Nat /\ (limit = wanted \/ limit = Payable(price))
  BY <1>5, <1>6 DEF Least
<1> HIDE DEF limit
<1>8. n \in 0..limit /\ \A k \in (n + 1)..limit : Cost(k, price) > budget
  BY <1>3, <1>7, AffordableFits
<1> HIDE DEF n
<1>9. CASE n = limit
  <2>1. n = Payable(price)
    BY <1>4, <1>7, <1>9 DEF wanted
  <2>2. QED
    BY <1>3, <1>4, <1>6, <2>1 DEF price
<1>10. CASE n # limit
  <2>1. n \in Nat /\ n + 1 \in (n + 1)..limit
    BY <1>7, <1>8, <1>10
  <2>2. Cost(n + 1, price) > budget
    BY <1>8, <2>1
  <2>3. Cost(n + 1, price) <= Cost(n, price) + Cost(1, p)
    BY <1>1, <1>3, <2>1, NextShareIsNoDearer
  <2>4. Cost(n + 1, price) \in Nat /\ Cost(n, price) \in Nat /\ Cost(1, p) \in Nat
    BY <1>3, <2>1, CostNat
  <2>5. budget < Cost(n, price) + Cost(1, p)
    BY <2>2, <2>3, <2>4
  <2>6. QED
    BY <1>4, <2>5 DEF price
<1>11. QED
  BY <1>9, <1>10

\* Behind the loop a level with shares is used up, or no later price is paid for.
Reached(i) ==
    Slipped(call.levels[i]) \in 1..(Scale - 1) /\ Available(call.levels[i]) > 0
Unpayable(i) ==
    call.side = "BUY" /\ \A p \in 1..(Scale - 1) :
        Slipped(call.levels[i]) + Step(call) <= p => budget < Cost(1, p)
BestSoFar ==
    /\ remaining = 0 => done
    /\ (call.side = "BUY" => Spaced(call)) /\ remaining > 0 =>
         \A i \in 1..Len(call.levels) : i < at /\ Reached(i) => Emptied(i) \/ Unpayable(i)

\* The level the loop leaves behind is used up, or no later price is paid for.
LEMMA LeftBehind ==
    ASSUME call \in Inputs, call.side = "BUY" => Spaced(call), remaining \in Nat, budget \in Nat,
           NEW level \in BookLevel, Slipped(level) \in 1..(Scale - 1),
           remaining - Take(level) > 0
    PROVE  \/ Take(level) = Available(level)
           \/ /\ call.side = "BUY"
              /\ \A p \in 1..(Scale - 1) : Slipped(level) + Step(call) <= p =>
                   budget - Cost(Take(level), Slipped(level)) < Cost(1, p)
<1>1. Take(level) \in Nat /\ Available(level) \in Nat
  <2>1. Available(level) \in Nat
    BY ScaleAssumption, DivNat DEF Available, BookLevel
  <2>2. QED
    BY <2>1, TakeBounds
<1>2. CASE Take(level) = Least(remaining, Available(level))
  <2>1. Take(level) # remaining
    BY <1>1
  <2>2. QED
    BY <1>2, <2>1 DEF Least
<1>3. CASE Take(level) # Least(remaining, Available(level))
  <2>1. call.side = "BUY"
    BY <1>3, CallTypes DEF Take
  <2>2. ASSUME NEW p \in 1..(Scale - 1), Slipped(level) + Step(call) <= p
        PROVE  budget - Cost(Take(level), Slipped(level)) < Cost(1, p)
    <3>1. budget < Cost(Take(level), Slipped(level)) + Cost(1, p)
      BY <1>3, <2>1, <2>2, TakeLeaves
    <3>2. p \in 0..Scale /\ Slipped(level) \in 0..Scale
      BY ScaleAssumption
    <3>3. Cost(Take(level), Slipped(level)) \in Nat /\ Cost(1, p) \in Nat
      BY <1>1, <3>2, CostNat
    <3>4. QED
      BY <3>1, <3>3
  <2>3. QED
    BY <2>1, <2>2
<1>4. QED
  BY <1>2, <1>3

\* A step of the match keeps the best-price bound on what was taken so far.
LEMMA BestStep == Inv /\ BestSoFar /\ BestPriceFirst /\ [Next]_vars => (BestSoFar /\ BestPriceFirst)'
<1> SUFFICES ASSUME Inv, BestSoFar, BestPriceFirst, [Next]_vars
             PROVE  (BestSoFar /\ BestPriceFirst)'
  OBVIOUS
<1>0. call' = call
  BY DEF Next, Stop, SkipLevel, TakeLevel, vars
<1>1. /\ call \in Inputs /\ call.levels \in Seq(BookLevel) /\ Len(call.levels) \in Nat
      /\ at \in 1..(Len(call.levels) + 1) /\ remaining \in Nat /\ budget \in Nat
      /\ fills \in Seq(Fill) /\ call.side \in {"BUY", "SELL"}
  <2>1. call \in Inputs
    BY DEF Inv
  <2>2. QED
    BY <2>1, CallTypes DEF Inv, TypeOK
<1>2. \A i \in 1..Len(call.levels) :
        /\ call.levels[i] \in BookLevel /\ Slipped(call.levels[i]) \in Nat
        /\ Available(call.levels[i]) \in Nat
  <2> SUFFICES ASSUME NEW i \in 1..Len(call.levels)
               PROVE  /\ call.levels[i] \in BookLevel /\ Slipped(call.levels[i]) \in Nat
                      /\ Available(call.levels[i]) \in Nat
    OBVIOUS
  <2>1. call.levels[i] \in BookLevel
    BY <1>1
  <2>2. call.levels[i].size \in Nat
    BY <2>1 DEF BookLevel
  <2>3. QED
    BY <1>1, <2>1, <2>2, SlippedBounds, DivNat, ScaleAssumption DEF Available
<1>3. CASE UNCHANGED <<call, at, remaining, budget, fills>> /\ (done => done')
  BY <1>3 DEF BestSoFar, BestPriceFirst, Reached, Emptied, Unpayable, Slipped, Available, Cost, Fee
<1>4. CASE SkipLevel
  <2>1. UNCHANGED <<call, remaining, budget, fills, done>> /\ at' = at + 1 /\ ~done
          /\ at \in 1..Len(call.levels)
    BY <1>1, <1>4 DEF SkipLevel
  <2>2. ASSUME call.side = "BUY" => Spaced(call), remaining > 0, Reached(at)
        PROVE  Unpayable(at)
    <3> DEFINE level == call.levels[at]
    <3>1. Take(level) = 0 /\ Slipped(level) \in 1..(Scale - 1) /\ Available(level) > 0
      BY <1>4, <2>2 DEF SkipLevel, Reached
    <3>2. level \in BookLevel /\ Available(level) \in Nat
      BY <1>2, <2>1
    <3> HIDE DEF level
    <3>3. remaining - Take(level) > 0
      BY <1>1, <2>2, <3>1
    <3>4. Slipped(level) \in 0..Scale
      BY <3>1, ScaleAssumption
    <3>5. budget - Cost(Take(level), Slipped(level)) = budget
      BY <1>1, <3>1, <3>4, NoneCostNothing
    <3>6. Take(level) # Available(level)
      BY <3>1, <3>2
    <3>7. call.side = "BUY" /\ \A p \in 1..(Scale - 1) :
            Slipped(level) + Step(call) <= p => budget < Cost(1, p)
      BY <1>1, <2>2, <3>1, <3>2, <3>3, <3>5, <3>6, LeftBehind
    <3>8. QED
      BY <3>7 DEF Unpayable, level
  <2>3. ASSUME call.side = "BUY" => Spaced(call), remaining > 0,
               NEW i \in 1..Len(call.levels), i < at', Reached(i)
        PROVE  Emptied(i) \/ Unpayable(i)
    <3>1. i = at \/ i < at
      BY <1>1, <2>1, <2>3
    <3>2. CASE i = at
      BY <2>2, <2>3, <3>2
    <3>3. CASE i < at
      BY <2>3, <3>3 DEF BestSoFar
    <3>4. QED
      BY <3>1, <3>2, <3>3
  <2>4. QED
    BY <2>1, <2>3
       DEF BestSoFar, BestPriceFirst, Reached, Emptied, Unpayable, Slipped, Available, Cost, Fee
<1>5. CASE TakeLevel
  <2> DEFINE level == call.levels[at]
             take == Take(level)
             price == Slipped(level)
             fill == [quantity |-> take, price |-> price, fee |-> Fee(take, price), level |-> at]
             cost == Cost(take, price)
             Empty(i) == \E k \in 1..Len(fills') :
               fills'[k].level = i /\ fills'[k].quantity = Available(call.levels[i])
             Beneath(i) == call.side = "BUY" /\ \A p \in 1..(Scale - 1) :
               Slipped(call.levels[i]) + Step(call) <= p => budget' < Cost(1, p)
  <2>1. /\ call' = call /\ at' = at + 1 /\ remaining' = remaining - take /\ ~done
        /\ done' = (remaining' = 0) /\ fills' = Append(fills, fill) /\ at \in 1..Len(call.levels)
        /\ budget' = (IF call.side = "BUY" THEN budget - cost ELSE budget)
        /\ price \in 1..(Scale - 1) /\ take > 0
    BY <1>1, <1>5 DEF TakeLevel
  <2>2. level \in BookLevel /\ Available(level) \in Nat
    BY <1>2, <2>1
  <2>3. fill.level = at /\ fill.quantity = take
    OBVIOUS
  <2> HIDE DEF fill, level
  <2>4. /\ take \in Nat \ {0} /\ take <= remaining
        /\ call.side = "BUY" => cost <= budget
    BY <1>1, <2>1, <2>2, TakeBounds
  <2>5. price \in 0..Scale
    BY <2>1, ScaleAssumption
  <2> HIDE DEF take, price
  <2>6. cost \in Nat
    BY <1>1, <2>4, <2>5, CostNat
  <2> HIDE DEF cost
  <2>7. /\ Len(fills) \in Nat /\ Len(fills') = Len(fills) + 1 /\ fills'[Len(fills) + 1] = fill
        /\ \A k \in 1..Len(fills) : fills'[k] = fills[k]
    BY <1>1, <2>1
  <2>8. \A i : Emptied(i) => Empty(i)
    <3> SUFFICES ASSUME NEW i, Emptied(i) PROVE Empty(i)
      OBVIOUS
    <3>1. PICK k \in 1..Len(fills) :
            fills[k].level = i /\ fills[k].quantity = Available(call.levels[i])
      BY DEF Emptied
    <3>2. k \in 1..Len(fills') /\ fills'[k] = fills[k]
      BY <2>7
    <3>3. QED
      BY <3>1, <3>2
  <2>9. budget' <= budget /\ budget' \in Int
    BY <1>1, <2>1, <2>6
  <2>10. ASSUME NEW i \in 1..Len(call.levels), Unpayable(i) PROVE Beneath(i)
    <3>1. call.side = "BUY"
      BY <2>10 DEF Unpayable
    <3>2. ASSUME NEW p \in 1..(Scale - 1), Slipped(call.levels[i]) + Step(call) <= p
          PROVE  budget' < Cost(1, p)
      <4>1. budget < Cost(1, p)
        BY <2>10, <3>2 DEF Unpayable
      <4>2. p \in 0..Scale
        BY ScaleAssumption
      <4>3. Cost(1, p) \in Nat
        BY <1>1, <4>2, CostNat
      <4>4. QED
        BY <1>1, <2>9, <4>1, <4>3
    <3>3. QED
      BY <3>1, <3>2
  <2>11. ASSUME call.side = "BUY" => Spaced(call), remaining' > 0 PROVE Empty(at) \/ Beneath(at)
    <3>1. remaining - Take(level) > 0 /\ Slipped(level) \in 1..(Scale - 1)
      BY <2>1, <2>11 DEF take, price
    <3>2. \/ take = Available(level)
          \/ /\ call.side = "BUY"
             /\ \A p \in 1..(Scale - 1) : price + Step(call) <= p => budget - cost < Cost(1, p)
      BY <1>1, <2>2, <2>11, <3>1, LeftBehind DEF take, price, cost
    <3>3. CASE take = Available(level)
      <4>1. Len(fills) + 1 \in 1..Len(fills')
        BY <2>7
      <4>2. QED
        BY <2>3, <2>7, <3>3, <4>1 DEF level
    <3>4. CASE call.side = "BUY"
               /\ \A p \in 1..(Scale - 1) : price + Step(call) <= p => budget - cost < Cost(1, p)
      BY <2>1, <3>4 DEF price, level
    <3>5. QED
      BY <3>2, <3>3, <3>4
  <2>12. remaining > 0
    BY <1>1, <2>1 DEF BestSoFar
  <2>13. ASSUME call.side = "BUY" => Spaced(call), remaining' > 0,
                NEW i \in 1..Len(call.levels), i < at', Reached(i)
         PROVE  Empty(i) \/ Beneath(i)
    <3>1. i = at \/ i < at
      BY <1>1, <2>1, <2>13
    <3>2. CASE i = at
      BY <2>11, <2>13, <3>2
    <3>3. CASE i < at
      <4>1. Emptied(i) \/ Unpayable(i)
        BY <2>12, <2>13, <3>3 DEF BestSoFar
      <4>2. QED
        BY <2>8, <2>10, <4>1
    <3>4. QED
      BY <3>1, <3>2, <3>3
  <2>14. ASSUME call.side = "BUY" => Spaced(call),
                NEW i \in 1..Len(call.levels), i < at, Reached(i)
         PROVE  Empty(i)
    <3>1. Emptied(i) \/ Unpayable(i)
      BY <2>12, <2>14 DEF BestSoFar
    <3>2. ASSUME Unpayable(i) PROVE FALSE
      <4>1. call.side = "BUY" /\ Spaced(call)
        BY <2>14, <3>2 DEF Unpayable
      <4>2. call.levels[i].price + Step(call) <= level.price
        BY <2>1, <2>14, <4>1 DEF Spaced, level
      <4>3. Step(call) \in Nat /\ call.levels[i] \in BookLevel
        <5>1. Step(call) \in Nat
          BY StepNat
        <5>2. QED
          BY <1>2, <5>1
      <4>4. Slipped(call.levels[i]) + Step(call) <= price
        BY <1>1, <2>2, <4>1, <4>2, <4>3, SlippedApart DEF price
      <4>5. budget < Cost(1, price)
        BY <2>1, <3>2, <4>4 DEF Unpayable
      <4>6. Cost(1, price) <= cost /\ Cost(1, price) \in Nat
        BY <1>1, <2>4, <2>5, CostGrows, CostNat DEF cost
      <4>7. QED
        BY <1>1, <2>4, <2>6, <4>1, <4>5, <4>6
    <3>3. QED
      BY <2>8, <3>1, <3>2
  <2>15. ASSUME call.side = "BUY" => Spaced(call),
                NEW k \in 1..Len(fills'), NEW i \in 1..(fills'[k].level - 1), Reached(i)
         PROVE  Empty(i)
    <3>1. CASE k = Len(fills) + 1
      <4>1. i \in 1..(at - 1)
        BY <2>3, <2>7, <3>1
      <4>2. i \in 1..Len(call.levels) /\ i < at
        BY <1>1, <2>1, <4>1
      <4>3. QED
        BY <2>14, <2>15, <4>2
    <3>2. CASE k # Len(fills) + 1
      <4>1. k \in 1..Len(fills) /\ fills'[k] = fills[k]
        BY <2>7, <3>2
      <4>2. i \in 1..(fills[k].level - 1)
        BY <4>1
      <4>3. Emptied(i)
        BY <2>15, <4>1, <4>2 DEF BestPriceFirst, Reached, Emptied
      <4>4. QED
        BY <2>8, <4>3
    <3>3. QED
      BY <3>1, <3>2
  <2>16. BestSoFar'
    BY <2>1, <2>13 DEF BestSoFar, Reached, Emptied, Unpayable, Slipped, Available, Cost, Fee
  <2>17. BestPriceFirst'
    <3>0. call' = call
      BY <2>1
    <3> DEFINE Shares(i) == Slipped(call.levels[i]) \in 1..(Scale - 1) /\ Available(call.levels[i]) > 0
    <3>1. ((call.side = "BUY" => Spaced(call)) =>
             \A k \in 1..Len(fills') : \A i \in 1..(fills'[k].level - 1) : Shares(i) => Empty(i))
          => BestPriceFirst'
      BY <3>0 DEF BestPriceFirst, Slipped, Available
    <3>2. \A i : Shares(i) => Reached(i)
      BY DEF Reached
    <3> HIDE DEF Shares, Empty
    <3>3. QED
      BY <2>15, <3>1, <3>2
  <2>18. QED
    BY <2>16, <2>17
<1>6. QED
  BY <1>3, <1>4, <1>5 DEF Next, Stop, vars

\* A share is bought or sold at a worse price only when every better level is used up: for
\* purchases if the asks are spaced, as otherwise a fee that rounds down may make the later
\* level the cheaper one.  With the theorems above, the fills are sound.
THEOREM FillsStaySound == Spec => []FillsAreSound
<1>1. Init => BestSoFar /\ BestPriceFirst
  <2> SUFFICES ASSUME Init PROVE BestSoFar /\ BestPriceFirst
    OBVIOUS
  <2>1. /\ at = 1 /\ call.quantity \in Nat /\ remaining = call.quantity
        /\ done = (call.quantity = 0) /\ fills = <<>>
    BY CallTypes DEF Init, Rejected
  <2>2. \A i \in 1..Len(call.levels) : ~(i < at)
    BY <2>1
  <2>3. Len(fills) = 0
    BY <2>1
  <2>4. BestSoFar
    <3>1. remaining = 0 => done
      BY <2>1
    <3>2. QED
      BY <2>2, <3>1 DEF BestSoFar
  <2>5. \A k \in 1..Len(fills) : FALSE
    BY <2>3
  <2>6. BestPriceFirst
    BY <2>5 DEF BestPriceFirst
  <2>7. QED
    BY <2>4, <2>6
<1>2. Init => Inv /\ BestSoFar /\ BestPriceFirst
  BY <1>1, InitInv
<1>3. (Inv /\ BestSoFar /\ BestPriceFirst) /\ [Next]_vars => (Inv /\ BestSoFar /\ BestPriceFirst)'
  BY StepInv, BestStep
<1>4. Inv /\ BestPriceFirst /\ SoldOut => FillsAreSound
  BY DEF Inv, FillsAreSound
<1>5. QED
  BY <1>2, <1>3, <1>4, SalesUseUpTheBook, PTL DEF Spec

-----------------------------------------------------------------------------
(* Histories in time *)
(* The walk of a comparison.  AlignedInTime is not inductive.  The         *)
(* strengthening says which rows the walk has come to, that all of them    *)
(* were available, and that the newest row is the newest of them; and that *)
(* the rows of the chart were drawn in the order in which they arrived.    *)

Reach(s) == ReadFrom(history[s], Axis[1], MaxAge)
ChartReach == ReadFrom(history["left"], Axis[1], ChartAge)
Taken(s) == Reach(s) \ unread[s]
Charted == ChartReach \ uncharted

\* The row is the newest of the rows.
NewestIn(row, rows) ==
    IF rows = {} THEN row = NoRow ELSE row \in rows /\ \A b \in rows \ {row} : Newer(row, b)

WalkTyped ==
    /\ \E l \in Histories["left"], r \in Histories["right"] : history = [left |-> l, right |-> r]
    /\ reviewLog \in ReviewLogs
    /\ unread \in [Sides -> SUBSET HistoryRow] /\ \A s \in Sides : unread[s] \subseteq Reach(s)
    /\ newestRow \in [Sides -> HistoryRow \cup {NoRow}]
    /\ uncharted \subseteq ChartReach
    /\ inForce \in 0..Len(reviewLog)
    /\ Len(points) \in Nat /\ Len(points) <= Len(Axis) /\ DOMAIN points = 1..Len(points)
    /\ points \in Seq([compared : Seq(Nat), charted : SUBSET HistoryRow])

WalkIsDue ==
    Walking =>
        /\ Axis[1] <= At
        /\ \A s \in Sides : \A row \in Taken(s) : AvailableAt(row) <= At
        /\ \A i \in 1..inForce : reviewLog[i].at <= At
        /\ \A row \in Charted : AvailableAt(row) <= At

ChartIsInOrder ==
    /\ drawn # NoRow => drawn \in Charted
    /\ \A c \in Charted : /\ drawn # NoRow /\ (c = drawn \/ Arrived(c, drawn))
                          /\ \A u \in uncharted : Arrived(c, u)

AlignInv ==
    /\ WalkTyped /\ WalkIsDue /\ ChartIsInOrder
    /\ \A s \in Sides : NewestIn(newestRow[s], Taken(s))
    /\ AlignedInTime

-----------------------------------------------------------------------------
(* Rows in order *)

\* A total order has a first element on every finite set.
LEMMA FirstExists ==
    ASSUME NEW S, IsFiniteSet(S), S # {}, NEW O,
           \A a, b \in S : a # b => <<a, b>> \in O \/ <<b, a>> \in O,
           \A a, b, c \in S : <<a, b>> \in O /\ <<b, c>> \in O => <<a, c>> \in O
    PROVE  \E a \in S : \A b \in S \ {a} : <<a, b>> \in O
<1> DEFINE Good == {s \in SUBSET S : s # {} => \E a \in s : \A b \in s \ {a} : <<a, b>> \in O}
<1>1. {} \in Good
  OBVIOUS
<1>2. ASSUME NEW s \in SUBSET S, NEW x \in s, s \ {x} \in Good PROVE s \in Good
  <2>1. CASE s = {x}
    BY <2>1
  <2>2. CASE s # {x}
    <3>1. PICK a \in s \ {x} : \A b \in (s \ {x}) \ {a} : <<a, b>> \in O
      BY <1>2, <2>2
    <3>2. CASE <<a, x>> \in O
      BY <3>1, <3>2
    <3>3. CASE <<x, a>> \in O
      <4>1. \A b \in s \ {x} : <<x, b>> \in O
        BY <3>1, <3>3
      <4>2. QED
        BY <4>1
    <3>4. QED
      BY <3>2, <3>3
  <2>3. QED
    BY <2>1, <2>2
<1>3. S \in Good
  <2> HIDE DEF Good
  <2>1. QED
    BY <1>1, <1>2, SetInductionOn
<1>4. QED
  BY <1>3

Unique(rows) == rows \subseteq HistoryRow /\ \A a, b \in rows : a.id = b.id => a = b

LEMMA RowNumbers ==
    ASSUME NEW a \in HistoryRow
    PROVE  a.id \in Nat /\ a.received \in Nat /\ a.recorded \in Nat /\ AvailableAt(a) \in Nat
           /\ a.received <= AvailableAt(a)
  BY DEF HistoryRow, AvailableAt, Larger

LEMMA NewerIsOrder ==
    ASSUME NEW rows, Unique(rows)
    PROVE  /\ \A a, b \in rows : a # b => Newer(a, b) \/ Newer(b, a)
           /\ \A a, b \in rows : ~(Newer(a, b) /\ Newer(b, a))
           /\ \A a, b, c \in rows : Newer(a, b) /\ Newer(b, c) => Newer(a, c)
<1>1. \A a \in rows : a.id \in Nat /\ a.received \in Nat
  BY RowNumbers DEF Unique
<1>2. \A a, b \in rows : a # b => a.id # b.id
  BY DEF Unique
<1>3. QED
  BY <1>1, <1>2 DEF Newer

LEMMA ArrivedIsOrder ==
    ASSUME NEW rows, Unique(rows)
    PROVE  /\ \A a, b \in rows : a # b => Arrived(a, b) \/ Arrived(b, a)
           /\ \A a, b \in rows : ~(Arrived(a, b) /\ Arrived(b, a))
           /\ \A a, b, c \in rows : Arrived(a, b) /\ Arrived(b, c) => Arrived(a, c)
<1>1. \A a \in rows : AvailableAt(a) \in Nat
  BY RowNumbers DEF Unique
<1> HIDE DEF AvailableAt
<1>2. QED
  BY <1>1, NewerIsOrder DEF Arrived

LEMMA NewestExists ==
    ASSUME NEW rows, IsFiniteSet(rows), Unique(rows), rows # {}
    PROVE  \E a \in rows : \A b \in rows \ {a} : Newer(a, b)
<1> DEFINE O == {p \in rows \X rows : Newer(p[1], p[2])}
<1>1. \A a, b \in rows : <<a, b>> \in O <=> Newer(a, b)
  OBVIOUS
<1> HIDE DEF O
<1>2. \E a \in rows : \A b \in rows \ {a} : <<a, b>> \in O
  BY <1>1, NewerIsOrder, FirstExists
<1>3. QED
  BY <1>1, <1>2

LEMMA FirstIs ==
    ASSUME NEW rows, IsFiniteSet(rows), Unique(rows), rows # {}
    PROVE  FirstOf(rows) \in rows /\ \A b \in rows \ {FirstOf(rows)} : Arrived(FirstOf(rows), b)
<1> DEFINE O == {p \in rows \X rows : Arrived(p[1], p[2])}
<1>1. \A a, b \in rows : <<a, b>> \in O <=> Arrived(a, b)
  OBVIOUS
<1> HIDE DEF O
<1>2. \E a \in rows : \A b \in rows \ {a} : <<a, b>> \in O
  BY <1>1, ArrivedIsOrder, FirstExists
<1>3. \E a \in rows : \A b \in rows \ {a} : Arrived(a, b)
  BY <1>1, <1>2
<1>4. QED
  BY <1>3 DEF FirstOf

LEMMA FirstByIdIs ==
    ASSUME NEW rows, IsFiniteSet(rows), Unique(rows), rows # {}
    PROVE  FirstById(rows) \in rows
<1> DEFINE EarlierById(a, b) ==
             AvailableAt(a) < AvailableAt(b) \/ (AvailableAt(a) = AvailableAt(b) /\ a.id < b.id)
           O == {p \in rows \X rows : EarlierById(p[1], p[2])}
<1>1. \A a, b \in rows : <<a, b>> \in O <=> EarlierById(a, b)
  OBVIOUS
<1> HIDE DEF O
<1>2. \A a \in rows : a.id \in Nat /\ AvailableAt(a) \in Nat
  BY RowNumbers DEF Unique
<1>3. \A a, b \in rows : a # b => a.id # b.id
  BY DEF Unique
<1>4. \A a, b \in rows : a # b => EarlierById(a, b) \/ EarlierById(b, a)
  BY <1>2, <1>3
<1>5. \A a, b, c \in rows : EarlierById(a, b) /\ EarlierById(b, c) => EarlierById(a, c)
  BY <1>2
<1> HIDE DEF EarlierById
<1>6. \E a \in rows : \A b \in rows \ {a} : <<a, b>> \in O
  BY <1>1, <1>4, <1>5, FirstExists
<1>7. \E a \in rows : \A b \in rows \ {a} : EarlierById(a, b)
  BY <1>1, <1>6
<1>8. QED
  BY <1>7 DEF FirstById, EarlierById

\* The newest of all rows is the newest of those the walk has come to, or is too old.
LEMMA NewestOfAll ==
    ASSUME NEW rows, IsFiniteSet(rows), Unique(rows), NEW reach, reach \subseteq rows,
           \A a \in reach, b \in rows \ reach : b.received < a.received,
           NEW row, NewestIn(row, reach),
           NEW best, best = IF rows = {} THEN NoRow ELSE CHOOSE a \in rows : \A b \in rows \ {a} : Newer(a, b)
    PROVE  row = best \/ (row = NoRow /\ best \in rows \ reach)
<1>1. CASE rows = {}
  BY <1>1 DEF NewestIn
<1>2. CASE rows # {}
  <2>1. best \in rows /\ \A b \in rows \ {best} : Newer(best, b)
    BY <1>2, NewestExists
  <2>2. CASE reach = {}
    BY <2>1, <2>2 DEF NewestIn
  <2>3. CASE reach # {}
    <3>1. row \in reach /\ \A b \in reach \ {row} : Newer(row, b)
      BY <2>3 DEF NewestIn
    <3>2. best \in reach
      <4>1. \A a \in reach, b \in rows \ reach : a.received \in Nat /\ b.received \in Nat /\ b.received < a.received
        BY RowNumbers DEF Unique
      <4>2. \A b \in rows \ reach : ~Newer(b, row)
        BY <3>1, <4>1 DEF Newer
      <4>3. QED
        BY <2>1, <3>1, <4>2
    <3>3. row = best
      BY <2>1, <3>1, <3>2, NewerIsOrder
    <3>4. QED
      BY <3>3
  <2>4. QED
    BY <2>2, <2>3
<1>3. QED
  BY <1>1, <1>2


-----------------------------------------------------------------------------
(* What the walk knows *)

LEMMA HistoryRows ==
    ASSUME WalkTyped, NEW s \in Sides
    PROVE  IsFiniteSet(history[s]) /\ Unique(history[s]) /\ Reach(s) \subseteq history[s]
<1>1. history[s] \in Histories[s]
  BY DEF WalkTyped, Sides
<1>2. QED
  BY <1>1, AlignmentAssumption DEF Unique, Reach, ReadFrom

\* Any part of a finite set of rows is one.
LEMMA PartOfRows ==
    ASSUME NEW rows, IsFiniteSet(rows), Unique(rows), NEW part, part \subseteq rows
    PROVE  IsFiniteSet(part) /\ Unique(part)
  BY FS_Subset DEF Unique

\* The axis ascends; a time is a number.
LEMMA AxisAscends ==
    /\ Axis \in Seq(Nat) /\ Len(Axis) \in Nat \ {0}
    /\ \A i \in 1..Len(Axis) : Axis[i] \in Nat
    /\ \A i \in 1..(Len(Axis) - 1) : Axis[i] < Axis[i + 1]
    /\ MaxAge \in Nat /\ ChartAge \in Nat
  BY AlignmentAssumption

LEMMA AtIsTime == ASSUME WalkTyped, Walking PROVE At \in Nat /\ Len(points) + 1 \in 1..Len(Axis)
<1>1. Len(points) + 1 \in 1..Len(Axis)
  BY AxisAscends DEF WalkTyped, Walking
<1>2. QED
  BY <1>1, AxisAscends DEF At

\* What has been concluded of the points so far rests on the histories alone.
LEMMA PointsRest ==
    ASSUME WalkTyped, AlignedInTime, UNCHANGED <<history, reviewLog, points>>
    PROVE  AlignedInTime'
<1>1. /\ \A s \in Sides : \A moment \in Nat : NewestBy(s, moment)' = NewestBy(s, moment)
      /\ \A moment \in Nat : ReviewBy(moment)' = ReviewBy(moment)
  BY DEF NewestBy, ReviewBy
<1>2. /\ points' = points /\ history' = history
      /\ DOMAIN points = 1..Len(points) /\ Len(points) <= Len(Axis) /\ Len(points) \in Nat
  BY DEF WalkTyped
<1>3. \A i \in DOMAIN points : Axis[i] \in Nat
  BY <1>2, AxisAscends
<1>4. ComparisonsAreOfTheirTime'
  <2>1. \A i \in DOMAIN points :
          points[i].compared = Compared(NewestBy("left", Axis[i])', NewestBy("right", Axis[i])',
                                        ReviewBy(Axis[i])', Axis[i])
    BY <1>1, <1>3 DEF AlignedInTime, ComparisonsAreOfTheirTime, Sides
  <2>2. QED
    BY <1>2, <2>1 DEF ComparisonsAreOfTheirTime
<1>5. ChartIsOfItsTime'
  BY <1>2 DEF AlignedInTime, ChartIsOfItsTime
<1>6. QED
  BY <1>4, <1>5 DEF AlignedInTime

\* The walk keeps the newer of two rows.
LEMMA LatestIsNewest ==
    ASSUME NEW rows, Unique(rows), NEW known, known \subseteq rows, NEW row \in rows \ known,
           NEW old, NewestIn(old, known)
    PROVE  NewestIn(Latest(old, row), known \union {row})
<1>1. row # NoRow /\ NoRow \notin known
  BY AlignmentAssumption DEF Unique
<1>2. CASE known = {}
  BY <1>2 DEF NewestIn, Latest
<1>3. CASE known # {}
  <2>1. old \in known /\ old # NoRow /\ \A b \in known \ {old} : Newer(old, b)
    BY <1>1, <1>3 DEF NewestIn
  <2>2. CASE Newer(row, old)
    <3>1. \A b \in known : Newer(row, b)
      BY <2>1, <2>2, NewerIsOrder
    <3>2. Latest(old, row) = row
      BY <2>1, <2>2 DEF Latest
    <3>3. QED
      BY <3>1, <3>2 DEF NewestIn
  <2>3. CASE ~Newer(row, old)
    <3>1. Newer(old, row)
      BY <2>1, <2>3, NewerIsOrder
    <3>2. Latest(old, row) = old
      BY <2>1, <2>3 DEF Latest
    <3>3. QED
      BY <2>1, <3>1, <3>2 DEF NewestIn
  <2>4. QED
    BY <2>2, <2>3
<1>4. QED
  BY <1>2, <1>3

\* A row beyond the reach is too old to be compared, so its absence changes nothing.
TooOld(row, moment) == moment - row.received > MaxAge
SameSide(row, best, moment) == row = best \/ (row = NoRow /\ TooOld(best, moment))

LEMMA ReachIsEnough ==
    ASSUME NEW left, NEW left2, NEW right, NEW right2, NEW review, NEW moment \in Nat,
           SameSide(left, left2, moment), SameSide(right, right2, moment),
           left2 = NoRow \/ left2 \in HistoryRow, right2 = NoRow \/ right2 \in HistoryRow
    PROVE  Compared(left, right, review, moment) = Compared(left2, right2, review, moment)
<1>1. CASE left = left2 /\ right = right2
  BY <1>1
<1>2. ASSUME NEW row \in HistoryRow, TooOld(row, moment) PROVE ~(moment - row.received <= MaxAge)
  BY <1>2, RowNumbers, AxisAscends DEF TooOld
<1>3. CASE left # left2
  <2>1. left = NoRow /\ TooOld(left2, moment)
    BY <1>3 DEF SameSide
  <2>2. left2 \in HistoryRow
    BY <1>3, <2>1
  <2>3. ~Comparable(left, right, review, moment) /\ ~Comparable(left2, right2, review, moment)
    BY <1>2, <2>1, <2>2 DEF Comparable
  <2>4. QED
    BY <2>3 DEF Compared
<1>4. CASE right # right2
  <2>1. right = NoRow /\ TooOld(right2, moment)
    BY <1>4 DEF SameSide
  <2>2. right2 \in HistoryRow
    BY <1>4, <2>1
  <2>3. ~Comparable(left, right, review, moment) /\ ~Comparable(left2, right2, review, moment)
    BY <1>2, <2>1, <2>2 DEF Comparable
  <2>4. QED
    BY <2>3 DEF Compared
<1>5. QED
  BY <1>1, <1>3, <1>4

\* When nothing is due on a side, the newest row the walk came to is the newest there was.
LEMMA NewestIsKnown ==
    ASSUME WalkTyped, WalkIsDue, Walking, NEW s \in Sides, NewestIn(newestRow[s], Taken(s)),
           DueRows(unread[s]) = {}
    PROVE  /\ SameSide(newestRow[s], NewestBy(s, At), At)
           /\ NewestBy(s, At) = NoRow \/ NewestBy(s, At) \in HistoryRow
<1> DEFINE rows == {row \in history[s] : AvailableAt(row) <= At}
           best == IF rows = {} THEN NoRow ELSE CHOOSE a \in rows : \A b \in rows \ {a} : Newer(a, b)
<1>1. IsFiniteSet(history[s]) /\ Unique(history[s]) /\ Reach(s) \subseteq history[s]
  BY HistoryRows
<1>2. IsFiniteSet(rows) /\ Unique(rows)
  BY <1>1, PartOfRows
<1>3. best = NewestBy(s, At)
  BY DEF NewestBy
<1>4. Taken(s) \subseteq rows
  BY <1>1 DEF Taken, WalkIsDue
<1>5. At \in Nat /\ Axis[1] \in Nat /\ MaxAge \in Nat /\ Axis[1] <= At
  BY AtIsTime, AxisAscends DEF WalkIsDue
<1>6. \A b \in rows \ Taken(s) : b \in history[s] /\ b \notin Reach(s)
  BY DEF Taken, DueRows
<1>7. \A b \in rows \ Taken(s) : b.received \in Nat /\ b.received < Axis[1] - MaxAge
  BY <1>1, <1>5, <1>6, RowNumbers DEF Reach, ReadFrom, Unique
<1>8. \A a \in Taken(s) : a.received \in Nat /\ a.received >= Axis[1] - MaxAge
  BY <1>1, <1>5, RowNumbers DEF Taken, Reach, ReadFrom, Unique
<1> HIDE DEF rows
<1>9. \A a \in Taken(s), b \in rows \ Taken(s) : b.received < a.received
  BY <1>5, <1>7, <1>8
<1>10. newestRow[s] = best \/ (newestRow[s] = NoRow /\ best \in rows \ Taken(s))
  <2> HIDE DEF best
  <2>1. best = IF rows = {} THEN NoRow ELSE CHOOSE a \in rows : \A b \in rows \ {a} : Newer(a, b)
    BY DEF best
  <2>2. QED
    BY <1>2, <1>4, <1>9, <2>1, NewestOfAll
<1>11. best = NoRow \/ best \in rows
  BY <1>2, NewestExists
<1> HIDE DEF best
<1>12. \A b \in rows \ Taken(s) : TooOld(b, At)
  BY <1>5, <1>7 DEF TooOld
<1>13. QED
  BY <1>2, <1>3, <1>10, <1>11, <1>12 DEF SameSide, Unique

\* When no review is due, the last one the walk came to is the one in force.
LEMMA ReviewIsInForce ==
    ASSUME WalkTyped, WalkIsDue, Walking, ~DueReview
    PROVE  ReviewBy(At) = IF inForce = 0 THEN NoRow ELSE reviewLog[inForce]
<1> DEFINE made == {i \in DOMAIN reviewLog : reviewLog[i].at <= At}
<1>1. /\ Len(reviewLog) \in Nat /\ DOMAIN reviewLog = 1..Len(reviewLog)
      /\ \A i \in DOMAIN reviewLog : reviewLog[i].at \in Nat
      /\ \A i, j \in DOMAIN reviewLog : i <= j => reviewLog[i].at <= reviewLog[j].at
  BY AlignmentAssumption DEF WalkTyped
<1>2. inForce \in 0..Len(reviewLog) /\ \A i \in 1..inForce : reviewLog[i].at <= At
  BY DEF WalkTyped, WalkIsDue
<1>3. At \in Nat
  BY AtIsTime
<1>4. \A i \in 1..inForce : i \in made
  BY <1>1, <1>2
<1>5. ASSUME NEW i \in made PROVE i <= inForce
  <2> SUFFICES ASSUME i > inForce PROVE FALSE
    BY <1>1, <1>2
  <2>1. inForce + 1 \in DOMAIN reviewLog /\ i \in DOMAIN reviewLog /\ inForce + 1 <= i
    BY <1>1, <1>2
  <2>2. reviewLog[inForce + 1].at <= reviewLog[i].at
    BY <1>1, <2>1
  <2>3. reviewLog[inForce + 1].at <= At
    BY <1>1, <1>3, <2>1, <2>2
  <2>4. QED
    BY <1>1, <1>2, <2>1, <2>3 DEF DueReview
<1>6. made = 1..inForce
  BY <1>1, <1>2, <1>4, <1>5
<1>7. ReviewBy(At) = IF made = {} THEN NoRow ELSE reviewLog[CHOOSE i \in made : \A j \in made : j <= i]
  BY DEF ReviewBy
<1> HIDE DEF made
<1>8. CASE inForce = 0
  BY <1>6, <1>7, <1>8
<1>9. CASE inForce # 0
  <2>1. inForce \in made /\ \A i \in made : (\A j \in made : j <= i) <=> i = inForce
    BY <1>2, <1>6, <1>9
  <2>2. (CHOOSE i \in made : \A j \in made : j <= i) = inForce
    BY <2>1
  <2>3. QED
    BY <1>7, <1>9, <2>1, <2>2
<1>10. QED
  BY <1>8, <1>9


-----------------------------------------------------------------------------
(* The steps of the walk *)

LEMMA WalkStarts == AlignmentInit => AlignInv
<1> SUFFICES ASSUME AlignmentInit PROVE AlignInv
  OBVIOUS
<1>1. points = <<>> /\ Len(points) = 0 /\ DOMAIN points = {} /\ inForce = 0 /\ drawn = NoRow
  BY DEF AlignmentInit, AlignmentStart
<1>2. /\ \E l \in Histories["left"], r \in Histories["right"] : history = [left |-> l, right |-> r]
      /\ reviewLog \in ReviewLogs
  BY DEF AlignmentInit
<1>3. \A s \in Sides : history[s] \subseteq HistoryRow
  BY <1>2, AlignmentAssumption DEF Sides
<1>4. \A s \in Sides : unread[s] = Reach(s) /\ Taken(s) = {} /\ newestRow[s] = NoRow
  BY DEF AlignmentInit, AlignmentStart, Reach, Taken
<1>5. uncharted = ChartReach /\ Charted = {}
  BY DEF AlignmentInit, AlignmentStart, ChartReach, Charted
<1>6. WalkTyped
  <2>1. unread \in [Sides -> SUBSET HistoryRow]
    BY <1>3 DEF AlignmentInit, AlignmentStart, ReadFrom
  <2>2. newestRow \in [Sides -> HistoryRow \cup {NoRow}]
    BY DEF AlignmentInit, AlignmentStart
  <2>3. Len(reviewLog) \in Nat
    BY <1>2, AlignmentAssumption
  <2>4. QED
    BY <1>1, <1>2, <1>4, <1>5, <2>1, <2>2, <2>3, AxisAscends DEF WalkTyped
<1>7. WalkIsDue
  <2>1. At = Axis[1] /\ Axis[1] \in Nat
    BY <1>1, AxisAscends DEF At
  <2>2. QED
    BY <1>1, <1>4, <1>5, <2>1 DEF WalkIsDue
<1>8. ChartIsInOrder
  BY <1>1, <1>5 DEF ChartIsInOrder
<1>9. \A s \in Sides : NewestIn(newestRow[s], Taken(s))
  BY <1>4 DEF NewestIn
<1>10. AlignedInTime
  BY <1>1 DEF AlignedInTime, ComparisonsAreOfTheirTime, ChartIsOfItsTime
<1>11. QED
  BY <1>6, <1>7, <1>8, <1>9, <1>10 DEF AlignInv

LEMMA ReviewIsTaken == ASSUME AlignInv, TakeReview PROVE AlignInv'
<1> USE DEF AlignInv
<1>1. Len(reviewLog) \in Nat
  BY AlignmentAssumption DEF WalkTyped
<1>2. inForce' = inForce + 1 /\ inForce + 1 \in 0..Len(reviewLog) /\ reviewLog[inForce + 1].at <= At
  BY <1>1 DEF TakeReview, DueReview, WalkTyped
<1>3. UNCHANGED <<history, reviewLog, unread, newestRow, drawn, uncharted, points>> /\ Walking
  BY DEF TakeReview
<1>4. /\ \A s \in Sides : Reach(s)' = Reach(s) /\ Taken(s)' = Taken(s)
      /\ ChartReach' = ChartReach /\ Charted' = Charted /\ At' = At /\ Walking' = Walking
  BY <1>3 DEF Reach, Taken, ChartReach, Charted, At, Walking
<1>5. WalkTyped'
  BY <1>2, <1>3, <1>4 DEF WalkTyped
<1>6. WalkIsDue'
  <2>1. \A i \in 1..inForce' : i \in 1..inForce \/ i = inForce + 1
    BY <1>2 DEF WalkTyped
  <2>2. \A i \in 1..inForce' : reviewLog[i].at <= At
    BY <1>2, <1>3, <2>1 DEF WalkIsDue
  <2>3. QED
    BY <1>3, <1>4, <2>2 DEF WalkIsDue
<1>7. ChartIsInOrder'
  BY <1>3, <1>4 DEF ChartIsInOrder
<1>8. \A s \in Sides : NewestIn(newestRow[s]', Taken(s)')
  BY <1>3, <1>4
<1>9. AlignedInTime'
  BY <1>3, PointsRest
<1>10. QED
  BY <1>5, <1>6, <1>7, <1>8, <1>9

LEMMA RowIsTaken == ASSUME AlignInv, NEW side \in Sides, TakeRow(side) PROVE AlignInv'
<1> USE DEF AlignInv
<1> DEFINE row == FirstById(DueRows(unread[side]))
<1>1. IsFiniteSet(history[side]) /\ Unique(history[side]) /\ Reach(side) \subseteq history[side]
  BY HistoryRows
<1>2. unread[side] \subseteq Reach(side)
  BY DEF WalkTyped
<1>3. row \in DueRows(unread[side])
  <2>1. DueRows(unread[side]) # {} /\ DueRows(unread[side]) \subseteq history[side]
    BY <1>1, <1>2 DEF TakeRow, DueRows
  <2>2. IsFiniteSet(DueRows(unread[side])) /\ Unique(DueRows(unread[side]))
    BY <1>1, <2>1, PartOfRows
  <2>3. QED
    BY <2>1, <2>2, FirstByIdIs
<1>4. /\ unread' = [unread EXCEPT ![side] = unread[side] \ {row}]
      /\ newestRow' = [newestRow EXCEPT ![side] = Latest(newestRow[side], row)]
      /\ UNCHANGED <<history, reviewLog, inForce, drawn, uncharted, points>> /\ Walking
  BY DEF TakeRow
<1> HIDE DEF row
<1>5. row \in unread[side] /\ AvailableAt(row) <= At /\ row \in HistoryRow
  BY <1>1, <1>2, <1>3 DEF DueRows, Unique
<1>6. /\ \A s \in Sides : Reach(s)' = Reach(s)
      /\ ChartReach' = ChartReach /\ Charted' = Charted /\ At' = At /\ Walking' = Walking
  BY <1>4 DEF Reach, ChartReach, Charted, At, Walking
<1>7. /\ unread[side]' = unread[side] \ {row} /\ newestRow[side]' = Latest(newestRow[side], row)
      /\ \A s \in Sides \ {side} : unread[s]' = unread[s] /\ newestRow[s]' = newestRow[s]
  BY <1>4 DEF WalkTyped
<1>8. Taken(side)' = Taken(side) \union {row} /\ \A s \in Sides \ {side} : Taken(s)' = Taken(s)
  BY <1>2, <1>5, <1>6, <1>7 DEF Taken
<1>9. Latest(newestRow[side], row) \in HistoryRow \cup {NoRow}
  BY <1>5 DEF Latest, WalkTyped
<1>10. WalkTyped'
  <2>1. unread' \in [Sides -> SUBSET HistoryRow] /\ newestRow' \in [Sides -> HistoryRow \cup {NoRow}]
    BY <1>4, <1>9 DEF WalkTyped
  <2>2. \A s \in Sides : unread[s]' \subseteq Reach(s)'
    BY <1>6, <1>7 DEF WalkTyped
  <2>3. QED
    BY <1>4, <1>6, <2>1, <2>2 DEF WalkTyped
<1>11. WalkIsDue'
  <2>1. \A s \in Sides : \A r \in Taken(s)' : AvailableAt(r) <= At
    BY <1>4, <1>5, <1>8 DEF WalkIsDue
  <2>2. QED
    BY <1>4, <1>6, <2>1 DEF WalkIsDue
<1>12. ChartIsInOrder'
  BY <1>4, <1>6 DEF ChartIsInOrder
<1>13. \A s \in Sides : NewestIn(newestRow[s]', Taken(s)')
  <2>1. Taken(side) \subseteq history[side] /\ row \in history[side] \ Taken(side)
    BY <1>1, <1>2, <1>5 DEF Taken
  <2>2. NewestIn(Latest(newestRow[side], row), Taken(side) \union {row})
    BY <1>1, <2>1, LatestIsNewest
  <2>3. QED
    BY <1>7, <1>8, <2>2
<1>14. AlignedInTime'
  BY <1>4, PointsRest
<1>15. QED
  BY <1>10, <1>11, <1>12, <1>13, <1>14

LEMMA RowIsDrawn == ASSUME AlignInv, Draw PROVE AlignInv'
<1> USE DEF AlignInv
<1>1. IsFiniteSet(history["left"]) /\ Unique(history["left"]) /\ uncharted \subseteq ChartReach
  BY HistoryRows DEF Sides, WalkTyped
<1>2. ChartReach \subseteq history["left"]
  BY DEF ChartReach, ReadFrom
<1>3. IsFiniteSet(DueRows(uncharted)) /\ Unique(DueRows(uncharted)) /\ DueRows(uncharted) # {}
  <2>1. DueRows(uncharted) \subseteq history["left"]
    BY <1>1, <1>2 DEF DueRows
  <2>2. QED
    BY <1>1, <2>1, PartOfRows DEF Draw
<1>4. /\ drawn' \in DueRows(uncharted)
      /\ \A b \in DueRows(uncharted) \ {drawn'} : Arrived(drawn', b)
      /\ uncharted' = uncharted \ {drawn'}
      /\ UNCHANGED <<history, reviewLog, unread, newestRow, inForce, points>> /\ Walking
  BY <1>3, FirstIs DEF Draw
<1>5. drawn' \in uncharted /\ AvailableAt(drawn') <= At /\ drawn' \in history["left"]
  BY <1>1, <1>2, <1>4 DEF DueRows
<1>6. drawn' # NoRow /\ \A u \in uncharted : u \in HistoryRow
  BY <1>1, <1>2, <1>5, AlignmentAssumption DEF Unique
<1>7. /\ \A s \in Sides : Reach(s)' = Reach(s) /\ Taken(s)' = Taken(s)
      /\ ChartReach' = ChartReach /\ At' = At /\ Walking' = Walking
  BY <1>4 DEF Reach, Taken, ChartReach, At, Walking
<1>8. Charted' = Charted \union {drawn'}
  BY <1>1, <1>4, <1>5, <1>7 DEF Charted
<1>9. WalkTyped'
  BY <1>4, <1>7 DEF WalkTyped
<1>10. WalkIsDue'
  BY <1>4, <1>5, <1>7, <1>8 DEF WalkIsDue
<1>11. ChartIsInOrder'
  <2>1. ASSUME NEW u \in uncharted \ {drawn'} PROVE Arrived(drawn', u)
    <3>1. CASE u \in DueRows(uncharted)
      BY <1>4, <2>1, <3>1
    <3>2. CASE u \notin DueRows(uncharted)
      <4>1. ~(AvailableAt(u) <= At)
        BY <2>1, <3>2 DEF DueRows
      <4>2. At \in Nat /\ AvailableAt(u) \in Nat /\ AvailableAt(drawn') \in Nat
        BY <1>4, <1>5, <1>6, <2>1, AtIsTime, RowNumbers
      <4>3. AvailableAt(drawn') < AvailableAt(u)
        BY <1>5, <4>1, <4>2
      <4>4. QED
        BY <4>3 DEF Arrived
    <3>3. QED
      BY <3>1, <3>2
  <2>2. \A c \in Charted : Arrived(c, drawn') /\ \A u \in uncharted : Arrived(c, u)
    BY <1>5 DEF ChartIsInOrder
  <2>3. QED
    BY <1>4, <1>6, <1>8, <2>1, <2>2 DEF ChartIsInOrder
<1>12. \A s \in Sides : NewestIn(newestRow[s]', Taken(s)')
  BY <1>4, <1>7
<1>13. AlignedInTime'
  BY <1>4, PointsRest
<1>14. QED
  BY <1>9, <1>10, <1>11, <1>12, <1>13


LEMMA PointIsMade == ASSUME AlignInv, Point PROVE AlignInv'
<1> USE DEF AlignInv
<1> DEFINE n == Len(points) + 1
           review == IF inForce = 0 THEN NoRow ELSE reviewLog[inForce]
           made == [compared |-> Compared(newestRow["left"], newestRow["right"], review, At),
                    charted |-> IF Drawable(drawn, At) THEN {drawn} ELSE {}]
<1>1. /\ points' = Append(points, made) /\ Walking /\ ~DueReview
      /\ UNCHANGED <<history, reviewLog, unread, newestRow, inForce, drawn, uncharted>>
  BY DEF Point
<1>2. DueRows(unread["left"]) = {} /\ DueRows(unread["right"]) = {} /\ DueRows(uncharted) = {}
  BY DEF Point, DueRows
<1>3. At \in Nat /\ n \in 1..Len(Axis) /\ At = Axis[n] /\ Len(points) \in Nat
  BY <1>1, AtIsTime DEF At, WalkTyped
<1>4. drawn = NoRow \/ drawn \in HistoryRow
  BY HistoryRows DEF ChartIsInOrder, Charted, ChartReach, ReadFrom, Sides, Unique
<1>5. made \in [compared : Seq(Nat), charted : SUBSET HistoryRow]
  <2>1. made.charted \in SUBSET HistoryRow
    BY <1>4 DEF Drawable
  <2>2. ASSUME Comparable(newestRow["left"], newestRow["right"], review, At)
        PROVE  made.compared \in Seq(Nat)
    <3>1. newestRow["left"] \in HistoryRow /\ newestRow["right"] \in HistoryRow
      BY <2>2 DEF Comparable, WalkTyped, Sides
    <3>2. inForce \in DOMAIN reviewLog /\ review = reviewLog[inForce]
      BY <2>2, AlignmentAssumption DEF Comparable, WalkTyped
    <3>3. review.version \in Nat
      BY <3>2, AlignmentAssumption DEF WalkTyped
    <3>4. newestRow["left"].id \in Nat /\ newestRow["right"].id \in Nat
      BY <3>1, RowNumbers
    <3> HIDE DEF review
    <3>5. QED
      BY <2>2, <3>3, <3>4 DEF Compared
  <2>3. ASSUME ~Comparable(newestRow["left"], newestRow["right"], review, At)
        PROVE  made.compared \in Seq(Nat)
    BY <2>3 DEF Compared
  <2>4. QED
    BY <2>1, <2>2, <2>3
<1>6. made.compared = Compared(NewestBy("left", At), NewestBy("right", At), ReviewBy(At), At)
  <2>1. review = ReviewBy(At)
    BY <1>1, ReviewIsInForce
  <2>2. /\ SameSide(newestRow["left"], NewestBy("left", At), At)
        /\ NewestBy("left", At) = NoRow \/ NewestBy("left", At) \in HistoryRow
    BY <1>1, <1>2, NewestIsKnown DEF Sides
  <2>3. /\ SameSide(newestRow["right"], NewestBy("right", At), At)
        /\ NewestBy("right", At) = NoRow \/ NewestBy("right", At) \in HistoryRow
    BY <1>1, <1>2, NewestIsKnown DEF Sides
  <2> HIDE DEF review
  <2>4. Compared(newestRow["left"], newestRow["right"], review, At)
          = Compared(NewestBy("left", At), NewestBy("right", At), review, At)
    BY <1>3, <2>2, <2>3, ReachIsEnough
  <2>5. QED
    BY <2>1, <2>4
<1>7. ASSUME NEW row \in made.charted
      PROVE  /\ AvailableAt(row) <= At /\ At - row.received \in 0..ChartAge
             /\ row.sound /\ row.rules = 1
             /\ \A other \in history["left"] :
                  other.received >= Axis[1] - ChartAge /\ Arrived(row, other) => AvailableAt(other) > At
  <2>1. row = drawn /\ Drawable(drawn, At)
    BY <1>7
  <2>2. drawn \in Charted /\ AvailableAt(drawn) <= At
    BY <1>1, <2>1 DEF Drawable, ChartIsInOrder, WalkIsDue
  <2>3. ASSUME NEW other \in history["left"], other.received >= Axis[1] - ChartAge,
               Arrived(drawn, other)
        PROVE  AvailableAt(other) > At
    <3>1. Unique(history["left"])
      BY HistoryRows DEF Sides
    <3>2. other \in ChartReach /\ Charted \subseteq history["left"]
      BY <2>3 DEF ChartReach, Charted, ReadFrom
    <3>3. other \notin Charted
      <4>1. ~Arrived(other, drawn) /\ ~Arrived(drawn, drawn)
        BY <2>2, <2>3, <3>1, <3>2, ArrivedIsOrder
      <4>2. QED
        BY <2>3, <4>1 DEF ChartIsInOrder
    <3>4. other \in uncharted
      BY <3>2, <3>3 DEF Charted
    <3>5. ~(AvailableAt(other) <= At)
      BY <1>2, <3>4 DEF DueRows
    <3>6. AvailableAt(other) \in Nat
      BY <3>1, RowNumbers DEF Unique
    <3>7. QED
      BY <1>3, <3>5, <3>6
  <2>4. QED
    BY <2>1, <2>2, <2>3 DEF Drawable
<1> HIDE DEF made
<1>8. /\ points \in Seq([compared : Seq(Nat), charted : SUBSET HistoryRow])
      /\ points' \in Seq([compared : Seq(Nat), charted : SUBSET HistoryRow])
      /\ Len(points') = n /\ points'[n] = made
      /\ \A i \in 1..Len(points) : points'[i] = points[i]
  BY <1>1, <1>5 DEF WalkTyped
<1>9. /\ Len(points') \in Nat /\ Len(points') <= Len(Axis)
      /\ DOMAIN points' = 1..n /\ DOMAIN points = 1..Len(points)
  BY <1>3, <1>8, AxisAscends DEF WalkTyped
<1>10. /\ \A s \in Sides : Reach(s)' = Reach(s) /\ Taken(s)' = Taken(s)
       /\ ChartReach' = ChartReach /\ Charted' = Charted
  BY <1>1 DEF Reach, Taken, ChartReach, Charted
<1>11. \A i \in DOMAIN points' : i \in DOMAIN points \/ i = n
  BY <1>3, <1>9
<1>12. WalkTyped'
  BY <1>1, <1>8, <1>9, <1>10 DEF WalkTyped
<1>13. WalkIsDue'
  <2> SUFFICES ASSUME Walking' PROVE WalkIsDue'
    BY DEF WalkIsDue
  <2>1. At' = Axis[n + 1] /\ n \in 1..(Len(Axis) - 1)
    BY <1>3, <1>8, AxisAscends DEF At, Walking
  <2>2. At' \in Nat /\ At < At'
    BY <1>3, <2>1, AxisAscends
  <2>3. \A row \in HistoryRow : AvailableAt(row) <= At => AvailableAt(row) <= At'
    BY <1>3, <2>2, RowNumbers
  <2>4. \A s \in Sides : Taken(s) \subseteq HistoryRow
    BY HistoryRows DEF Taken, Unique
  <2>5. Charted \subseteq HistoryRow
    BY HistoryRows DEF Charted, ChartReach, ReadFrom, Sides, Unique
  <2>6. \A i \in 1..inForce : reviewLog[i].at \in Nat /\ reviewLog[i].at <= At
    BY <1>1, AlignmentAssumption DEF WalkTyped, WalkIsDue
  <2>7. Axis[1] \in Nat /\ Axis[1] <= At
    BY <1>1, AxisAscends DEF WalkIsDue
  <2>8. \A i \in 1..inForce : reviewLog[i].at <= At'
    BY <1>3, <2>2, <2>6
  <2>9. Axis[1] <= At'
    BY <1>3, <2>2, <2>7
  <2>10. \A s \in Sides : \A row \in Taken(s)' : AvailableAt(row) <= At'
    BY <1>1, <1>10, <2>3, <2>4 DEF WalkIsDue
  <2>11. \A row \in Charted' : AvailableAt(row) <= At'
    BY <1>1, <1>10, <2>3, <2>5 DEF WalkIsDue
  <2>12. QED
    BY <1>1, <2>8, <2>9, <2>10, <2>11 DEF WalkIsDue
<1>14. ChartIsInOrder'
  BY <1>1, <1>10 DEF ChartIsInOrder
<1>15. \A s \in Sides : NewestIn(newestRow[s]', Taken(s)')
  BY <1>1, <1>10
<1>16. \A i \in DOMAIN points : Axis[i] \in Nat /\ points'[i] = points[i]
  <2>1. \A i \in 1..Len(points) : i \in 1..Len(Axis)
    BY <1>3, AxisAscends
  <2>2. QED
    BY <1>8, <1>9, <2>1, AxisAscends
<1>17. /\ \A s \in Sides : \A moment \in Nat : NewestBy(s, moment)' = NewestBy(s, moment)
       /\ \A moment \in Nat : ReviewBy(moment)' = ReviewBy(moment)
  BY <1>1 DEF NewestBy, ReviewBy
<1>18. ComparisonsAreOfTheirTime'
  <2>1. ASSUME NEW i \in DOMAIN points'
        PROVE  Axis[i] \in Nat
               /\ points'[i].compared = Compared(NewestBy("left", Axis[i]), NewestBy("right", Axis[i]),
                                                 ReviewBy(Axis[i]), Axis[i])
    <3>1. CASE i \in DOMAIN points
      BY <1>16, <3>1 DEF AlignedInTime, ComparisonsAreOfTheirTime
    <3>2. CASE i = n
      BY <1>3, <1>6, <1>8, <3>2
    <3>3. QED
      BY <1>11, <3>1, <3>2
  <2>2. \A i \in DOMAIN points' :
          points'[i].compared = Compared(NewestBy("left", Axis[i])', NewestBy("right", Axis[i])',
                                         ReviewBy(Axis[i])', Axis[i])
    BY <1>17, <2>1 DEF Sides
  <2>3. QED
    BY <2>2 DEF ComparisonsAreOfTheirTime
<1>19. ChartIsOfItsTime'
  <2>1. ASSUME NEW i \in DOMAIN points', NEW row \in points'[i].charted
        PROVE  /\ AvailableAt(row) <= Axis[i] /\ Axis[i] - row.received \in 0..ChartAge
               /\ row.sound /\ row.rules = 1
               /\ \A other \in history["left"] :
                    other.received >= Axis[1] - ChartAge /\ Arrived(row, other)
                      => AvailableAt(other) > Axis[i]
    <3>1. CASE i \in DOMAIN points
      BY <1>16, <2>1, <3>1 DEF AlignedInTime, ChartIsOfItsTime
    <3>2. CASE i = n
      BY <1>3, <1>7, <1>8, <2>1, <3>2
    <3>3. QED
      BY <1>11, <3>1, <3>2
  <2>2. QED
    BY <1>1, <2>1 DEF ChartIsOfItsTime
<1>20. QED
  BY <1>12, <1>13, <1>14, <1>15, <1>18, <1>19 DEF AlignedInTime

LEMMA WalkContinues == AlignInv /\ [AlignmentNext]_alignVars => AlignInv'
<1> SUFFICES ASSUME AlignInv, [AlignmentNext]_alignVars PROVE AlignInv'
  OBVIOUS
<1>1. CASE TakeReview
  BY <1>1, ReviewIsTaken
<1>2. ASSUME NEW side \in Sides, TakeRow(side) PROVE AlignInv'
  BY <1>2, RowIsTaken
<1>3. CASE Draw
  BY <1>3, RowIsDrawn
<1>4. CASE Point
  BY <1>4, PointIsMade
<1>5. CASE UNCHANGED alignVars
  <2>1. /\ \A s \in Sides : Reach(s)' = Reach(s) /\ Taken(s)' = Taken(s)
        /\ ChartReach' = ChartReach /\ Charted' = Charted /\ At' = At /\ Walking' = Walking
    BY <1>5 DEF alignVars, Reach, Taken, ChartReach, Charted, At, Walking
  <2>2. WalkTyped'
    BY <1>5, <2>1 DEF AlignInv, alignVars, WalkTyped
  <2>3. WalkIsDue' /\ ChartIsInOrder'
    BY <1>5, <2>1 DEF AlignInv, alignVars, WalkIsDue, ChartIsInOrder
  <2>4. AlignedInTime'
    BY <1>5, PointsRest DEF AlignInv, alignVars
  <2>5. \A s \in Sides : NewestIn(newestRow[s]', Taken(s)')
    BY <1>5, <2>1 DEF AlignInv, alignVars
  <2>6. QED
    BY <2>2, <2>3, <2>4, <2>5 DEF AlignInv
<1>6. QED
  BY <1>1, <1>2, <1>3, <1>4, <1>5 DEF AlignmentNext

\* For any histories, reviews and axis: a comparison of the page is the one that could
\* have been made at its time, however far back the page reads, and a quote of the chart
\* was the last to become available by then (comparisons.py, event_chart.py).
THEOREM AlignmentStaysTrue == AlignmentSpec => []AlignedInTime
<1>1. AlignInv => AlignedInTime
  BY DEF AlignInv
<1>2. QED
  BY <1>1, WalkStarts, WalkContinues, PTL DEF AlignmentSpec

-----------------------------------------------------------------------------
(* Signals of one market.  Neither property is inductive.  The strengthening *)
(* says that the rows of a collector come in order, that the market's row    *)
(* begins no later than any row it was made from, and that the metrics were  *)
(* computed from all rows of a collector within the window.                  *)

SignalsTyped ==
    /\ streams \in [Collector -> Seq(QuoteRow)]
    /\ uploaded \in [Collector -> Nat] /\ analysed \in [Collector -> Nat]
    /\ \A c \in Collector : analysed[c] <= uploaded[c] /\ uploaded[c] <= Len(streams[c])
    /\ tick \in 1..SignalTicks /\ rulesVersion \in 1..3
    /\ market \in MarketRow \union {NoQuote}

\* The rows of a collector are its own, received and recorded in order.
StreamsAscend ==
    /\ IsFiniteSet(Made)
    /\ \A c \in Collector :
         /\ \A i \in 1..Len(streams[c]) :
              /\ streams[c][i].by = c /\ streams[c][i].at <= streams[c][i].recorded
              /\ streams[c][i].at <= tick
         /\ \A i, j \in 1..Len(streams[c]) :
              i < j => /\ streams[c][i].at < streams[c][j].at
                       /\ streams[c][i].recorded <= streams[c][j].recorded

\* The market's row begins with the earliest row that was analysed.
MarketBegins ==
    /\ market = NoQuote => \A c \in Collector : analysed[c] = 0
    /\ market # NoQuote =>
         /\ market.first <= market.latest.at
         /\ \A c \in Collector : \A i \in 1..analysed[c] : market.first <= streams[c][i].at

\* SoundRun, of what was made by some moment.
RunIn(made, q) ==
    \E run \in SUBSET {p \in made : p.at <= q.at} :
        /\ q \in run /\ Cardinality(run) >= MinimumSamples
        /\ \A p \in run : Unflawed(p) /\ Quoted(p)
        /\ \A p \in run : p.at > q.at - Span =>
              \E previous \in run : (p.at - previous.at) \in 1..MaxGap
        /\ \A p \in made : p.by = q.by /\ q.at - Span < p.at /\ p.at <= q.at => p \in run

MetricsAreJustified ==
    market # NoQuote /\ market.metrics.version > 1 /\ market.metrics.price =>
        market.metrics.of \in Made /\ RunIn(Made, market.metrics.of)

SignalsInv ==
    SignalsTyped /\ StreamsAscend /\ MarketBegins /\ MetricsAreJustified /\ SignalsAreReproduced

-----------------------------------------------------------------------------
(* Rows in the order in which they were received *)

RowsInOrder(rows) ==
    /\ IsFiniteSet(rows) /\ rows \subseteq QuoteRow
    /\ \A a, b \in rows : a.at = b.at /\ a.by = b.by => a = b

LEMMA QuoteNumbers ==
    ASSUME NEW q \in QuoteRow
    PROVE  q.by \in Collector /\ q.by \in Nat /\ q.at \in Nat /\ q.recorded \in Nat /\ q.price \in Int
  BY SignalsAssumption DEF QuoteRow

LEMMA PrecedesIsOrder ==
    ASSUME NEW rows, RowsInOrder(rows)
    PROVE  /\ \A a, b \in rows : a # b => Precedes(a, b) \/ Precedes(b, a)
           /\ \A a, b \in rows : ~(Precedes(a, b) /\ Precedes(b, a))
           /\ \A a, b, c \in rows : Precedes(a, b) /\ Precedes(b, c) => Precedes(a, c)
<1>1. \A a \in rows : a.at \in Nat /\ a.by \in Nat
  BY QuoteNumbers DEF RowsInOrder
<1>2. \A a, b \in rows : a # b => a.at # b.at \/ a.by # b.by
  BY DEF RowsInOrder
<1>3. QED
  BY <1>1, <1>2 DEF Precedes

LEMMA NewestIsLast ==
    ASSUME NEW rows, RowsInOrder(rows), rows # {}
    PROVE  /\ NewestOf(rows) \in rows
           /\ \A p \in rows \ {NewestOf(rows)} : Precedes(p, NewestOf(rows))
           /\ \A p \in rows : p.at <= NewestOf(rows).at
           /\ \A q \in rows : (\A p \in rows : ~Precedes(q, p)) => q = NewestOf(rows)
<1> DEFINE O == {p \in rows \X rows : Precedes(p[2], p[1])}
<1>1. \A a, b \in rows : <<a, b>> \in O <=> Precedes(b, a)
  OBVIOUS
<1> HIDE DEF O
<1>2. PICK a \in rows : \A b \in rows \ {a} : <<a, b>> \in O
  BY <1>1, PrecedesIsOrder, FirstExists DEF RowsInOrder
<1>3. \A b \in rows : ~Precedes(a, b)
  BY <1>1, <1>2, PrecedesIsOrder
<1>4. NewestOf(rows) \in rows /\ \A p \in rows : ~Precedes(NewestOf(rows), p)
  BY <1>3 DEF NewestOf
<1>5. \A p \in rows \ {NewestOf(rows)} : Precedes(p, NewestOf(rows))
  BY <1>4, PrecedesIsOrder
<1>6. \A p \in rows : p.at \in Nat
  BY QuoteNumbers DEF RowsInOrder
<1>7. \A p \in rows : p.at <= NewestOf(rows).at
  BY <1>4, <1>5, <1>6 DEF Precedes
<1>8. QED
  BY <1>4, <1>5, <1>7, PrecedesIsOrder

LEMMA OldestIsFirst ==
    ASSUME NEW rows, RowsInOrder(rows), rows # {}
    PROVE  /\ OldestOf(rows) \in rows
           /\ \A q \in rows : (\A p \in rows : ~Precedes(p, q)) => q = OldestOf(rows)
<1> DEFINE O == {p \in rows \X rows : Precedes(p[1], p[2])}
<1>1. \A a, b \in rows : <<a, b>> \in O <=> Precedes(a, b)
  OBVIOUS
<1> HIDE DEF O
<1>2. PICK a \in rows : \A b \in rows \ {a} : <<a, b>> \in O
  BY <1>1, PrecedesIsOrder, FirstExists DEF RowsInOrder
<1>3. \A b \in rows : ~Precedes(b, a)
  BY <1>1, <1>2, PrecedesIsOrder
<1>4. OldestOf(rows) \in rows /\ \A p \in rows : ~Precedes(p, OldestOf(rows))
  BY <1>3 DEF OldestOf
<1>5. QED
  BY <1>4, PrecedesIsOrder

LEMMA PartInOrder ==
    ASSUME NEW rows, RowsInOrder(rows), NEW part, part \subseteq rows
    PROVE  RowsInOrder(part)
  BY FS_Subset DEF RowsInOrder

\* A window has the newest row, begins at or before its start, leaves nothing out, and
\* is a window of itself.
LEMMA WindowIs ==
    ASSUME NEW rows, RowsInOrder(rows), NEW span \in Nat, Window(rows, span) # {}
    PROVE  /\ rows # {} /\ Window(rows, span) \subseteq rows
           /\ NewestOf(rows) \in Window(rows, span)
           /\ NewestOf(Window(rows, span)) = NewestOf(rows)
           /\ OldestOf(Window(rows, span)).at <= NewestOf(rows).at - span
           /\ \A p \in rows : p.at > NewestOf(rows).at - span => p \in Window(rows, span)
           /\ Window(Window(rows, span), span) = Window(rows, span)
<1> DEFINE last == NewestOf(rows)
           before == {q \in rows : q.at <= last.at - span}
           start == NewestOf(before)
           w == {q \in rows : ~Precedes(q, start)}
<1>1. before # {} /\ Window(rows, span) = w
  BY DEF Window
<1>2. rows # {} /\ RowsInOrder(before) /\ before \subseteq rows
  BY <1>1, PartInOrder
<1>3. start \in before /\ \A p \in before \ {start} : Precedes(p, start)
  BY <1>1, <1>2, NewestIsLast
<1>4. /\ last \in rows /\ \A p \in rows \ {last} : Precedes(p, last)
      /\ \A p \in rows : p.at <= last.at
  BY <1>2, NewestIsLast
<1>5. \A p \in rows : p.at \in Nat
  BY QuoteNumbers DEF RowsInOrder
<1>6. start \in rows /\ start.at <= last.at - span
  BY <1>3
<1> HIDE DEF last, start
<1>7. \A p \in rows : p.at > last.at - span => p \in w
  BY <1>4, <1>5, <1>6 DEF Precedes
<1>8. last \in w
  <2>1. CASE last = start
    BY <1>4, <2>1, <1>2, PrecedesIsOrder
  <2>2. CASE last # start
    BY <1>4, <1>6, <2>2, PrecedesIsOrder
  <2>3. QED
    BY <2>1, <2>2
<1>9. RowsInOrder(w) /\ w # {}
  BY <1>8, PartInOrder
<1>10. NewestOf(w) = last
  <2>1. \A p \in w : ~Precedes(last, p)
    BY <1>4, PrecedesIsOrder
  <2>2. QED
    BY <1>8, <1>9, <2>1, NewestIsLast
<1>11. start \in w
  BY <1>6, PrecedesIsOrder
<1>12. OldestOf(w) = start
  <2>1. \A p \in w : ~Precedes(p, start)
    OBVIOUS
  <2>2. QED
    BY <1>9, <1>11, <2>1, OldestIsFirst
<1> DEFINE early == {q \in w : q.at <= last.at - span}
<1>13. early = {start}
  <2>1. start \in early
    BY <1>6, <1>11
  <2>2. \A p \in early : p \in before /\ ~Precedes(p, start)
    OBVIOUS
  <2>3. QED
    BY <1>3, <2>1, <2>2
<1>14. NewestOf(early) = start
  BY <1>13 DEF NewestOf
<1>15. Window(w, span) = {q \in w : ~Precedes(q, start)}
  <2>1. Window(w, span) = LET b == {q \in w : q.at <= NewestOf(w).at - span}
                          IN  IF b = {} THEN {} ELSE {q \in w : ~Precedes(q, NewestOf(b))}
    BY DEF Window
  <2>2. {q \in w : q.at <= NewestOf(w).at - span} = early
    BY <1>10
  <2> HIDE DEF early, w
  <2>3. QED
    BY <2>1, <2>2, <1>13, <1>14
<1>16. Window(w, span) = w
  BY <1>15
<1> HIDE DEF w
<1>17. QED
  BY <1>1, <1>2, <1>4, <1>6, <1>7, <1>8, <1>10, <1>12, <1>16 DEF last, w

\* A signal names the window it is made from, and is made again from it.
LEMMA EmittedIsReproduced ==
    ASSUME NEW rows, RowsInOrder(rows), NEW version, NEW e \in Emitted(version, rows)
    PROVE  e \in Replay(e)
<1> DEFINE w == Window(rows, Span)
<1>1. e.version = version /\ e.inputs = w
  BY DEF Emitted
<1>2. Threshold \in Nat \ {0} /\ Span \in Nat
  BY SignalsAssumption
<1>3. Analyze(version, rows).change # 0
  BY <1>2 DEF Emitted
<1>4. w # {}
  BY <1>3 DEF Analyze, Continuous
<1>5. Window(w, Span) = w /\ NewestOf(w) = NewestOf(rows)
  BY <1>2, <1>4, WindowIs
<1>6. Analyze(version, w) = Analyze(version, rows)
  BY <1>5 DEF Analyze
<1>7. Emitted(version, w) = Emitted(version, rows)
  BY <1>5, <1>6 DEF Emitted
<1>8. QED
  BY <1>1, <1>7 DEF Replay


\* The metrics of some rows.
LEMMA MetricsType ==
    ASSUME NEW rows, RowsInOrder(rows), rows # {}, NEW version \in 1..3
    PROVE  /\ Analyze(version, rows) \in WindowMetrics /\ Analyze(version, rows).of = NewestOf(rows)
           /\ Analyze(version, rows).version = version
<1> DEFINE w == Window(rows, Span)
           m == Analyze(version, rows)
<1>1. Span \in Nat
  BY SignalsAssumption
<1>2. NewestOf(rows) \in QuoteRow
  BY NewestIsLast DEF RowsInOrder
<1>3. m.price => w # {}
  BY DEF Analyze, Continuous
<1>4. m.change \in Int
  <2>1. CASE m.price
    <3>1. w # {} /\ w \subseteq rows
      BY <1>1, <1>3, <2>1, WindowIs
    <3>2. NewestOf(w) \in QuoteRow /\ OldestOf(w) \in QuoteRow
      <4>1. RowsInOrder(w)
        BY <3>1, PartInOrder
      <4>2. QED
        BY <3>1, <4>1, NewestIsLast, OldestIsFirst DEF RowsInOrder
    <3>3. NewestOf(w).price \in Int /\ OldestOf(w).price \in Int
      BY <3>2, QuoteNumbers
    <3>4. m.change = NewestOf(w).price - OldestOf(w).price
      BY <2>1 DEF Analyze
    <3>5. QED
      BY <3>3, <3>4
  <2>2. CASE ~m.price
    <3>1. m.change = IF m.price THEN NewestOf(w).price - OldestOf(w).price ELSE 0
      BY Zenon DEF Analyze
    <3> HIDE DEF m, w
    <3>2. m.change = 0
      BY <2>2, <3>1
    <3>3. QED
      BY <3>2
  <2>3. QED
    BY <2>1, <2>2
<1>5. /\ m.ready \in BOOLEAN /\ m.price \in BOOLEAN /\ m.volume \in BOOLEAN
      /\ m.version = version /\ m.of = NewestOf(rows)
      /\ m = [version |-> m.version, ready |-> m.ready, of |-> m.of, price |-> m.price,
              volume |-> m.volume, change |-> m.change]
  BY DEF Analyze, QualityV1, QualityV2, WindowQuality
<1> HIDE DEF m
<1>6. m \in WindowMetrics
  BY <1>2, <1>4, <1>5 DEF WindowMetrics
<1>7. QED
  BY <1>5, <1>6 DEF m

-----------------------------------------------------------------------------
(* What is made and stored *)

LEMMA RowsOfStreams ==
    ASSUME NEW all \in [Collector -> Seq(QuoteRow)]
    PROVE  \A q : q \in UNION {ToSet(all[c]) : c \in Collector}
                    <=> \E c \in Collector : \E i \in 1..Len(all[c]) : q = all[c][i]
<1>1. ASSUME NEW c \in Collector
      PROVE  \A q : q \in ToSet(all[c]) <=> \E i \in 1..Len(all[c]) : q = all[c][i]
  BY DEF ToSet
<1>2. QED
  BY <1>1

LEMMA MadeIs ==
    ASSUME SignalsTyped, NEW q
    PROVE  /\ q \in Made <=> \E c \in Collector : \E i \in 1..Len(streams[c]) : q = streams[c][i]
           /\ q \in Stored <=> \E c \in Collector : \E i \in 1..uploaded[c] : q = streams[c][i]
<1> DEFINE sub == [c \in Collector |-> SubSeq(streams[c], 1, uploaded[c])]
<1>1. ASSUME NEW c \in Collector
      PROVE  /\ sub[c] \in Seq(QuoteRow) /\ Len(sub[c]) = uploaded[c]
             /\ \A i \in 1..uploaded[c] : sub[c][i] = streams[c][i]
  <2>1. streams[c] \in Seq(QuoteRow) /\ uploaded[c] \in Nat /\ uploaded[c] <= Len(streams[c])
    BY DEF SignalsTyped
  <2>2. QED
    BY <2>1
<1>2. sub \in [Collector -> Seq(QuoteRow)]
  BY <1>1
<1>3. Stored = UNION {ToSet(sub[c]) : c \in Collector}
  BY DEF Stored
<1> HIDE DEF sub
<1>4. q \in Stored <=> \E c \in Collector : \E i \in 1..uploaded[c] : q = streams[c][i]
  <2>1. \A r : r \in Stored <=> \E c \in Collector : \E i \in 1..Len(sub[c]) : r = sub[c][i]
    <3>1. \A r : r \in UNION {ToSet(sub[c]) : c \in Collector}
                    <=> \E c \in Collector : \E i \in 1..Len(sub[c]) : r = sub[c][i]
      BY <1>2, RowsOfStreams
    <3>2. QED
      BY <1>3, <3>1
  <2>2. QED
    BY <1>1, <2>1
<1>5. streams \in [Collector -> Seq(QuoteRow)]
  BY DEF SignalsTyped
<1>6. \A r : r \in Made <=> \E c \in Collector : \E i \in 1..Len(streams[c]) : r = streams[c][i]
  BY <1>5, RowsOfStreams DEF Made
<1>7. QED
  BY <1>4, <1>6

LEMMA MadeInOrder ==
    ASSUME SignalsTyped, StreamsAscend, NEW rows, rows \subseteq Made
    PROVE  RowsInOrder(rows)
<1>1. \A c \in Collector : streams[c] \in Seq(QuoteRow) /\ Len(streams[c]) \in Nat
  BY DEF SignalsTyped
<1>2. \A q \in Made : q \in QuoteRow
  BY <1>1, MadeIs
<1>3. ASSUME NEW a \in Made, NEW b \in Made, a.at = b.at, a.by = b.by PROVE a = b
  <2>1. PICK c \in Collector : \E i \in 1..Len(streams[c]) : a = streams[c][i]
    BY MadeIs
  <2>2. PICK i \in 1..Len(streams[c]) : a = streams[c][i]
    BY <2>1
  <2>3. PICK d \in Collector : \E j \in 1..Len(streams[d]) : b = streams[d][j]
    BY MadeIs
  <2>4. PICK j \in 1..Len(streams[d]) : b = streams[d][j]
    BY <2>3
  <2>5. c = d
    BY <1>3, <2>2, <2>4 DEF StreamsAscend
  <2>6. a.at \in Nat /\ b.at \in Nat
    BY <1>2, QuoteNumbers
  <2>7. (i < j => a.at < b.at) /\ (j < i => b.at < a.at)
    BY <2>2, <2>4, <2>5 DEF StreamsAscend
  <2>8. i = j
    BY <1>1, <1>3, <2>2, <2>4, <2>5, <2>6, <2>7
  <2>9. QED
    BY <2>2, <2>4, <2>5, <2>8
<1>4. IsFiniteSet(rows)
  BY FS_Subset DEF StreamsAscend
<1>5. QED
  BY <1>2, <1>3, <1>4 DEF RowsInOrder

LEMMA StoredIsMade == ASSUME SignalsTyped PROVE Stored \subseteq Made
<1> SUFFICES ASSUME NEW q \in Stored PROVE q \in Made
  OBVIOUS
<1>1. PICK c \in Collector : \E i \in 1..uploaded[c] : q = streams[c][i]
  BY MadeIs
<1>2. PICK i \in 1..uploaded[c] : q = streams[c][i]
  BY <1>1
<1>3. Len(streams[c]) \in Nat /\ uploaded[c] \in Nat /\ uploaded[c] <= Len(streams[c])
  BY DEF SignalsTyped
<1>4. i \in 1..Len(streams[c])
  BY <1>3
<1>5. QED
  BY <1>2, <1>4, MadeIs

\* What is known of a row's collector up to that row, when the row is known.
LEMMA EarlierIsKnown ==
    ASSUME SignalsTyped, StreamsAscend, NEW q \in Stored, NEW p \in Made, p.by = q.by, p.at <= q.at
    PROVE  p \in Stored /\ p.recorded <= q.recorded
<1>1. PICK c \in Collector : \E i \in 1..uploaded[c] : q = streams[c][i]
  BY MadeIs
<1>2. PICK i \in 1..uploaded[c] : q = streams[c][i]
  BY <1>1
<1>3. PICK d \in Collector : \E j \in 1..Len(streams[d]) : p = streams[d][j]
  BY MadeIs
<1>4. PICK j \in 1..Len(streams[d]) : p = streams[d][j]
  BY <1>3
<1>5. Len(streams[c]) \in Nat /\ uploaded[c] \in Nat /\ uploaded[c] <= Len(streams[c])
  BY DEF SignalsTyped
<1>6. i \in 1..Len(streams[c])
  BY <1>5
<1>7. c = d
  BY <1>2, <1>4, <1>6 DEF StreamsAscend
<1>8. q \in QuoteRow /\ p \in QuoteRow
  BY MadeInOrder, StoredIsMade DEF RowsInOrder
<1>9. ~(i < j)
  <2>1. i < j => q.at < p.at
    BY <1>2, <1>4, <1>6, <1>7 DEF StreamsAscend
  <2>2. QED
    BY <2>1, <1>8, QuoteNumbers
<1>10. j \in 1..uploaded[c] /\ (j < i \/ j = i)
  BY <1>5, <1>7, <1>9
<1>11. p \in Stored
  BY <1>4, <1>7, <1>10, MadeIs
<1>12. j < i => p.recorded <= q.recorded
  BY <1>2, <1>4, <1>6, <1>7 DEF StreamsAscend
<1>13. j = i => p = q
  BY <1>2, <1>4, <1>7
<1>14. QED
  BY <1>8, <1>10, <1>11, <1>12, <1>13, QuoteNumbers

LEMMA HistoryInOrder ==
    ASSUME SignalsTyped, StreamsAscend, NEW start, NEW end, NEW known
    PROVE  /\ RowsInOrder(History(start, end, known))
           /\ History(start, end, known) \subseteq Stored
           /\ History(start, end, known) \subseteq Made
  BY MadeInOrder, StoredIsMade DEF History

\* A window of a history that is continuous and of sound quotes is a sound run: it has all
\* rows of the newest one's collector.
LEMMA HistoryIsRun ==
    ASSUME SignalsTyped, StreamsAscend, NEW start \in Int, NEW end \in Nat, NEW known \in Nat,
           start <= end - HistorySpan,
           NewestOf(History(start, end, known)).at = end,
           Continuous(Window(History(start, end, known), Span), Span),
           \A q \in Window(History(start, end, known), Span) : Unflawed(q) /\ Quoted(q)
    PROVE  /\ NewestOf(History(start, end, known)) \in Made
           /\ SoundRun(NewestOf(History(start, end, known)))
<1> DEFINE rows == History(start, end, known)
           w == Window(rows, Span)
           last == NewestOf(rows)
<1>1. RowsInOrder(rows) /\ rows \subseteq Stored /\ rows \subseteq Made
  BY HistoryInOrder
<1>2. Span \in Nat \ {0} /\ HistorySpan \in Nat /\ Span <= HistorySpan /\ MaxGap \in Nat
  BY SignalsAssumption
<1> HIDE DEF rows
<1>3. w # {}
  BY DEF Continuous, rows
<1>4. /\ rows # {} /\ w \subseteq rows /\ last \in w /\ NewestOf(w) = last
      /\ OldestOf(w).at <= last.at - Span
      /\ \A p \in rows : p.at > last.at - Span => p \in w
  BY <1>1, <1>2, <1>3, WindowIs
<1>5. last \in rows /\ \A p \in rows : p.at <= last.at
  BY <1>1, <1>4, NewestIsLast
<1>6. \A p \in Made : p \in QuoteRow /\ p.at \in Nat /\ p.recorded \in Nat
  BY MadeInOrder, QuoteNumbers DEF RowsInOrder
<1>7. last.at = end /\ last \in Stored /\ last \in Made /\ last.recorded <= known
  BY <1>1, <1>5 DEF rows, History
<1>8. ASSUME NEW p \in Made, p.by = last.by, last.at - Span < p.at, p.at <= last.at PROVE p \in w
  <2>1. p \in Stored /\ p.recorded <= last.recorded
    BY <1>7, <1>8, EarlierIsKnown
  <2>2. p.at \in Nat /\ p.recorded \in Nat /\ last.recorded \in Nat /\ last.at \in Nat
    BY <1>6, <1>7
  <2> HIDE DEF last
  <2>3. start <= p.at /\ p.at <= end /\ p.recorded <= known
    BY <1>2, <1>7, <1>8, <2>1, <2>2
  <2>4. p \in rows
    BY <2>1, <2>3 DEF rows, History
  <2>5. p.at > last.at - Span
    BY <1>2, <1>8, <2>2
  <2>6. QED
    BY <1>4, <2>4, <2>5 DEF last
<1>9. w \in SUBSET {p \in Made : p.at <= last.at}
  BY <1>1, <1>4, <1>5
<1>10. Cardinality(w) >= MinimumSamples /\ \A p \in w : Unflawed(p) /\ Quoted(p)
  BY DEF Continuous, rows
<1>11. ASSUME NEW p \in w, p.at > last.at - Span
       PROVE  \E previous \in w : (p.at - previous.at) \in 1..MaxGap
  <2>1. p # OldestOf(w)
    <3>1. OldestOf(w) \in Made /\ last.at \in Nat
      <4>1. RowsInOrder(w)
        BY <1>1, <1>4, PartInOrder
      <4>2. QED
        BY <1>1, <1>3, <1>4, <1>6, <1>7, <4>1, OldestIsFirst
    <3>2. OldestOf(w).at \in Nat
      BY <1>6, <3>1
    <3> DEFINE a == OldestOf(w).at
               b == last.at
    <3>3. a \in Nat /\ b \in Nat /\ a <= b - Span
      BY <1>4, <3>1, <3>2
    <3> HIDE DEF a, b
    <3>4. ~(a > b - Span)
      BY <1>2, <3>3
    <3>5. QED
      BY <1>11, <3>4 DEF a, b
  <2>2. QED
    BY <2>1 DEF Continuous, rows
<1> HIDE DEF w, last
<1>12. SoundRun(last)
  BY <1>4, <1>8, <1>9, <1>10, <1>11 DEF SoundRun
<1>13. QED
  BY <1>7, <1>12 DEF last, rows


\* A sound run stays one when later rows of its collector are made.
LEMMA RunIsKept ==
    ASSUME NEW made, NEW more, made \subseteq more, NEW q, RunIn(made, q),
           \A r \in more \ made : r.by = q.by => ~(r.at <= q.at)
    PROVE  RunIn(more, q)
  BY DEF RunIn

\* Usable metrics of the later rules are of a sound and continuous window.
LEMMA MetricsMean ==
    ASSUME NEW rows, NEW version \in 2..3, Analyze(version, rows).price
    PROVE  /\ Continuous(Window(rows, Span), Span)
           /\ \A q \in Window(rows, Span) : Unflawed(q) /\ Quoted(q)
<1> DEFINE w == Window(rows, Span)
<1>1. version # 1
  OBVIOUS
<1>2. QualityV2(w).price <=> \A q \in w : Unflawed(q) /\ Quoted(q)
  BY DEF QualityV2
<1>3. WindowQuality(w).price <=> QualityV2(w).price
  BY DEF WindowQuality
<1> DEFINE quality == IF version = 1 THEN QualityV1(w)
                      ELSE IF version = 2 THEN QualityV2(w) ELSE WindowQuality(w)
<1>4. quality.price <=> QualityV2(w).price
  BY <1>1, <1>3
<1>5. Continuous(w, Span) /\ quality.price
  BY DEF Analyze
<1>6. QED
  BY <1>2, <1>4, <1>5

-----------------------------------------------------------------------------
(* The steps *)

LEMMA SignalsInitially == SignalsInit => SignalsInv
<1> SUFFICES ASSUME SignalsInit PROVE SignalsInv
  OBVIOUS
<1>1. /\ streams = [c \in Collector |-> <<>>] /\ uploaded = [c \in Collector |-> 0]
      /\ analysed = uploaded /\ market = NoQuote /\ signals = {} /\ rulesVersion = 1 /\ tick = 1
  BY DEF SignalsInit
<1>2. SignalsTyped
  BY <1>1, SignalsAssumption DEF SignalsTyped
<1>3. Made = {}
  BY <1>1, <1>2, MadeIs
<1>4. StreamsAscend
  BY <1>1, <1>3, FS_EmptySet DEF StreamsAscend
<1>5. QED
  BY <1>1, <1>2, <1>4 DEF SignalsInv, MarketBegins, MetricsAreJustified, SignalsAreReproduced

LEMMA SampleKeeps ==
    ASSUME SignalsInv, NEW c \in Collector, NEW content \in Content[c][tick], NEW delay \in Delay[c],
           Sample(c, content, delay)
    PROVE  SignalsInv'
<1> USE DEF SignalsInv
<1> DEFINE q == [by |-> c, at |-> tick, recorded |-> tick + delay, flaw |-> content.flaw,
                 price |-> content.price, volume |-> content.volume]
           n == Len(streams[c])
<1>1. /\ streams' = [streams EXCEPT ![c] = Append(streams[c], q)]
      /\ UNCHANGED <<uploaded, analysed, market, signals, rulesVersion, tick>>
      /\ streams[c] # <<>> => streams[c][n].at < tick /\ streams[c][n].recorded <= tick + delay
  BY DEF Sample, Last
<1>2. tick \in Nat /\ delay \in Nat /\ content \in QuoteContent
  <2>0. tick \in 1..SignalTicks
    BY DEF SignalsTyped
  <2>1. tick \in Nat
    BY <2>0, SignalsAssumption
  <2>2. delay \in Nat
    BY SignalsAssumption
  <2>3. content \in QuoteContent
    BY <2>0, SignalsAssumption
  <2>4. QED
    BY <2>1, <2>2, <2>3
<1>3. q \in QuoteRow /\ q.by = c /\ q.at = tick /\ q.recorded = tick + delay
  BY <1>2 DEF QuoteRow, QuoteContent
<1> HIDE DEF q
<1>4. streams[c] \in Seq(QuoteRow) /\ n \in Nat
  BY DEF SignalsTyped
<1>5. /\ streams' \in [Collector -> Seq(QuoteRow)]
      /\ Len(streams'[c]) = n + 1 /\ streams'[c][n + 1] = q
      /\ \A i \in 1..n : streams'[c][i] = streams[c][i]
      /\ \A d \in Collector \ {c} : streams'[d] = streams[d]
  BY <1>1, <1>3, <1>4 DEF SignalsTyped
<1>6. \A i \in 1..n : /\ streams[c][i] \in QuoteRow /\ streams[c][i].by = c
                      /\ streams[c][i].at < tick /\ streams[c][i].recorded <= tick + delay
  <2> SUFFICES ASSUME NEW i \in 1..n
               PROVE  /\ streams[c][i] \in QuoteRow /\ streams[c][i].by = c
                      /\ streams[c][i].at < tick /\ streams[c][i].recorded <= tick + delay
    OBVIOUS
  <2>1. streams[c] # <<>> /\ n \in 1..n
    BY <1>4
  <2>2. streams[c][i] \in QuoteRow /\ streams[c][n] \in QuoteRow
    BY <1>4, <2>1
  <2>3. streams[c][i].by = c
    BY DEF StreamsAscend
  <2>4. i < n => streams[c][i].at < streams[c][n].at /\ streams[c][i].recorded <= streams[c][n].recorded
    BY <2>1 DEF StreamsAscend
  <2>5. /\ streams[c][i].at \in Nat /\ streams[c][n].at \in Nat
        /\ streams[c][i].recorded \in Nat /\ streams[c][n].recorded \in Nat
    BY <2>2, QuoteNumbers
  <2>6. i < n \/ i = n
    BY <1>4
  <2>7. QED
    BY <1>1, <1>2, <2>1, <2>2, <2>3, <2>4, <2>5, <2>6
<1>7. SignalsTyped'
  <2>1. ASSUME NEW d \in Collector PROVE uploaded[d] <= Len(streams'[d])
    <3>1. uploaded[d] \in Nat /\ uploaded[d] <= Len(streams[d])
      BY DEF SignalsTyped
    <3>2. CASE d = c
      BY <1>4, <1>5, <3>1, <3>2
    <3>3. CASE d # c
      BY <1>5, <3>1, <3>3
    <3>4. QED
      BY <3>2, <3>3
  <2>2. QED
    BY <1>1, <1>5, <2>1 DEF SignalsTyped
<1>8. Made' = Made \union {q}
  <2>1. \A r : r \in Made' <=> \E d \in Collector : \E i \in 1..Len(streams'[d]) : r = streams'[d][i]
    BY <1>5, RowsOfStreams DEF Made
  <2>2. \A r : r \in Made <=> \E d \in Collector : \E i \in 1..Len(streams[d]) : r = streams[d][i]
    BY MadeIs
  <2>3. 1..(n + 1) = 1..n \union {n + 1}
    BY <1>4
  <2>4. ASSUME NEW r \in Made' PROVE r \in Made \union {q}
    <3>1. PICK d \in Collector : \E i \in 1..Len(streams'[d]) : r = streams'[d][i]
      BY <2>1
    <3>2. CASE d = c
      BY <1>5, <2>2, <2>3, <3>1, <3>2
    <3>3. CASE d # c
      BY <1>5, <2>2, <3>1, <3>3
    <3>4. QED
      BY <3>2, <3>3
  <2>5. ASSUME NEW r \in Made PROVE r \in Made'
    <3>1. PICK d \in Collector : \E i \in 1..Len(streams[d]) : r = streams[d][i]
      BY <2>2
    <3>2. CASE d = c
      BY <1>5, <2>1, <2>3, <3>1, <3>2
    <3>3. CASE d # c
      BY <1>5, <2>1, <3>1, <3>3
    <3>4. QED
      BY <3>2, <3>3
  <2>6. q \in Made'
    BY <1>4, <1>5, <2>1, <2>3
  <2>7. QED
    BY <2>4, <2>5, <2>6
<1>9. StreamsAscend'
  <2>1. IsFiniteSet(Made')
    BY <1>8, FS_AddElement DEF StreamsAscend
  <2>2. ASSUME NEW d \in Collector, NEW i \in 1..Len(streams'[d])
        PROVE  /\ streams'[d][i].by = d /\ streams'[d][i].at <= streams'[d][i].recorded
               /\ streams'[d][i].at <= tick
    <3>1. CASE d # c
      BY <1>5, <2>2, <3>1 DEF StreamsAscend
    <3>2. CASE d = c /\ i \in 1..n
      BY <1>5, <3>2 DEF StreamsAscend
    <3>3. CASE d = c /\ i = n + 1
      BY <1>2, <1>3, <1>5, <3>3
    <3>4. QED
      BY <1>4, <1>5, <3>1, <3>2, <3>3
  <2>3. ASSUME NEW d \in Collector, NEW i \in 1..Len(streams'[d]), NEW j \in 1..Len(streams'[d]), i < j
        PROVE  /\ streams'[d][i].at < streams'[d][j].at
               /\ streams'[d][i].recorded <= streams'[d][j].recorded
    <3>1. CASE d # c
      BY <1>5, <2>3, <3>1 DEF StreamsAscend
    <3>2. CASE d = c /\ j \in 1..n
      <4>1. i \in 1..n
        BY <1>4, <2>3, <3>2
      <4>2. QED
        BY <1>5, <2>3, <3>2, <4>1 DEF StreamsAscend
    <3>3. CASE d = c /\ j = n + 1
      <4>1. i \in 1..n
        BY <1>4, <2>3, <3>3
      <4>2. QED
        BY <1>3, <1>5, <1>6, <3>3, <4>1
    <3>4. QED
      BY <1>4, <1>5, <3>1, <3>2, <3>3
  <2>4. QED
    BY <1>1, <2>1, <2>2, <2>3 DEF StreamsAscend
<1>10. MarketBegins'
  <2>1. ASSUME NEW d \in Collector, NEW i \in 1..analysed[d] PROVE streams'[d][i] = streams[d][i]
    <3>1. i \in 1..Len(streams[d])
      <4>1. analysed[d] \in Nat /\ uploaded[d] \in Nat /\ Len(streams[d]) \in Nat
            /\ analysed[d] <= uploaded[d] /\ uploaded[d] <= Len(streams[d])
        BY DEF SignalsTyped
      <4>2. QED
        BY <4>1
    <3>2. QED
      BY <1>5, <3>1
  <2>2. QED
    BY <1>1, <2>1 DEF MarketBegins
<1>11. MetricsAreJustified'
  <2> SUFFICES ASSUME market # NoQuote, market.metrics.version > 1, market.metrics.price
               PROVE  market.metrics.of \in Made' /\ RunIn(Made', market.metrics.of)
    BY <1>1 DEF MetricsAreJustified
  <2> DEFINE of == market.metrics.of
  <2>1. of \in Made /\ RunIn(Made, of)
    BY DEF MetricsAreJustified
  <2>2. ASSUME q.by = of.by PROVE ~(q.at <= of.at)
    <3>1. PICK d \in Collector : \E i \in 1..Len(streams[d]) : of = streams[d][i]
      BY <2>1, MadeIs
    <3>2. d = c
      BY <1>3, <2>2, <3>1 DEF StreamsAscend
    <3>3. of.at < tick /\ of.at \in Nat
      BY <1>6, <3>1, <3>2, QuoteNumbers
    <3>4. QED
      BY <1>2, <1>3, <3>3
  <2> HIDE DEF of
  <2>3. \A r \in Made' \ Made : r.by = of.by => ~(r.at <= of.at)
    BY <1>8, <2>2
  <2>4. Made \subseteq Made'
    BY <1>8
  <2>5. RunIn(Made', of)
    BY <2>1, <2>3, <2>4, RunIsKept
  <2>6. QED
    BY <2>1, <2>4, <2>5 DEF of
<1>12. SignalsAreReproduced'
  BY <1>1 DEF SignalsAreReproduced
<1>13. QED
  BY <1>7, <1>9, <1>10, <1>11, <1>12


LEMMA IngestKeeps == ASSUME SignalsInv, NEW c \in Collector, Ingest(c) PROVE SignalsInv'
<1> USE DEF SignalsInv
<1> DEFINE q == streams[c][analysed[c] + 1]
           rows == History(q.at - HistorySpan, q.at, q.recorded)
           metrics == Analyze(rulesVersion, rows)
<1>1. /\ analysed[c] < uploaded[c] /\ SaveSignals(Emitted(rulesVersion, rows))
      /\ \/ /\ ReconcileRow(q, metrics) /\ analysed' = [analysed EXCEPT ![c] = analysed[c] + 1]
         \/ market' = market /\ analysed' = analysed
      /\ UNCHANGED <<streams, uploaded, cache, rulesVersion, tick>>
  BY DEF Ingest
<1>2. /\ analysed[c] \in Nat /\ uploaded[c] \in Nat /\ uploaded[c] <= Len(streams[c])
      /\ streams[c] \in Seq(QuoteRow) /\ Len(streams[c]) \in Nat /\ rulesVersion \in 1..3
  BY DEF SignalsTyped
<1>3. analysed[c] + 1 \in 1..uploaded[c] /\ analysed[c] + 1 \in 1..Len(streams[c])
  BY <1>1, <1>2
<1>4. q \in Stored /\ q \in QuoteRow
  BY <1>2, <1>3, MadeIs
<1>5. q.at \in Nat /\ q.recorded \in Nat /\ HistorySpan \in Nat
  BY <1>4, QuoteNumbers, SignalsAssumption
<1> HIDE DEF q
<1>6. RowsInOrder(rows) /\ rows \subseteq Made
  BY HistoryInOrder
<1>7. q \in rows /\ \A p \in rows : p.at <= q.at
  BY <1>4, <1>5 DEF History
<1>8. NewestOf(rows) \in rows /\ NewestOf(rows).at = q.at
  <2>1. NewestOf(rows) \in rows /\ q.at <= NewestOf(rows).at /\ NewestOf(rows).at <= q.at
    BY <1>6, <1>7, NewestIsLast
  <2>2. NewestOf(rows).at \in Nat
    BY <1>6, <2>1, QuoteNumbers DEF RowsInOrder
  <2> HIDE DEF rows
  <2>3. QED
    BY <1>5, <2>1, <2>2
<1>9. /\ metrics \in WindowMetrics /\ metrics.of = NewestOf(rows) /\ metrics.version = rulesVersion
  BY <1>2, <1>6, <1>7, MetricsType
<1>10. metrics.version > 1 /\ metrics.price => metrics.of \in Made /\ RunIn(Made, metrics.of)
  <2> SUFFICES ASSUME metrics.version > 1, metrics.price
               PROVE  metrics.of \in Made /\ RunIn(Made, metrics.of)
    OBVIOUS
  <2>1. rulesVersion \in 2..3
    BY <1>2, <1>9
  <2>2. /\ Continuous(Window(rows, Span), Span)
        /\ \A p \in Window(rows, Span) : Unflawed(p) /\ Quoted(p)
    BY <2>1, MetricsMean
  <2>3. NewestOf(rows) \in Made /\ SoundRun(NewestOf(rows))
    <3>1. q.at - HistorySpan \in Int /\ q.at - HistorySpan <= q.at - HistorySpan
      BY <1>5
    <3>2. QED
      BY <1>5, <1>8, <2>2, <3>1, HistoryIsRun
  <2>4. QED
    BY <1>9, <2>3 DEF SoundRun, RunIn
<1>11. \A e \in Emitted(rulesVersion, rows) : e \in Replay(e)
  BY <1>6, EmittedIsReproduced
<1> HIDE DEF rows, metrics
<1>12. SignalsAreReproduced'
  BY <1>1, <1>11 DEF SaveSignals, SignalsAreReproduced
<1>13. Made' = Made
  BY <1>1 DEF Made
<1>14. StreamsAscend'
  BY <1>1, <1>13 DEF StreamsAscend
<1>15. CASE market' = market /\ analysed' = analysed
  BY <1>1, <1>12, <1>13, <1>14, <1>15 DEF SignalsTyped, MarketBegins, MetricsAreJustified
<1>16. CASE ReconcileRow(q, metrics) /\ analysed' = [analysed EXCEPT ![c] = analysed[c] + 1]
  <2>1. /\ analysed' \in [Collector -> Nat] /\ analysed'[c] = analysed[c] + 1
        /\ \A d \in Collector \ {c} : analysed'[d] = analysed[d]
    BY <1>2, <1>16 DEF SignalsTyped
  <2>2. ASSUME NEW d \in Collector PROVE analysed'[d] <= uploaded[d]
    <3>1. analysed[d] <= uploaded[d]
      BY DEF SignalsTyped
    <3>2. CASE d = c
      BY <1>2, <1>3, <2>1, <3>2
    <3>3. CASE d # c
      BY <2>1, <3>1, <3>3
    <3>4. QED
      BY <3>2, <3>3
  <2>3. \A d \in Collector : \A i \in 1..analysed'[d] : i \in 1..analysed[d] \/ (d = c /\ i = analysed[c] + 1)
    BY <1>2, <2>1
  <2>4. ASSUME NEW d \in Collector, NEW i \in 1..analysed[d] PROVE streams[d][i].at \in Nat
    <3>1. analysed[d] \in Nat /\ uploaded[d] \in Nat /\ analysed[d] <= uploaded[d]
          /\ uploaded[d] <= Len(streams[d]) /\ streams[d] \in Seq(QuoteRow) /\ Len(streams[d]) \in Nat
      BY DEF SignalsTyped
    <3>2. i \in 1..Len(streams[d])
      BY <3>1
    <3>3. streams[d][i] \in QuoteRow
      BY <3>1, <3>2
    <3>4. QED
      BY <3>3, QuoteNumbers
  <2>5. market' \in MarketRow /\ market'.first <= market'.latest.at /\ market'.first <= q.at
        /\ \A d \in Collector : \A i \in 1..analysed[d] : market'.first <= streams[d][i].at
    <3>1. CASE market = NoQuote
      <4>1. market' = [first |-> q.at, latest |-> q, metrics |-> metrics]
        BY <1>16, <3>1 DEF ReconcileRow
      <4>2. \A d \in Collector : analysed[d] = 0
        BY <3>1 DEF MarketBegins
      <4>3. \A d \in Collector : 1..analysed[d] = {}
        BY <4>2
      <4>4. market' \in MarketRow
        BY <1>4, <1>5, <1>9, <4>1 DEF MarketRow
      <4>5. market'.first = q.at /\ market'.latest.at = q.at
        BY <4>1
      <4>6. QED
        BY <1>5, <4>3, <4>4, <4>5
    <3>2. CASE market # NoQuote /\ q.at < market.latest.at
      <4>1. market \in MarketRow /\ market.first \in Nat
        BY <3>2 DEF SignalsTyped, MarketRow
      <4>2. market' = [market EXCEPT !.first = IF q.at < market.first THEN q.at ELSE market.first]
        BY <1>16, <3>2 DEF ReconcileRow
      <4>3. /\ market' \in MarketRow /\ market'.latest = market.latest
            /\ market'.first = IF q.at < market.first THEN q.at ELSE market.first
        BY <1>5, <4>1, <4>2 DEF MarketRow
      <4>4. market'.first \in Nat /\ market'.first <= market.first /\ market'.first <= q.at
        BY <1>5, <4>1, <4>3
      <4>5. market.latest.at \in Nat /\ market.first <= market.latest.at
        BY <3>2, <4>1, QuoteNumbers DEF MarketRow, MarketBegins
      <4>6. \A d \in Collector : \A i \in 1..analysed[d] : market.first <= streams[d][i].at
        BY <3>2 DEF MarketBegins
      <4>7. \A d \in Collector : \A i \in 1..analysed[d] : market'.first <= streams[d][i].at
        BY <2>4, <4>1, <4>4, <4>6
      <4>8. market'.first <= market'.latest.at
        BY <4>1, <4>3, <4>4, <4>5
      <4>9. QED
        BY <4>3, <4>4, <4>7, <4>8
    <3>3. CASE market # NoQuote /\ ~(q.at < market.latest.at)
      <4>1. market \in MarketRow /\ market.first \in Nat
        BY <3>3 DEF SignalsTyped, MarketRow
      <4>2. market' = [market EXCEPT !.latest = q, !.metrics = metrics]
        BY <1>16, <3>3 DEF ReconcileRow
      <4>3. market' \in MarketRow /\ market'.latest = q /\ market'.first = market.first
        BY <1>4, <1>9, <4>1, <4>2 DEF MarketRow
      <4>4. market.latest.at \in Nat /\ market.first <= market.latest.at
        BY <3>3, <4>1, QuoteNumbers DEF MarketRow, MarketBegins
      <4>5. market'.first <= q.at
        BY <1>5, <3>3, <4>1, <4>3, <4>4
      <4>6. QED
        BY <3>3, <4>3, <4>5 DEF MarketBegins
    <3>4. QED
      BY <3>1, <3>2, <3>3
  <2>6. market' # NoQuote
    BY <2>5, SignalsAssumption
  <2>7. SignalsTyped'
    BY <1>1, <2>1, <2>2, <2>5 DEF SignalsTyped
  <2>8. MarketBegins'
    BY <1>1, <2>3, <2>5, <2>6 DEF MarketBegins, q
  <2>9. MetricsAreJustified'
    <3>1. CASE market # NoQuote /\ market'.metrics = market.metrics
      BY <1>13, <3>1 DEF MetricsAreJustified
    <3>2. CASE market'.metrics = metrics
      BY <1>10, <1>13, <3>2 DEF MetricsAreJustified
    <3>3. (market # NoQuote /\ market'.metrics = market.metrics) \/ market'.metrics = metrics
      <4>1. market # NoQuote => market \in MarketRow
        BY DEF SignalsTyped
      <4>2. CASE market = NoQuote
        BY <1>16, <4>2 DEF ReconcileRow
      <4>3. CASE market # NoQuote /\ q.at < market.latest.at
        BY <1>16, <4>1, <4>3 DEF ReconcileRow, MarketRow
      <4>4. CASE market # NoQuote /\ ~(q.at < market.latest.at)
        BY <1>16, <4>1, <4>4 DEF ReconcileRow, MarketRow
      <4>5. QED
        BY <4>2, <4>3, <4>4
    <3>4. QED
      BY <3>1, <3>2, <3>3
  <2>10. QED
    BY <1>12, <1>14, <2>7, <2>8, <2>9
<1>17. QED
  BY <1>1, <1>15, <1>16

LEMMA SignalsStep == SignalsInv /\ [SignalsNext]_signalVars => SignalsInv'
<1> SUFFICES ASSUME SignalsInv, [SignalsNext]_signalVars PROVE SignalsInv'
  OBVIOUS
<1>1. ASSUME NEW c \in Collector, NEW content \in Content[c][tick], NEW delay \in Delay[c],
             Sample(c, content, delay)
      PROVE  SignalsInv'
  BY <1>1, SampleKeeps
<1>2. ASSUME NEW c \in Collector, Ingest(c) PROVE SignalsInv'
  BY <1>2, IngestKeeps
<1>3. ASSUME UNCHANGED <<streams, analysed, market, signals>>, SignalsTyped', tick' \in Nat, tick <= tick'
      PROVE  SignalsInv'
  <2>1. Made' = Made
    BY <1>3 DEF Made
  <2>2. StreamsAscend'
    <3>1. \A c \in Collector : \A i \in 1..Len(streams[c]) : streams[c][i].at \in Nat
      <4>1. \A c \in Collector : streams[c] \in Seq(QuoteRow)
        BY DEF SignalsInv, SignalsTyped
      <4>2. \A c \in Collector : \A i \in 1..Len(streams[c]) : streams[c][i] \in QuoteRow
        BY <4>1
      <4>3. QED
        BY <4>2, QuoteNumbers
    <3>2. tick \in Nat
      BY SignalsAssumption DEF SignalsInv, SignalsTyped
    <3>3. \A c \in Collector : \A i \in 1..Len(streams[c]) : streams[c][i].at <= tick'
      BY <1>3, <3>1, <3>2 DEF SignalsInv, StreamsAscend
    <3>4. QED
      BY <1>3, <2>1, <3>3 DEF SignalsInv, StreamsAscend
  <2>3. QED
    BY <1>3, <2>1, <2>2 DEF SignalsInv, MarketBegins, MetricsAreJustified, SignalsAreReproduced
<1>4. tick \in Nat /\ tick <= tick
  BY SignalsAssumption DEF SignalsInv, SignalsTyped
<1>5. ASSUME NEW c \in Collector, Upload(c) PROVE SignalsInv'
  <2>1. /\ uploaded' = [uploaded EXCEPT ![c] = uploaded[c] + 1] /\ uploaded[c] < Len(streams[c])
        /\ UNCHANGED <<streams, analysed, market, cache, signals, rulesVersion, tick>>
    BY <1>5 DEF Upload
  <2>2. /\ \A d \in Collector : /\ analysed[d] \in Nat /\ uploaded[d] \in Nat /\ Len(streams[d]) \in Nat
                                /\ analysed[d] <= uploaded[d] /\ uploaded[d] <= Len(streams[d])
    BY DEF SignalsInv, SignalsTyped
  <2>3. uploaded' \in [Collector -> Nat] /\ uploaded'[c] = uploaded[c] + 1
        /\ \A d \in Collector \ {c} : uploaded'[d] = uploaded[d]
    BY <2>1, <2>2 DEF SignalsInv, SignalsTyped
  <2>4. \A d \in Collector : analysed[d] <= uploaded'[d] /\ uploaded'[d] <= Len(streams[d])
    BY <2>1, <2>2, <2>3
  <2>5. SignalsTyped'
    BY <2>1, <2>3, <2>4 DEF SignalsInv, SignalsTyped
  <2>6. QED
    BY <1>3, <1>4, <2>1, <2>5
<1>6. CASE Deploy
  <2>1. SignalsTyped'
    BY <1>6 DEF Deploy, SignalsInv, SignalsTyped
  <2>2. QED
    BY <1>3, <1>4, <1>6, <2>1 DEF Deploy
<1>7. CASE Elapse
  <2>1. tick' \in 1..SignalTicks /\ tick' = tick + 1
    BY <1>7, SignalsAssumption DEF Elapse, SignalsInv, SignalsTyped
  <2>2. SignalsTyped'
    BY <1>7, <2>1 DEF Elapse, SignalsInv, SignalsTyped
  <2>3. QED
    BY <1>3, <1>4, <1>7, <2>1, <2>2 DEF Elapse
<1>8. CASE UNCHANGED signalVars
  <2>1. SignalsTyped'
    BY <1>8 DEF signalVars, SignalsInv, SignalsTyped
  <2>2. QED
    BY <1>3, <1>4, <1>8, <2>1 DEF signalVars
<1>9. QED
  BY <1>1, <1>2, <1>5, <1>6, <1>7, <1>8 DEF SignalsNext

-----------------------------------------------------------------------------
(* The properties *)

LEMMA PastIsFinal == SignalsInv => PastViewIsFinal
<1> SUFFICES ASSUME SignalsInv, NEW moment \in 1..(tick - 1), Settled(moment)
             PROVE  LET last == NewestOf(KnownBy(moment))
                    IN  DetailAt(moment) =
                          Analyze(rulesVersion, {q \in KnownBy(moment) : last.at - q.at <= HistorySpan})
  BY DEF PastViewIsFinal
<1> USE DEF SignalsInv
<1>1. moment \in Nat /\ HistorySpan \in Nat
  BY SignalsAssumption DEF SignalsTyped
<1>2. \A q \in Made : q \in QuoteRow /\ q.at \in Nat /\ q.recorded \in Nat
  BY MadeInOrder, QuoteNumbers DEF RowsInOrder
<1>3. ASSUME NEW q \in KnownBy(moment)
      PROVE  /\ q \in Made /\ q \in Stored /\ q.recorded <= moment /\ q.at <= moment
             /\ market # NoQuote /\ market.first <= q.at
  <2>1. PICK c \in Collector : \E i \in 1..Len(streams[c]) : q = streams[c][i]
    BY MadeIs DEF KnownBy
  <2>2. PICK i \in 1..Len(streams[c]) : q = streams[c][i]
    BY <2>1
  <2>3. q \in Made /\ q.recorded <= moment /\ q.at <= q.recorded
    BY <2>2 DEF KnownBy, StreamsAscend
  <2>4. /\ analysed[c] \in Nat /\ uploaded[c] \in Nat /\ analysed[c] <= uploaded[c]
        /\ uploaded[c] <= Len(streams[c]) /\ DOMAIN streams[c] = 1..Len(streams[c])
    BY DEF SignalsTyped
  <2>5. i <= analysed[c]
    BY <2>2, <2>3, <2>4 DEF Settled
  <2>6. i \in 1..analysed[c] /\ i \in 1..uploaded[c] /\ analysed[c] # 0
    BY <2>4, <2>5
  <2>7. q \in Stored
    BY <2>2, <2>6, MadeIs
  <2>8. market # NoQuote /\ market.first <= q.at
    BY <2>2, <2>6 DEF MarketBegins
  <2>9. QED
    BY <1>1, <1>2, <2>3, <2>7, <2>8
<1>4. KnownBy(moment) # {}
  BY DEF Settled
<1>5. market \in MarketRow /\ market.first \in Nat
  BY <1>3, <1>4 DEF SignalsTyped, MarketRow
<1>6. ~(moment < market.first)
  BY <1>1, <1>2, <1>3, <1>4, <1>5
<1>7. History(market.first, moment, moment) = KnownBy(moment)
  <2>1. \A q \in History(market.first, moment, moment) : q \in KnownBy(moment)
    BY StoredIsMade DEF History, KnownBy
  <2>2. \A q \in KnownBy(moment) : q \in History(market.first, moment, moment)
    BY <1>3 DEF History
  <2>3. QED
    BY <2>1, <2>2
<1> DEFINE last == NewestOf(KnownBy(moment))
<1>8. last \in Made
  BY <1>3, <1>4, MadeInOrder, NewestIsLast
<1>9. last.at \in Nat
  BY <1>2, <1>8
<1> HIDE DEF last
<1>10. History(last.at - HistorySpan, moment, moment) = {q \in KnownBy(moment) : last.at - q.at <= HistorySpan}
  <2>1. \A q \in KnownBy(moment) : q.at \in Nat /\ (last.at - HistorySpan <= q.at <=> last.at - q.at <= HistorySpan)
    BY <1>1, <1>2, <1>3, <1>9
  <2>2. \A q \in History(last.at - HistorySpan, moment, moment) : q \in KnownBy(moment)
    BY StoredIsMade DEF History, KnownBy
  <2>3. \A q \in KnownBy(moment) : q \in History(last.at - HistorySpan, moment, moment) <=> last.at - HistorySpan <= q.at
    BY <1>3 DEF History
  <2>4. QED
    BY <2>1, <2>2, <2>3
<1>11. DetailAt(moment) = Analyze(rulesVersion, History(last.at - HistorySpan, moment, moment))
  BY <1>4, <1>6, <1>7 DEF DetailAt, last
<1>12. QED
  BY <1>10, <1>11 DEF last

LEMMA UsableIsSound == SignalsInv => UsableIsJustified
<1> SUFFICES ASSUME SignalsInv PROVE UsableIsJustified
  OBVIOUS
<1> USE DEF SignalsInv
<1>1. ASSUME market # NoQuote, NEW q \in Shown, PriceUsable(q, market.metrics, tick)
      PROVE  SoundRun(q) /\ tick - q.at <= StaleAfter
  <2>1. /\ market.metrics.version > 1 /\ market.metrics.of = q /\ market.metrics.price
        /\ tick - q.at <= StaleAfter
    BY <1>1 DEF PriceUsable, MetricsAreOf
  <2>2. RunIn(Made, q)
    BY <1>1, <2>1 DEF MetricsAreJustified
  <2>3. QED
    BY <2>1, <2>2 DEF RunIn, SoundRun
<1>2. ASSUME NEW q \in Stored, AlertEligible(q, tick) PROVE SoundRun(q)
  <2> DEFINE rows == History(q.at - HistorySpan, q.at, tick)
  <2>1. /\ NewestOf(rows) = q /\ Continuous(Window(rows, Span), Span)
        /\ WindowQuality(Window(rows, Span)).price
    BY <1>2 DEF AlertEligible
  <2>2. \A p \in Window(rows, Span) : Unflawed(p) /\ Quoted(p)
    BY <2>1 DEF WindowQuality, QualityV2
  <2>3. q.at \in Nat /\ tick \in Nat /\ HistorySpan \in Nat
    <3>1. q \in QuoteRow
      BY MadeInOrder, StoredIsMade DEF RowsInOrder
    <3>2. tick \in Nat
      BY SignalsAssumption DEF SignalsTyped
    <3>3. QED
      BY <3>1, <3>2, QuoteNumbers, SignalsAssumption
  <2>4. q.at - HistorySpan \in Int /\ q.at - HistorySpan <= q.at - HistorySpan
    BY <2>3
  <2>5. SoundRun(NewestOf(rows))
    BY <2>1, <2>2, <2>3, <2>4, HistoryIsRun
  <2>6. QED
    BY <2>1, <2>5
<1>3. QED
  BY <1>1, <1>2 DEF UsableIsJustified

\* For any number of collectors, delays and deployments: a stored signal can be computed
\* again from the inputs it names, and the view at a settled cutoff is the analysis of the
\* rows recorded by then (signals.py, markets/services.py).
THEOREM PastStaysReproduced == SignalsSpec => []PastIsReproduced
<1>1. SignalsInv => PastIsReproduced
  BY PastIsFinal DEF SignalsInv, PastIsReproduced
<1>2. QED
  BY <1>1, SignalsInitially, SignalsStep, PTL DEF SignalsSpec

\* And a price that is taken as usable rests on a sound and unbroken run of quotes up to a
\* recent one (quality.py, alert_metrics.py).
THEOREM UsableStaysJustified == SignalsSpec => []UsableIsJustified
<1>1. SignalsInv => UsableIsJustified
  BY UsableIsSound
<1>2. QED
  BY <1>1, SignalsInitially, SignalsStep, PTL DEF SignalsSpec

----------------------------------------------------------------------------
(* Sorted lists, as AssistantGraphs and ResearchContext use them. *)

Increasing(f, n) == \A i, j \in 1..n : i < j => f[i] < f[j]

LEMMA SortedIs ==
    ASSUME NEW S
    PROVE  Sorted(S) = CHOOSE f \in [1..Cardinality(S) -> S] : Increasing(f, Cardinality(S))
  BY DEF Sorted, Increasing

\* A nonempty finite set of integers has a greatest member.
LEMMA GreatestExists ==
    ASSUME NEW S, IsFiniteSet(S), S \subseteq Int, S # {}
    PROVE  \E x \in S : \A y \in S : y <= x
<1> DEFINE Good == {s \in SUBSET S : s # {} => \E x \in s : \A y \in s : y <= x}
<1>1. {} \in Good
  OBVIOUS
<1>2. ASSUME NEW s \in SUBSET S, NEW x \in s, s \ {x} \in Good PROVE s \in Good
  <2>0. s \subseteq Int
    OBVIOUS
  <2>1. CASE s \ {x} = {}
    <3>1. \A y \in s : y = x
      BY <2>1
    <3>2. \A y \in s : y <= x
      BY <2>0, <3>1
    <3>3. QED
      BY <3>2
  <2>2. CASE s \ {x} # {}
    <3>1. PICK z \in s \ {x} : \A y \in s \ {x} : y <= z
      BY <1>2, <2>2
    <3>2. CASE z <= x
      <4>1. \A y \in s : y <= x
        BY <2>0, <3>1, <3>2
      <4>2. QED
        BY <4>1
    <3>3. CASE ~(z <= x)
      <4>1. \A y \in s : y <= z
        BY <2>0, <3>1, <3>3
      <4>2. QED
        BY <4>1
    <3>4. QED
      BY <3>2, <3>3
  <2>3. QED
    BY <2>1, <2>2
<1>3. S \in Good
  <2> HIDE DEF Good
  <2>1. QED
    BY <1>1, <1>2, SetInductionOn
<1>4. QED
  BY <1>3

\* A finite set of integers can be listed in increasing order.
LEMMA IncreasingExists ==
    ASSUME NEW S, IsFiniteSet(S), S \subseteq Int
    PROVE  \E f \in [1..Cardinality(S) -> S] : Increasing(f, Cardinality(S))
<1> DEFINE Good == {n \in Nat : \A s \in SUBSET S : Cardinality(s) = n =>
                                  \E f \in [1..n -> s] : Increasing(f, n)}
<1>1. 0 \in Good
  <2> SUFFICES ASSUME NEW s \in SUBSET S PROVE \E f \in [1..0 -> s] : Increasing(f, 0)
    OBVIOUS
  <2>1. [i \in 1..0 |-> i] \in [1..0 -> s]
    OBVIOUS
  <2>2. \A f : Increasing(f, 0)
    BY DEF Increasing
  <2>3. QED
    BY <2>1, <2>2
<1>2. ASSUME NEW n \in Good PROVE n + 1 \in Good
  <2>0. n \in Nat /\ n + 1 \in Nat
    OBVIOUS
  <2> SUFFICES ASSUME NEW s \in SUBSET S, Cardinality(s) = n + 1
               PROVE  \E f \in [1..(n + 1) -> s] : Increasing(f, n + 1)
    BY <2>0
  <2>1. s # {} /\ IsFiniteSet(s) /\ s \subseteq Int
    <3>1. IsFiniteSet(s)
      BY FS_Subset
    <3>2. n + 1 # 0
      BY <2>0
    <3>3. s # {}
      BY <3>1, <3>2, FS_EmptySet
    <3>4. QED
      BY <3>1, <3>3
  <2>2. PICK x \in s : \A y \in s : y <= x
    BY <2>1, GreatestExists
  <2>3. s \ {x} \in SUBSET S /\ Cardinality(s \ {x}) = n
    <3>1. \A y \in s : s \ {y} \in SUBSET S /\ Cardinality(s \ {y}) = Cardinality(s) - 1
      <4> HIDE DEF Good
      <4>1. QED
        BY SmallerSubset
    <3>2. QED
      BY <2>0, <3>1
  <2>4. PICK f \in [1..n -> s \ {x}] : Increasing(f, n)
    BY <2>0, <2>3
  <2> DEFINE g == [i \in 1..(n + 1) |-> IF i = n + 1 THEN x ELSE f[i]]
  <2>5. \A i \in 1..(n + 1) : i # n + 1 => i \in 1..n
    BY <2>0
  <2>6. g \in [1..(n + 1) -> s]
    BY <2>5
  <2>7. ASSUME NEW i \in 1..(n + 1), NEW j \in 1..(n + 1), i < j PROVE g[i] < g[j]
    <3>1. i \in 1..n
      BY <2>0, <2>7
    <3>2. g[i] = f[i] /\ f[i] \in s \ {x}
      BY <2>0, <3>1
    <3>3. CASE j = n + 1
      <4>1. f[i] <= x /\ f[i] # x /\ f[i] \in Int /\ x \in Int
        BY <2>1, <2>2, <3>2
      <4>2. g[j] = x
        BY <3>3
      <4> HIDE DEF g
      <4>3. QED
        BY <3>2, <4>1, <4>2
    <3>4. CASE j # n + 1
      <4>1. j \in 1..n
        BY <2>0, <3>4
      <4>2. g[j] = f[j]
        BY <3>4
      <4>3. QED
        BY <2>4, <2>7, <3>1, <3>2, <4>1, <4>2 DEF Increasing
    <3>5. QED
      BY <3>3, <3>4
  <2> HIDE DEF g
  <2>8. QED
    BY <2>6, <2>7 DEF Increasing
<1>3. Good = Nat
  <2> HIDE DEF Good
  <2>1. Good \subseteq Nat
    BY DEF Good
  <2>2. QED
    BY <1>1, <1>2, <2>1, NatInductionOn
<1>4. Cardinality(S) \in Nat
  BY FS_CardinalityType
<1>5. S \in SUBSET S
  OBVIOUS
<1>6. QED
  BY <1>3, <1>4, <1>5

\* A sorted list has the elements of the set and no others.
LEMMA SortedHasAll ==
    ASSUME NEW S, IsFiniteSet(S), S \subseteq Int, NEW T, S \subseteq T
    PROVE  /\ Sorted(S) \in Seq(T) /\ Len(Sorted(S)) = Cardinality(S)
           /\ \A x : x \in S <=> \E i \in 1..Len(Sorted(S)) : Sorted(S)[i] = x
<1> DEFINE n == Cardinality(S)
           f == Sorted(S)
<1>1. n \in Nat
  BY FS_CardinalityType
<1>2. f \in [1..n -> S] /\ Increasing(f, n)
  BY IncreasingExists, SortedIs
<1> HIDE DEF f, n
<1>3. f \in Injection(1..n, S)
  <2>1. ASSUME NEW i \in 1..n, NEW j \in 1..n, f[i] = f[j] PROVE i = j
    <3>0. f[i] \in S
      BY <1>2
    <3>1. f[i] \in Int /\ ~(f[i] < f[j]) /\ ~(f[j] < f[i])
      <4>1. \A k \in Int : ~(k < k)
        OBVIOUS
      <4>2. QED
        BY <2>1, <3>0, <4>1
    <3>2. ~(i < j) /\ ~(j < i)
      BY <1>2, <3>1 DEF Increasing
    <3>3. QED
      BY <1>1, <3>2
  <2>2. QED
    BY <1>2, <2>1 DEF Injection, IsInjective
<1>4. IsFiniteSet(1..n) /\ Cardinality(1..n) = n
  BY <1>1, FS_Interval
<1>5. f \in Surjection(1..n, S)
  BY <1>3, <1>4, FS_Injection DEF n
<1>6. f \in Seq(T) /\ Len(f) = n
  <2>1. f = [i \in 1..n |-> f[i]] /\ \A i \in 1..n : f[i] \in T
    BY <1>2
  <2>2. f \in [1..n -> T]
    BY <2>1
  <2>3. QED
    BY <1>1, <2>2
<1>7. \A x : x \in S <=> \E i \in 1..n : f[i] = x
  BY <1>2, <1>5 DEF Surjection
<1>8. QED
  BY <1>6, <1>7 DEF f, n

----------------------------------------------------------------------------
(***************************************************************************)
(* Graphs of assistants.  The loop's table of what is above a node is      *)
(* Above, for the nodes placed so far; the last node placed is above none  *)
(* of them; a run's outputs are closed under parents and have one scope.   *)
(* What the invariant says of the state is said of parameters, so that a   *)
(* lemma can be applied to the state before a step and after it.           *)
(***************************************************************************)

ParentsIn(E, n) == {e[1] : e \in {x \in E : x[2] = n}}
\* R holds every node that a connection out of it, or out of m, reaches.
ClosedFrom(E, m, R) == \A e \in E : e[1] \in R \union {m} => e[2] \in R
AboveIn(N, E, n) == {m \in N : \A R \in SUBSET N : ClosedFrom(E, m, R) => n \in R}
Within(N, E) == \A e \in E : e[1] \in N /\ e[2] \in N

Acyclic == \A n \in Nodes : n \notin Above(n)
RoutedAsDescribed ==
    \A risk \in OfKind("risk"), review \in OfKind("review") :
      Above(risk) = Nodes \ {risk, review} /\ Parents(review) = {risk}
Accepted == WellFormed /\ Acyclic /\ RoutedAsDescribed

\* The nodes placed so far, with all that is above them.
Levels(N, E, left, above) ==
    /\ left \subseteq N
    /\ DOMAIN above = N \ left
    /\ \A n \in N \ left :
         /\ ParentsIn(E, n) \subseteq N \ left
         /\ above[n] = AboveIn(N, E, n) /\ above[n] \subseteq N \ left
         /\ n \notin above[n]
\* The last node placed is above none of them.
LastIsLow(N, E, left, placed) ==
    /\ placed \in Seq(N)
    /\ left # N => /\ placed # <<>> /\ Last(placed) \in N \ left
                   /\ \A n \in N \ left : Last(placed) \notin AboveIn(N, E, n)

\* How far a run has come.
RunsOn(N, E, round, node, out) ==
    /\ DOMAIN out \subseteq N
    /\ \A n \in DOMAIN out : ParentsIn(E, n) \subseteq DOMAIN out
    /\ round \subseteq N \ DOMAIN out
    /\ \A n \in round : ParentsIn(E, n) \subseteq DOMAIN out
    /\ node \in {NoNode} \union round
CallsCounted(N, phase, node, out, count) ==
    /\ count \in Nat /\ count <= Cardinality(N)
    /\ phase \in {"compiling", "running"} => count <= Cardinality(DOMAIN out \union ({node} \ {NoNode}))

InScopeOf(n) == \A p \in DOMAIN outputs : outputs[p] \subseteq Scope(n)

GraphsInv ==
    /\ kinds \in KindOf
    /\ graphPhase \in {"compiling", "refused", "running", "published", "failed"}
    /\ Levels(Nodes, edges, unplaced, ancestors)
    /\ unplaced # Nodes => WellFormed
    /\ LastIsLow(Nodes, edges, unplaced, order)
    /\ graphPhase = "refused" => ~Accepted
    /\ graphPhase \in {"running", "published", "failed"} => Accepted
    /\ RunsOn(Nodes, edges, due, active, outputs)
    /\ graphPhase = "compiling" => due = {} /\ DOMAIN outputs = {}
    /\ graphPhase = "published" => DOMAIN outputs = Nodes
    /\ CallsCounted(Nodes, graphPhase, active, outputs, calls)
    /\ \A n \in Nodes : InScopeOf(n)

(* What is above a node. *)

LEMMA AboveIs == \A n : Above(n) = AboveIn(Nodes, edges, n)
  BY DEF Above, AboveIn, ClosedFrom

LEMMA ParentsAre == \A n : Parents(n) = ParentsIn(edges, n)
  BY DEF Parents, ParentsIn

LEMMA WellFormedWithin == WellFormed => Within(Nodes, edges)
  BY DEF WellFormed, Within

LEMMA ParentOf ==
    ASSUME NEW N, NEW E, Within(N, E), NEW n \in N
    PROVE  /\ \A m : m \in ParentsIn(E, n) <=> \E e \in E : e[1] = m /\ e[2] = n
           /\ ParentsIn(E, n) \subseteq N
  BY DEF ParentsIn, Within

LEMMA AboveThrough ==
    ASSUME NEW N, NEW E, NEW k \in N, NEW n \in N, NEW m, m \in AboveIn(N, E, k), k \in AboveIn(N, E, n)
    PROVE  m \in AboveIn(N, E, n)
<1>1. m \in N
  BY DEF AboveIn
<1>2. ASSUME NEW R \in SUBSET N, ClosedFrom(E, m, R) PROVE n \in R
  <2>1. k \in R
    BY <1>2 DEF AboveIn
  <2>2. ClosedFrom(E, k, R)
    BY <1>2, <2>1 DEF ClosedFrom
  <2>3. QED
    BY <2>2 DEF AboveIn
<1>3. QED
  BY <1>1, <1>2 DEF AboveIn

LEMMA ParentIsAbove ==
    ASSUME NEW N, NEW E, Within(N, E), NEW n \in N, NEW p \in ParentsIn(E, n)
    PROVE  p \in AboveIn(N, E, n)
<1>1. PICK e \in E : e[1] = p /\ e[2] = n
  BY ParentOf
<1>2. \A R \in SUBSET N : ClosedFrom(E, p, R) => n \in R
  BY <1>1 DEF ClosedFrom
<1>3. QED
  BY <1>2, ParentOf DEF AboveIn

\* What is above a node is its parents and what is above them.
LEMMA AboveStep ==
    ASSUME NEW N, NEW E, Within(N, E), NEW n \in N
    PROVE  AboveIn(N, E, n) = ParentsIn(E, n) \union UNION {AboveIn(N, E, p) : p \in ParentsIn(E, n)}
<1>1. ASSUME NEW m \in ParentsIn(E, n) \union UNION {AboveIn(N, E, p) : p \in ParentsIn(E, n)}
      PROVE  m \in AboveIn(N, E, n)
  <2>1. CASE m \in ParentsIn(E, n)
    BY <2>1, ParentIsAbove
  <2>2. CASE \E p \in ParentsIn(E, n) : m \in AboveIn(N, E, p)
    <3>1. PICK p \in ParentsIn(E, n) : m \in AboveIn(N, E, p)
      BY <2>2
    <3>2. p \in N /\ p \in AboveIn(N, E, n)
      BY ParentOf, ParentIsAbove
    <3>3. QED
      BY <3>1, <3>2, AboveThrough
  <2>3. QED
    BY <1>1, <2>1, <2>2
<1>2. ASSUME NEW m \in AboveIn(N, E, n), m \notin ParentsIn(E, n),
             \A p \in ParentsIn(E, n) : m \notin AboveIn(N, E, p)
      PROVE  FALSE
  <2> DEFINE R == {x \in N : m \in AboveIn(N, E, x)} \ {n}
  <2>1. ASSUME NEW e \in E, e[1] \in R \union {m} PROVE e[2] \in R
    <3>1. e[1] \in N /\ e[2] \in N /\ e[1] \in ParentsIn(E, e[2])
      BY ParentOf DEF Within
    <3>2. e[1] = m \/ m \in AboveIn(N, E, e[1])
      BY <2>1
    <3>3. e[2] # n
      BY <1>2, <3>1, <3>2
    <3>4. m \in AboveIn(N, E, e[2])
      BY <3>1, <3>2, ParentIsAbove, AboveThrough
    <3>5. QED
      BY <3>1, <3>3, <3>4
  <2>2. R \in SUBSET N /\ n \notin R
    OBVIOUS
  <2> HIDE DEF R
  <2>3. ClosedFrom(E, m, R)
    BY <2>1 DEF ClosedFrom
  <2>4. n \in R
    BY <2>2, <2>3 DEF AboveIn
  <2>5. QED
    BY <2>2, <2>4
<1>3. QED
  BY <1>1, <1>2

\* A set that has the parents of its nodes has what is above them.
LEMMA ParentClosed ==
    ASSUME NEW N, NEW E, Within(N, E), NEW S \in SUBSET N, \A n \in S : ParentsIn(E, n) \subseteq S
    PROVE  \A n \in S : AboveIn(N, E, n) \subseteq S
<1> SUFFICES ASSUME NEW n \in S, NEW m \in AboveIn(N, E, n), m \notin S PROVE FALSE
  OBVIOUS
<1> DEFINE R == N \ S
<1>1. ASSUME NEW e \in E, e[1] \in R \union {m} PROVE e[2] \in R
  <2>1. e[1] \in N /\ e[2] \in N /\ e[1] \in ParentsIn(E, e[2])
    BY ParentOf DEF Within
  <2>2. e[1] \notin S
    BY <1>1
  <2>3. QED
    BY <2>1, <2>2
<1>2. R \in SUBSET N /\ n \notin R
  OBVIOUS
<1> HIDE DEF R
<1>3. n \in R
  BY <1>1, <1>2 DEF AboveIn, ClosedFrom
<1>4. QED
  BY <1>2, <1>3

\* In a graph without cycles some node of every finite set has no parent in it.
LEMMA SomeNodeIsReady ==
    ASSUME NEW N, NEW E, Within(N, E), \A n \in N : n \notin AboveIn(N, E, n),
           NEW S \in SUBSET N, IsFiniteSet(S), S # {}
    PROVE  \E n \in S : ParentsIn(E, n) \intersect S = {}
<1> DEFINE Lowest(s, n) == \A m \in s : m \notin AboveIn(N, E, n)
           Good == {s \in SUBSET S : s # {} => \E n \in s : Lowest(s, n)}
<1>1. {} \in Good
  OBVIOUS
<1>2. ASSUME NEW s \in SUBSET S, NEW x \in s, s \ {x} \in Good PROVE s \in Good
  <2>0. x \in N /\ x \notin AboveIn(N, E, x)
    OBVIOUS
  <2>1. CASE s \ {x} = {}
    <3>1. s = {x}
      BY <2>1
    <3>2. Lowest(s, x)
      BY <2>0, <3>1
    <3>3. QED
      BY <3>2
  <2>2. CASE s \ {x} # {}
    <3>1. PICK y \in s \ {x} : Lowest(s \ {x}, y)
      BY <1>2, <2>2
    <3>2. CASE x \in AboveIn(N, E, y)
      <4>1. ASSUME NEW z \in s, z \in AboveIn(N, E, x) PROVE FALSE
        <5>1. z \in AboveIn(N, E, y)
          BY <3>2, <4>1, AboveThrough
        <5>2. z = x
          BY <3>1, <5>1
        <5>3. QED
          BY <2>0, <4>1, <5>2
      <4>2. QED
        BY <4>1
    <3>3. CASE x \notin AboveIn(N, E, y)
      <4>1. Lowest(s, y)
        BY <3>1, <3>3
      <4>2. QED
        BY <4>1
    <3>4. QED
      BY <3>2, <3>3
  <2>3. QED
    BY <2>1, <2>2
<1>3. S \in Good
  <2> HIDE DEF Good
  <2>1. QED
    BY <1>1, <1>2, SetInductionOn
<1>4. PICK n \in S : Lowest(S, n)
  BY <1>3
<1>5. ParentsIn(E, n) \intersect S = {}
  BY <1>4, ParentIsAbove
<1>6. QED
  BY <1>5

(* The steps of the loop, and the checks after it. *)

LEMMA GraphsStartSound == GraphsInit => GraphsInv
<1> SUFFICES ASSUME GraphsInit PROVE GraphsInv
  OBVIOUS
<1> USE DEF GraphsInit, GraphsStart
<1>1. Levels(Nodes, edges, unplaced, ancestors)
  BY DEF Levels
<1>2. LastIsLow(Nodes, edges, unplaced, order)
  BY DEF LastIsLow
<1>3. IsFiniteSet(Nodes)
  BY GraphsAssumption DEF Nodes
<1>4. RunsOn(Nodes, edges, due, active, outputs)
  BY DEF RunsOn
<1>5. CallsCounted(Nodes, graphPhase, active, outputs, calls)
  <2>1. DOMAIN outputs \union ({active} \ {NoNode}) = {}
    OBVIOUS
  <2>2. Cardinality({}) = 0 /\ Cardinality(Nodes) \in Nat
    BY <1>3, FS_EmptySet, FS_CardinalityType
  <2>0. calls = 0 /\ graphPhase = "compiling"
    OBVIOUS
  <2> HIDE DEF GraphsInit, GraphsStart
  <2>3. calls = 0 /\ graphPhase = "compiling"
    BY <2>0
  <2>4. calls \in Nat /\ calls <= Cardinality(Nodes)
    BY <2>2, <2>3
  <2>5. calls <= Cardinality(DOMAIN outputs \union ({active} \ {NoNode}))
    BY <2>1, <2>2, <2>3
  <2>6. QED
    BY <2>4, <2>5 DEF CallsCounted
<1>6. \A n \in Nodes : InScopeOf(n)
  BY DEF InScopeOf
<1>7. QED
  BY <1>1, <1>2, <1>4, <1>5, <1>6 DEF GraphsInv

\* The nodes of a graph are a finite set of numbers.
LEMMA FiniteNodes ==
    ASSUME kinds \in KindOf
    PROVE  IsFiniteSet(Nodes) /\ Nodes \subseteq Int /\ NoNode \notin Nodes /\ Cardinality(Nodes) \in Nat
  BY GraphsAssumption, FS_CardinalityType DEF Nodes

\* One more round of the loop.
IsReady(E, left, ready) == ready = {n \in left : ParentsIn(E, n) \intersect left = {}}
IsNextAbove(E, above, ready, new) ==
    new = [n \in DOMAIN above \union ready |->
             IF n \in ready
             THEN ParentsIn(E, n) \union UNION {above[p] : p \in ParentsIn(E, n)}
             ELSE above[n]]

\* A level placed has its ancestors known, and they are all placed before it.
LEMMA LevelKeeps ==
    ASSUME NEW N, NEW E, Within(N, E), NEW left, NEW above, Levels(N, E, left, above),
           NEW ready, IsReady(E, left, ready), NEW new, IsNextAbove(E, above, ready, new)
    PROVE  /\ Levels(N, E, left \ ready, new)
           /\ \A n \in N \ (left \ ready) : AboveIn(N, E, n) \subseteq N \ left
<1> USE DEF IsReady, IsNextAbove
<1>0. left \subseteq N /\ ready \subseteq left /\ DOMAIN above = N \ left
  BY DEF Levels
<1>1. DOMAIN new = N \ (left \ ready)
  BY <1>0
<1>2. \A n \in ready : ParentsIn(E, n) \subseteq N \ left
  BY <1>0, ParentOf
<1>3. ASSUME NEW n \in ready
      PROVE  new[n] = AboveIn(N, E, n) /\ new[n] \subseteq N \ left /\ n \notin new[n]
  <2>1. \A p \in ParentsIn(E, n) : above[p] = AboveIn(N, E, p) /\ above[p] \subseteq N \ left
    BY <1>2 DEF Levels
  <2>2. UNION {above[p] : p \in ParentsIn(E, n)} = UNION {AboveIn(N, E, p) : p \in ParentsIn(E, n)}
    BY <2>1
  <2>3. new[n] = ParentsIn(E, n) \union UNION {above[p] : p \in ParentsIn(E, n)}
    OBVIOUS
  <2>4. n \in N
    BY <1>0
  <2>5. new[n] = AboveIn(N, E, n)
    BY <2>2, <2>3, <2>4, AboveStep
  <2>6. new[n] \subseteq N \ left
    BY <1>2, <2>1, <2>3
  <2>7. QED
    BY <1>0, <2>5, <2>6
<1>4. ASSUME NEW n \in N \ left
      PROVE  /\ new[n] = above[n] /\ ParentsIn(E, n) \subseteq N \ left
             /\ new[n] = AboveIn(N, E, n) /\ new[n] \subseteq N \ left /\ n \notin new[n]
  BY <1>0 DEF Levels
<1>5. \A n \in N \ (left \ ready) : n \in ready \/ n \in N \ left
  OBVIOUS
<1> HIDE <1>0
<1>6. N \ left \subseteq N \ (left \ ready) /\ left \ ready \subseteq N
  BY <1>0
<1>7. Levels(N, E, left \ ready, new)
  BY <1>1, <1>2, <1>3, <1>4, <1>5, <1>6, Zenon DEF Levels
<1>8. \A n \in N \ (left \ ready) : AboveIn(N, E, n) \subseteq N \ left
  <2> TAKE n \in N \ (left \ ready)
  <2>1. new[n] = AboveIn(N, E, n) /\ new[n] \subseteq N \ left
    BY <1>3, <1>4, <1>5
  <2>2. QED
    BY <2>1
<1>9. QED
  BY <1>7, <1>8

\* The last of two lists joined is a member of the second.
LEMMA LastOfJoined ==
    ASSUME NEW T, NEW s \in Seq(T), NEW t \in Seq(T), t # <<>>
    PROVE  /\ s \o t \in Seq(T) /\ s \o t # <<>>
           /\ \E i \in 1..Len(t) : Last(s \o t) = t[i]
<1>1. Len(s \o t) = Len(s) + Len(t) /\ Len(t) \in Nat /\ Len(s) \in Nat /\ Len(t) # 0
  OBVIOUS
<1>2. Last(s \o t) = t[Len(t)]
  BY <1>1 DEF Last
<1>3. QED
  BY <1>1, <1>2

\* After a level is placed in order, the last node is still an ancestor of no placed one.
LEMMA LastStaysLow ==
    ASSUME NEW N, NEW E, NEW left, NEW ready, N \subseteq Int, left \subseteq N, ready \subseteq left,
           IsFiniteSet(ready), ready # {},
           \A n \in N \ (left \ ready) : AboveIn(N, E, n) \subseteq N \ left,
           NEW placed, LastIsLow(N, E, left, placed)
    PROVE  LastIsLow(N, E, left \ ready, placed \o Sorted(ready))
<1> DEFINE t == Sorted(ready)
<1>1. /\ t \in Seq(N) /\ Len(t) = Cardinality(ready)
      /\ \A x : x \in ready <=> \E i \in 1..Len(t) : t[i] = x
  BY SortedHasAll
<1> HIDE DEF t
<1>2. t # <<>>
  BY <1>1
<1>3. t \in Seq(N)
  BY <1>1
<1>4. placed \in Seq(N)
  BY DEF LastIsLow
<1>5. /\ placed \o t \in Seq(N) /\ placed \o t # <<>>
      /\ Last(placed \o t) \in ready
  BY <1>1, <1>2, <1>3, <1>4, LastOfJoined
<1>6. QED
  BY <1>5 DEF LastIsLow, t

\* What the steps leave alone.
SameGraph == kinds' = kinds /\ edges' = edges /\ context' = context

\* A graph that keeps its nodes and edges keeps all that is read from it.
LEMMA GraphStays ==
    ASSUME SameGraph
    PROVE  /\ Nodes' = Nodes /\ (WellFormed' <=> WellFormed) /\ (Accepted' <=> Accepted)
           /\ \A n : Scope(n)' = Scope(n)
<1> USE DEF SameGraph
<1>1. Nodes' = Nodes
  BY DEF Nodes
<1>2. \A k : OfKind(k)' = OfKind(k)
  BY <1>1 DEF OfKind
<1>3. \A n : Parents(n)' = Parents(n)
  BY DEF Parents
<1>4. \A n : Above(n)' = Above(n)
  BY <1>1 DEF Above
<1>5. WellFormed' <=> WellFormed
  BY <1>1, <1>2 DEF WellFormed
<1>6. Acyclic' <=> Acyclic
  BY <1>1, <1>4 DEF Acyclic
<1>7. RoutedAsDescribed' <=> RoutedAsDescribed
  BY <1>1, <1>2, <1>3, <1>4 DEF RoutedAsDescribed
<1>8. \A n : Scope(n)' = Scope(n)
  BY DEF Scope, NodeKinds
<1>9. QED
  BY <1>1, <1>5, <1>6, <1>7, <1>8 DEF Accepted

LEMMA OneScope == \A n, m : Scope(n) = Scope(m)
  BY DEF Scope, NodeKinds

\* Ordering one level keeps the invariant of the graph.
LEMMA LevelStep == ASSUME GraphsInv, Level PROVE GraphsInv'
<1> DEFINE ready == {n \in unplaced : Parents(n) \intersect unplaced = {}}
           new == [n \in DOMAIN ancestors \union ready |->
                    IF n \in ready
                    THEN Parents(n) \union UNION {ancestors[p] : p \in Parents(n)}
                    ELSE ancestors[n]]
<1>0. /\ SameGraph /\ UNCHANGED <<active, outputs, calls>>
      /\ graphPhase = "compiling" /\ (WellFormed => unplaced # {})
      /\ IF ~WellFormed \/ ready = {} THEN Refused
         ELSE /\ ancestors' = new /\ order' = order \o Sorted(ready)
              /\ unplaced' = unplaced \ ready /\ UNCHANGED <<graphPhase, due>>
  BY DEF Level, SameGraph
<1>1. /\ Nodes' = Nodes /\ (WellFormed' <=> WellFormed) /\ (Accepted' <=> Accepted)
      /\ \A n : Scope(n)' = Scope(n)
  BY <1>0, GraphStays
<1>2. kinds \in KindOf /\ kinds' = kinds /\ edges' = edges
  BY <1>0 DEF GraphsInv, SameGraph
<1>3. ready = {n \in unplaced : ParentsIn(edges, n) \intersect unplaced = {}}
  BY ParentsAre
<1>4. new = [n \in DOMAIN ancestors \union ready |->
               IF n \in ready
               THEN ParentsIn(edges, n) \union UNION {ancestors[p] : p \in ParentsIn(edges, n)}
               ELSE ancestors[n]]
  BY ParentsAre
<1> HIDE DEF ready, new
<1>5. \A n \in Nodes' : InScopeOf(n)'
  BY <1>0, <1>1 DEF GraphsInv, InScopeOf
<1>6. CASE ~WellFormed \/ ready = {}
  <2>0. UNCHANGED <<unplaced, ancestors, order, due>> /\ graphPhase' = "refused"
    BY <1>0, <1>6 DEF Refused
  <2>1. ~Accepted
    <3>1. CASE ~WellFormed
      BY <3>1 DEF Accepted
    <3>2. CASE WellFormed
      <4>1. ready = {} /\ unplaced # {} /\ unplaced \subseteq Nodes
        BY <1>0, <1>6, <3>2 DEF GraphsInv, Levels
      <4>2. IsFiniteSet(unplaced)
        BY <1>2, <4>1, FiniteNodes, FS_Subset
      <4>3. Within(Nodes, edges)
        BY <3>2, WellFormedWithin
      <4>4. ASSUME \A n \in Nodes : n \notin AboveIn(Nodes, edges, n) PROVE FALSE
        <5>1. \E n \in unplaced : ParentsIn(edges, n) \intersect unplaced = {}
          BY <4>1, <4>2, <4>3, <4>4, SomeNodeIsReady
        <5>2. QED
          BY <1>3, <4>1, <5>1
      <4>5. QED
        BY <4>4, AboveIs DEF Accepted, Acyclic
    <3>3. QED
      BY <3>1, <3>2
  <2>2. CallsCounted(Nodes, "refused", active, outputs, calls)
    BY DEF GraphsInv, CallsCounted
  <2>3. QED
    BY <1>0, <1>1, <1>2, <1>5, <2>0, <2>1, <2>2 DEF GraphsInv
<1>7. CASE WellFormed /\ ready # {}
  <2>0. /\ ancestors' = new /\ order' = order \o Sorted(ready)
        /\ unplaced' = unplaced \ ready /\ graphPhase' = "compiling" /\ due' = due
    BY <1>0, <1>7
  <2>1. Within(Nodes, edges)
    BY <1>7, WellFormedWithin
  <2>2. Levels(Nodes, edges, unplaced, ancestors) /\ LastIsLow(Nodes, edges, unplaced, order)
    BY DEF GraphsInv
  <2>3. /\ Levels(Nodes, edges, unplaced \ ready, new)
        /\ \A n \in Nodes \ (unplaced \ ready) : AboveIn(Nodes, edges, n) \subseteq Nodes \ unplaced
    <3>1. IsReady(edges, unplaced, ready) /\ IsNextAbove(edges, ancestors, ready, new)
      BY <1>3, <1>4 DEF IsReady, IsNextAbove
    <3>2. QED
      BY <2>1, <2>2, <3>1, LevelKeeps
  <2>4. unplaced \subseteq Nodes /\ ready \subseteq unplaced
    BY <1>3, <2>2 DEF Levels
  <2>5. IsFiniteSet(ready) /\ Nodes \subseteq Int
    <3>1. ready \in SUBSET Nodes
      BY <2>4
    <3>2. QED
      BY <1>2, <3>1, FiniteNodes, FS_Subset
  <2>6. LastIsLow(Nodes, edges, unplaced \ ready, order \o Sorted(ready))
    BY <1>7, <2>2, <2>3, <2>4, <2>5, LastStaysLow
  <2>7. /\ Levels(Nodes, edges, unplaced, ancestors)'
        /\ LastIsLow(Nodes, edges, unplaced, order)'
    BY <1>1, <1>2, <2>0, <2>3, <2>6
  <2>8. /\ RunsOn(Nodes, edges, due, active, outputs)'
        /\ CallsCounted(Nodes, graphPhase, active, outputs, calls)'
    BY <1>0, <1>1, <1>2, <2>0 DEF GraphsInv
  <2>9. QED
    BY <1>0, <1>1, <1>2, <1>5, <1>7, <2>0, <2>7, <2>8 DEF GraphsInv
<1>8. QED
  BY <1>6, <1>7

\* All nodes placed: what the checks after the loop find.
LEMMA LastIsReview ==
    ASSUME NEW N, NEW E, Within(N, E), NEW above, Levels(N, E, {}, above),
           NEW placed, LastIsLow(N, E, {}, placed),
           NEW risk \in N, NEW review \in N, ParentsIn(E, review) = {risk},
           AboveIn(N, E, risk) = N \ {risk, review}
    PROVE  Last(placed) = review
<1>1. Last(placed) \in N /\ Last(placed) \notin AboveIn(N, E, review)
  BY DEF LastIsLow
<1>2. AboveIn(N, E, review) = {risk} \union AboveIn(N, E, risk)
  <2>1. UNION {AboveIn(N, E, p) : p \in {risk}} = AboveIn(N, E, risk)
    OBVIOUS
  <2>2. QED
    BY <2>1, AboveStep
<1>3. QED
  BY <1>1, <1>2

\* The one node of a kind is the node that is chosen.
LEMMA OneOfKind ==
    ASSUME IsFiniteSet(Nodes), NEW k, Cardinality(OfKind(k)) = 1
    PROVE  /\ (CHOOSE n \in OfKind(k) : TRUE) \in Nodes
           /\ OfKind(k) = {CHOOSE n \in OfKind(k) : TRUE}
<1>1. OfKind(k) \in SUBSET Nodes
  BY DEF OfKind
<1>2. IsFiniteSet(OfKind(k))
  BY <1>1, FS_Subset
<1>3. \E x : OfKind(k) = {x}
  BY <1>2, FS_Singleton
<1>4. QED
  BY <1>1, <1>3

\* A graph compiled, or refused, keeps the invariant.
LEMMA CompiledStep == ASSUME GraphsInv, Compiled PROVE GraphsInv'
<1> DEFINE risk == CHOOSE n \in OfKind("risk") : TRUE
           review == CHOOSE n \in OfKind("review") : TRUE
<1>0. /\ SameGraph /\ UNCHANGED <<active, outputs, calls>>
      /\ graphPhase = "compiling" /\ WellFormed /\ unplaced = {}
      /\ IF Routed(risk, review)
         THEN /\ graphPhase' = "running"
              /\ due' = {n \in Nodes : Parents(n) = {}}
              /\ UNCHANGED <<unplaced, ancestors, order>>
         ELSE Refused
  BY DEF Compiled, SameGraph
<1>1. /\ Nodes' = Nodes /\ (WellFormed' <=> WellFormed) /\ (Accepted' <=> Accepted)
      /\ \A n : Scope(n)' = Scope(n)
  BY <1>0, GraphStays
<1>2. kinds \in KindOf /\ kinds' = kinds /\ edges' = edges
  BY <1>0 DEF GraphsInv, SameGraph
<1>3. UNCHANGED <<unplaced, ancestors, order>>
  BY <1>0 DEF Refused
<1>4. IsFiniteSet(Nodes) /\ Within(Nodes, edges)
  BY <1>0, <1>2, FiniteNodes, WellFormedWithin
<1>5. /\ risk \in Nodes /\ review \in Nodes
      /\ OfKind("risk") = {risk} /\ OfKind("review") = {review}
  BY <1>0, <1>4, OneOfKind DEF WellFormed
<1> HIDE DEF risk, review
<1>6. Levels(Nodes, edges, {}, ancestors) /\ LastIsLow(Nodes, edges, {}, order)
  BY <1>0 DEF GraphsInv
<1>7. \A n \in Nodes : ancestors[n] = Above(n) /\ n \notin Above(n)
  BY <1>6, AboveIs DEF Levels
<1>8. Routed(risk, review) <=> RoutedAsDescribed
  <2>1. RoutedAsDescribed <=> Above(risk) = Nodes \ {risk, review} /\ Parents(review) = {risk}
    BY <1>5 DEF RoutedAsDescribed
  <2>2. RoutedAsDescribed => Last(order) = review
    BY <1>4, <1>5, <1>6, <2>1, AboveIs, ParentsAre, LastIsReview
  <2>3. QED
    BY <1>5, <1>7, <2>1, <2>2 DEF Routed
<1>9. Accepted <=> Routed(risk, review)
  BY <1>0, <1>7, <1>8 DEF Accepted, Acyclic
<1>10. \A n \in Nodes' : InScopeOf(n)'
  BY <1>0, <1>1 DEF GraphsInv, InScopeOf
<1>11. /\ Levels(Nodes, edges, unplaced, ancestors)'
       /\ LastIsLow(Nodes, edges, unplaced, order)'
  BY <1>1, <1>2, <1>3 DEF GraphsInv
<1>12. RunsOn(Nodes, edges, due, active, outputs) /\ CallsCounted(Nodes, "compiling", active, outputs, calls)
  BY <1>0 DEF GraphsInv
<1>13. DOMAIN outputs = {} /\ due = {} /\ active = NoNode
  BY <1>0 DEF GraphsInv, RunsOn
<1>14. CASE Routed(risk, review)
  <2>0. graphPhase' = "running" /\ due' = {n \in Nodes : Parents(n) = {}}
    BY <1>0, <1>14
  <2>1. RunsOn(Nodes, edges, due', active, outputs)
    BY <1>12, <1>13, <2>0, ParentsAre DEF RunsOn
  <2>2. CallsCounted(Nodes, "running", active, outputs, calls)
    BY <1>12 DEF CallsCounted
  <2>3. QED
    BY <1>0, <1>1, <1>2, <1>9, <1>10, <1>11, <1>14, <2>0, <2>1, <2>2 DEF GraphsInv
<1>15. CASE ~Routed(risk, review)
  <2>0. graphPhase' = "refused" /\ due' = due
    BY <1>0, <1>15 DEF Refused
  <2>1. CallsCounted(Nodes, "refused", active, outputs, calls)
    BY <1>12 DEF CallsCounted
  <2>2. QED
    BY <1>0, <1>1, <1>2, <1>9, <1>10, <1>11, <1>12, <1>15, <2>0, <2>1 DEF GraphsInv
<1>16. QED
  BY <1>14, <1>15

(* A run of an accepted graph. *)

\* A node not called before adds one call and stays within the nodes.
LEMMA OneMoreCall ==
    ASSUME NEW N, IsFiniteSet(N), NEW S \in SUBSET N, NEW n \in N, n \notin S
    PROVE  /\ Cardinality(S \union {n}) = Cardinality(S) + 1
           /\ Cardinality(S \union {n}) <= Cardinality(N)
           /\ Cardinality(S) \in Nat /\ Cardinality(N) \in Nat
<1>1. IsFiniteSet(S)
  BY FS_Subset
<1>2. S \union {n} \in SUBSET N
  OBVIOUS
<1>3. QED
  BY <1>1, <1>2, FS_AddElement, FS_Subset, FS_CardinalityType

\* A node that begins keeps the invariant.
LEMMA BeginNodeStep == ASSUME GraphsInv, NEW n \in Nodes, BeginNode(n) PROVE GraphsInv'
<1>0. /\ SameGraph /\ UNCHANGED <<unplaced, ancestors, order, due, outputs>>
      /\ graphPhase = "running" /\ active = NoNode /\ n \in due
      /\ IF PeersInScope(n) /\ RequiredInScope(n)
         THEN calls' = calls + 1 /\ active' = n /\ graphPhase' = graphPhase
         ELSE /\ graphPhase' = IF RequiredInScope(n) THEN "peer outside scope" ELSE "failed"
              /\ UNCHANGED <<calls, active>>
  BY DEF BeginNode, SameGraph, Running, UnchangedGraph
<1>1. /\ Nodes' = Nodes /\ (WellFormed' <=> WellFormed) /\ (Accepted' <=> Accepted)
      /\ \A m : Scope(m)' = Scope(m)
  BY <1>0, GraphStays
<1>2. kinds \in KindOf /\ kinds' = kinds /\ edges' = edges
  BY <1>0 DEF GraphsInv, SameGraph
<1>3. IsFiniteSet(Nodes) /\ NoNode \notin Nodes
  BY <1>2, FiniteNodes
<1>4. RunsOn(Nodes, edges, due, active, outputs)
  BY DEF GraphsInv
<1>5. n \notin DOMAIN outputs /\ DOMAIN outputs \subseteq Nodes /\ n # NoNode
  BY <1>0, <1>3, <1>4 DEF RunsOn
<1>6. CallsCounted(Nodes, "running", active, outputs, calls)
  BY <1>0 DEF GraphsInv
<1>7. \A m \in Nodes' : InScopeOf(m)'
  BY <1>0, <1>1 DEF GraphsInv, InScopeOf
<1>8. /\ Levels(Nodes, edges, unplaced, ancestors)'
      /\ LastIsLow(Nodes, edges, unplaced, order)'
      /\ Accepted'
  BY <1>0, <1>1, <1>2 DEF GraphsInv
<1>9. PeersInScope(n)
  <2>1. \A p \in Parents(n) : p \in DOMAIN outputs
    BY <1>0, <1>4, ParentsAre DEF RunsOn
  <2>2. QED
    BY <2>1 DEF PeersInScope, GraphsInv, InScopeOf
<1>10. CASE RequiredInScope(n)
  <2>0. calls' = calls + 1 /\ active' = n /\ graphPhase' = "running"
    BY <1>0, <1>9, <1>10
  <2>1. DOMAIN outputs \union ({active} \ {NoNode}) = DOMAIN outputs
    BY <1>0
  <2>2. DOMAIN outputs \union ({n} \ {NoNode}) = DOMAIN outputs \union {n}
    BY <1>5
  <2>3. calls \in Nat /\ calls <= Cardinality(DOMAIN outputs)
    BY <1>6, <2>1 DEF CallsCounted
  <2> DEFINE a == Cardinality(DOMAIN outputs)
             b == Cardinality(DOMAIN outputs \union {n})
             c == Cardinality(Nodes)
  <2>4. b = a + 1 /\ b <= c /\ a \in Nat /\ c \in Nat
    BY <1>3, <1>5, OneMoreCall
  <2>5. calls <= a
    BY <2>3
  <2> HIDE DEF a, b, c
  <2>6. calls + 1 \in Nat /\ calls + 1 <= b /\ calls + 1 <= c
    BY <2>3, <2>4, <2>5
  <2>7. CallsCounted(Nodes, "running", n, outputs, calls + 1)
    BY <2>2, <2>6 DEF CallsCounted, b, c
  <2>8. RunsOn(Nodes, edges, due, n, outputs)
    BY <1>0, <1>4 DEF RunsOn
  <2>9. QED
    BY <1>0, <1>1, <1>2, <1>7, <1>8, <2>0, <2>7, <2>8 DEF GraphsInv
<1>11. CASE ~RequiredInScope(n)
  <2>0. calls' = calls /\ active' = active /\ graphPhase' = "failed"
    BY <1>0, <1>11
  <2>1. CallsCounted(Nodes, "failed", active, outputs, calls)
    BY <1>6 DEF CallsCounted
  <2>2. QED
    BY <1>0, <1>1, <1>2, <1>4, <1>7, <1>8, <2>0, <2>1 DEF GraphsInv
<1>12. QED
  BY <1>10, <1>11

\* When the review has run, every node has.
LEMMA ReviewRanLast ==
    ASSUME Accepted, NEW S \in SUBSET Nodes, \A n \in S : ParentsIn(edges, n) \subseteq S,
           NEW review \in S, kinds[review] = "review"
    PROVE  S = Nodes
<1>1. WellFormed /\ Within(Nodes, edges) /\ RoutedAsDescribed
  BY WellFormedWithin DEF Accepted
<1>2. review \in OfKind("review") /\ review \in Nodes
  BY DEF OfKind
<1>3. \E risk : risk \in OfKind("risk")
  <2>1. CASE OfKind("risk") = {}
    BY <1>1, <2>1, FS_EmptySet DEF WellFormed
  <2>2. QED
    BY <2>1
<1>4. PICK risk \in OfKind("risk") : TRUE
  BY <1>3
<1>5. AboveIn(Nodes, edges, risk) = Nodes \ {risk, review} /\ ParentsIn(edges, review) = {risk}
  BY <1>1, <1>2, <1>4, AboveIs, ParentsAre DEF RoutedAsDescribed
<1>6. AboveIn(Nodes, edges, review) \subseteq S /\ AboveIn(Nodes, edges, risk) \subseteq S /\ risk \in S
  <2>1. risk \in S
    BY <1>5
  <2>2. \A n \in S : AboveIn(Nodes, edges, n) \subseteq S
    BY <1>1, ParentClosed
  <2>3. QED
    BY <2>1, <2>2
<1>7. QED
  BY <1>5, <1>6

\* A node that answers keeps the invariant.
LEMMA AnswerStep == ASSUME GraphsInv, NEW cited, Answer(cited) PROVE GraphsInv'
<1> DEFINE out == [n \in DOMAIN outputs \union {active} |-> IF n = active THEN cited ELSE outputs[n]]
<1>0. /\ SameGraph /\ UNCHANGED <<unplaced, ancestors, order, calls>>
      /\ graphPhase = "running" /\ active # NoNode /\ active' = NoNode
      /\ IF cited \subseteq Scope(active)
         THEN /\ outputs' = out /\ due' = DueAfter(active)
              /\ graphPhase' = IF kinds[active] = "review" THEN "published" ELSE "running"
         ELSE graphPhase' = "failed" /\ UNCHANGED <<outputs, due>>
  BY DEF Answer, SameGraph, UnchangedGraph
<1>1. /\ Nodes' = Nodes /\ (WellFormed' <=> WellFormed) /\ (Accepted' <=> Accepted)
      /\ \A m : Scope(m)' = Scope(m)
  BY <1>0, GraphStays
<1>2. kinds \in KindOf /\ kinds' = kinds /\ edges' = edges
  BY <1>0 DEF GraphsInv, SameGraph
<1>3. IsFiniteSet(Nodes) /\ NoNode \notin Nodes
  BY <1>2, FiniteNodes
<1>4. RunsOn(Nodes, edges, due, active, outputs)
  BY DEF GraphsInv
<1>5. /\ active \in due /\ active \in Nodes /\ active \notin DOMAIN outputs
      /\ DOMAIN outputs \subseteq Nodes
  BY <1>0, <1>4 DEF RunsOn
<1>6. CallsCounted(Nodes, "running", active, outputs, calls)
  BY <1>0 DEF GraphsInv
<1>7. /\ Levels(Nodes, edges, unplaced, ancestors)'
      /\ LastIsLow(Nodes, edges, unplaced, order)'
      /\ Accepted /\ Accepted'
  BY <1>0, <1>1, <1>2 DEF GraphsInv
<1>8. CASE cited \subseteq Scope(active)
  <2>0. /\ outputs' = out /\ due' = DueAfter(active)
        /\ graphPhase' = IF kinds[active] = "review" THEN "published" ELSE "running"
    BY <1>0, <1>8
  <2> DEFINE ran == DOMAIN outputs \union {active}
  <2>1. DOMAIN out = ran /\ ran \subseteq Nodes
    BY <1>5
  <2>2. \A n \in DOMAIN outputs : out[n] = outputs[n]
    BY <1>5
  <2>3. out[active] = cited
    OBVIOUS
  <2>4. \A n \in Nodes' : InScopeOf(n)'
    <3> SUFFICES ASSUME NEW n \in Nodes, NEW p \in ran PROVE out[p] \subseteq Scope(n)
      BY <1>1, <2>0, <2>1 DEF InScopeOf
    <3>1. CASE p = active
      <4>1. Scope(active) = Scope(n)
        BY OneScope
      <4>2. QED
        BY <1>8, <2>3, <3>1, <4>1
    <3>2. CASE p \in DOMAIN outputs
      <4>1. outputs[p] \subseteq Scope(n)
        BY <3>2 DEF GraphsInv, InScopeOf
      <4>2. QED
        BY <2>2, <3>2, <4>1
    <3>3. QED
      BY <3>1, <3>2
  <2>5. \A n \in ran : ParentsIn(edges, n) \subseteq ran
    BY <1>4, <1>5 DEF RunsOn
  <2> HIDE DEF out
  <2>6. /\ due' \subseteq Nodes \ ran
        /\ \A n \in due' : ParentsIn(edges, n) \subseteq ran
    <3>1. CASE due # {active}
      <4>1. due' = due \ {active}
        BY <2>0, <3>1 DEF DueAfter
      <4>2. QED
        BY <1>4, <4>1 DEF RunsOn
    <3>2. CASE due = {active}
      <4>1. due' = {m \in Nodes \ ran : Parents(m) \subseteq ran}
        BY <2>0, <3>2 DEF DueAfter
      <4>2. QED
        BY <4>1, ParentsAre
    <3>3. QED
      BY <3>1, <3>2
  <2>7. RunsOn(Nodes, edges, due', NoNode, out)
    BY <2>1, <2>5, <2>6 DEF RunsOn
  <2>8. graphPhase' = "published" => DOMAIN out = Nodes
    <3>1. kinds[active] = "review" => ran = Nodes
      BY <1>7, <2>1, <2>5, ReviewRanLast
    <3>2. QED
      BY <2>0, <2>1, <3>1
  <2>9. CallsCounted(Nodes, graphPhase', NoNode, out, calls)
    <3>1. ran \union ({NoNode} \ {NoNode}) = DOMAIN outputs \union ({active} \ {NoNode})
      BY <1>0
    <3>2. DOMAIN out \union ({NoNode} \ {NoNode}) = DOMAIN outputs \union ({active} \ {NoNode})
      BY <2>1, <3>1
    <3>3. QED
      BY <1>6, <3>2 DEF CallsCounted
  <2>10. graphPhase' \in {"running", "published"}
    BY <2>0
  <2>11. QED
    BY <1>0, <1>1, <1>2, <1>7, <2>0, <2>4, <2>7, <2>8, <2>9, <2>10 DEF GraphsInv
<1>9. CASE ~(cited \subseteq Scope(active))
  <2>0. graphPhase' = "failed" /\ outputs' = outputs /\ due' = due
    BY <1>0, <1>9
  <2>1. CallsCounted(Nodes, "failed", NoNode, outputs, calls)
    BY <1>6 DEF CallsCounted
  <2>2. RunsOn(Nodes, edges, due, NoNode, outputs)
    BY <1>4 DEF RunsOn
  <2>3. \A m \in Nodes' : InScopeOf(m)'
    BY <1>1, <2>0 DEF GraphsInv, InScopeOf
  <2>4. QED
    BY <1>0, <1>1, <1>2, <1>7, <2>0, <2>1, <2>2, <2>3 DEF GraphsInv
<1>10. QED
  BY <1>8, <1>9

\* A node that fails keeps the invariant.
LEMMA NodeFailsStep == ASSUME GraphsInv, NodeFails PROVE GraphsInv'
<1>0. /\ SameGraph /\ UNCHANGED <<unplaced, ancestors, order, due, outputs, calls>>
      /\ graphPhase = "running" /\ graphPhase' = "failed" /\ active' = NoNode
  BY DEF NodeFails, SameGraph, UnchangedGraph
<1>1. /\ Nodes' = Nodes /\ (WellFormed' <=> WellFormed) /\ (Accepted' <=> Accepted)
      /\ \A m : Scope(m)' = Scope(m)
  BY <1>0, GraphStays
<1>2. kinds' = kinds /\ edges' = edges
  BY <1>0 DEF SameGraph
<1>3. CallsCounted(Nodes, "failed", NoNode, outputs, calls)
  BY DEF GraphsInv, CallsCounted
<1>4. RunsOn(Nodes, edges, due, NoNode, outputs)
  BY DEF GraphsInv, RunsOn
<1>5. \A m \in Nodes' : InScopeOf(m)'
  BY <1>0, <1>1 DEF GraphsInv, InScopeOf
<1>6. QED
  BY <1>0, <1>1, <1>2, <1>3, <1>4, <1>5 DEF GraphsInv

LEMMA GraphsStutter == ASSUME GraphsInv, UNCHANGED graphVars PROVE GraphsInv'
<1>1. SameGraph /\ UNCHANGED <<unplaced, ancestors, order, graphPhase, due, active, outputs, calls>>
  BY DEF graphVars, SameGraph
<1>2. /\ Nodes' = Nodes /\ (WellFormed' <=> WellFormed) /\ (Accepted' <=> Accepted)
      /\ \A m : Scope(m)' = Scope(m)
  BY <1>1, GraphStays
<1>3. kinds' = kinds /\ edges' = edges
  BY <1>1 DEF SameGraph
<1>4. \A m \in Nodes' : InScopeOf(m)'
  BY <1>1, <1>2 DEF GraphsInv, InScopeOf
<1>5. QED
  BY <1>1, <1>2, <1>3, <1>4 DEF GraphsInv

LEMMA GraphsInvHolds == GraphsSpec => []GraphsInv
<1>1. GraphsInit => GraphsInv
  BY GraphsStartSound
<1>2. GraphsInv /\ [GraphsNext]_graphVars => GraphsInv'
  <2> SUFFICES ASSUME GraphsInv, [GraphsNext]_graphVars PROVE GraphsInv'
    OBVIOUS
  <2>1. CASE GraphsNext
    BY <2>1, LevelStep, CompiledStep, BeginNodeStep, AnswerStep, NodeFailsStep DEF GraphsNext
  <2>2. CASE UNCHANGED graphVars
    BY <2>2, GraphsStutter
  <2>3. QED
    BY <2>1, <2>2
<1>3. QED
  BY <1>1, <1>2, PTL DEF GraphsSpec

\* For every graph a form may describe: compile_graph accepts those its docstring
\* describes and no others, and a run of an accepted one follows its connections.
THEOREM GraphsAreSound == GraphsSpec => []GraphsOK
<1>1. GraphsInv => GraphsOK
  <2> SUFFICES ASSUME GraphsInv PROVE GraphsOK
    OBVIOUS
  <2>1. AcceptedIsWellRouted
    <3>1. graphPhase # "compiling" => (graphPhase # "refused" <=> Accepted)
      BY DEF GraphsInv
    <3>2. QED
      BY <3>1 DEF AcceptedIsWellRouted, Accepted, Acyclic, RoutedAsDescribed
  <2>2. RunsFollowTheGraph
    BY ParentsAre DEF GraphsInv, RunsOn, CallsCounted, RunsFollowTheGraph
  <2>3. QED
    BY <2>1, <2>2 DEF GraphsOK
<1>2. QED
  BY <1>1, GraphsInvHolds, PTL

----------------------------------------------------------------------------
(***************************************************************************)
(* The evidence of a run.  The lists of build_context are known by what    *)
(* they have: a filtered list has what both the list and the set have.     *)
(* The invariant then relates the chosen items, the packet and the direct  *)
(* references to what the operators decided.                               *)
(***************************************************************************)

\* x is in the list.
Has(seq, x) == \E k \in 1..Len(seq) : seq[k] = x

FilterStep(seq, S, f, n) ==
    IF n = 0 THEN <<>> ELSE IF seq[n] \in S THEN Append(f[n - 1], seq[n]) ELSE f[n - 1]
IsFilter(seq, S, m, f) == f = [n \in 0..m |-> FilterStep(seq, S, f, n)]

LEMMA FilteredIs ==
    ASSUME NEW seq, NEW S
    PROVE  Filtered(seq, S) = (CHOOSE f : IsFilter(seq, S, Len(seq), f))[Len(seq)]
  BY DEF Filtered, IsFilter, FilterStep

\* The walk of a filter along a list exists.
LEMMA FilterExists ==
    ASSUME NEW seq, NEW S
    PROVE  \A m \in Nat : \E f : IsFilter(seq, S, m, f)
<1> DEFINE Good == {m \in Nat : \E f : IsFilter(seq, S, m, f)}
<1>1. 0 \in Good
  <2> DEFINE f == [n \in 0..0 |-> <<>>]
  <2>1. \A n \in 0..0 : FilterStep(seq, S, f, n) = <<>>
    BY DEF FilterStep
  <2>2. f = [n \in 0..0 |-> FilterStep(seq, S, f, n)]
    BY <2>1
  <2>3. IsFilter(seq, S, 0, f)
    BY <2>2 DEF IsFilter
  <2>4. QED
    BY <2>3
<1>2. ASSUME NEW m \in Good PROVE m + 1 \in Good
  <2>0. m \in Nat /\ m + 1 \in Nat
    OBVIOUS
  <2>1. PICK f : f = [n \in 0..m |-> FilterStep(seq, S, f, n)]
    BY DEF IsFilter
  <2> DEFINE g == [n \in 0..(m + 1) |-> FilterStep(seq, S, f, n)]
  <2>2. \A n \in 0..m : g[n] = f[n]
    BY <2>0, <2>1
  <2>3. \A n \in 0..(m + 1) : n # 0 => n - 1 \in 0..m
    BY <2>0
  <2> HIDE DEF g
  <2>4. \A n \in 0..(m + 1) : FilterStep(seq, S, f, n) = FilterStep(seq, S, g, n)
    BY <2>2, <2>3 DEF FilterStep
  <2>5. g = [n \in 0..(m + 1) |-> FilterStep(seq, S, g, n)]
    BY <2>4 DEF g
  <2>6. IsFilter(seq, S, m + 1, g)
    BY <2>5 DEF IsFilter
  <2>7. QED
    BY <2>0, <2>6
<1>3. Good = Nat
  <2> HIDE DEF Good
  <2>1. Good \subseteq Nat
    BY DEF Good
  <2>2. QED
    BY <1>1, <1>2, <2>1, NatInductionOn
<1>4. QED
  BY <1>3

\* An appended list has one member more.
LEMMA HasAppended ==
    ASSUME NEW T, NEW s \in Seq(T), NEW e \in T
    PROVE  Append(s, e) \in Seq(T) /\ \A x : Has(Append(s, e), x) <=> Has(s, x) \/ x = e
<1> DEFINE t == Append(s, e)
<1>1. /\ t \in Seq(T) /\ Len(t) = Len(s) + 1 /\ Len(s) \in Nat
      /\ \A i \in 1..Len(s) : t[i] = s[i]
      /\ t[Len(s) + 1] = e
  OBVIOUS
<1>2. 1..(Len(s) + 1) = 1..Len(s) \union {Len(s) + 1}
  BY <1>1
<1> HIDE DEF t
<1>3. \A x : Has(t, x) <=> Has(s, x) \/ x = e
  BY <1>1, <1>2 DEF Has
<1>4. QED
  BY <1>1, <1>3 DEF t

\* What is filtered out of a list is what both the list and the set have.
LEMMA FilteredHas ==
    ASSUME NEW T, NEW seq \in Seq(T), NEW S
    PROVE  Filtered(seq, S) \in Seq(T) /\ \A x : Has(Filtered(seq, S), x) <=> Has(seq, x) /\ x \in S
<1> DEFINE m == Len(seq)
           f == CHOOSE g : IsFilter(seq, S, m, g)
<1>1. m \in Nat /\ \A i \in 1..m : seq[i] \in T
  OBVIOUS
<1>2. IsFilter(seq, S, m, f)
  BY <1>1, FilterExists
<1>3. Filtered(seq, S) = f[m]
  BY FilteredIs
<1> HIDE DEF f
<1>4. \A n \in 0..m : f[n] = FilterStep(seq, S, f, n)
  BY <1>2 DEF IsFilter
<1> DEFINE Upto(n, x) == \E k \in 1..n : seq[k] = x
           Good == {n \in Nat : n <= m =>
                       f[n] \in Seq(T) /\ \A x : Has(f[n], x) <=> Upto(n, x) /\ x \in S}
<1>5. 0 \in Good
  <2>1. f[0] = <<>>
    BY <1>1, <1>4 DEF FilterStep
  <2>2. \A x : ~Has(<<>>, x) /\ ~Upto(0, x)
    BY DEF Has
  <2>3. f[0] \in Seq(T)
    BY <2>1
  <2>4. \A x : Has(f[0], x) <=> Upto(0, x) /\ x \in S
    BY <2>1, <2>2
  <2> HIDE DEF Upto
  <2>5. QED
    BY <2>3, <2>4
<1>6. ASSUME NEW n \in Good PROVE n + 1 \in Good
  <2>0. n \in Nat /\ n + 1 \in Nat
    OBVIOUS
  <2> SUFFICES ASSUME n + 1 <= m
               PROVE  f[n + 1] \in Seq(T) /\ \A x : Has(f[n + 1], x) <=> Upto(n + 1, x) /\ x \in S
    BY <2>0
  <2>1. n + 1 \in 1..m /\ n + 1 \in 0..m /\ n <= m /\ n + 1 # 0 /\ (n + 1) - 1 = n
    BY <1>1, <2>0
  <2>2. f[n] \in Seq(T) /\ \A x : Has(f[n], x) <=> Upto(n, x) /\ x \in S
    BY <2>1
  <2>3. f[n + 1] = IF seq[n + 1] \in S THEN Append(f[n], seq[n + 1]) ELSE f[n]
    BY <1>4, <2>1 DEF FilterStep
  <2>4. \A x : Upto(n + 1, x) <=> Upto(n, x) \/ x = seq[n + 1]
    <3>1. 1..(n + 1) = 1..n \union {n + 1}
      BY <2>0
    <3>2. QED
      BY <3>1
  <2>5. seq[n + 1] \in T
    BY <1>1, <2>1
  <2> HIDE DEF Upto
  <2>6. CASE seq[n + 1] \in S
    <3>1. f[n + 1] \in Seq(T) /\ \A x : Has(f[n + 1], x) <=> Has(f[n], x) \/ x = seq[n + 1]
      BY <2>2, <2>3, <2>5, <2>6, HasAppended
    <3>2. QED
      BY <2>2, <2>4, <2>6, <3>1
  <2>7. CASE seq[n + 1] \notin S
    BY <2>2, <2>3, <2>4, <2>7
  <2>8. QED
    BY <2>6, <2>7
<1>7. Good = Nat
  <2> HIDE DEF Good
  <2>1. Good \subseteq Nat
    BY DEF Good
  <2>2. QED
    BY <1>5, <1>6, <2>1, NatInductionOn
<1>8. f[m] \in Seq(T) /\ \A x : Has(f[m], x) <=> Upto(m, x) /\ x \in S
  <2>1. m \in Good /\ m <= m
    <3> HIDE DEF Good, Upto, m
    <3>1. QED
      BY <1>1, <1>7
  <2> HIDE DEF Upto, m
  <2>2. QED
    BY <2>1
<1>9. \A x : Upto(m, x) <=> Has(seq, x)
  BY DEF Has
<1> HIDE DEF Upto
<1>10. QED
  BY <1>3, <1>8, <1>9

\* Two lists joined have the members of both.
LEMMA JoinedHas ==
    ASSUME NEW T, NEW s \in Seq(T), NEW t \in Seq(T)
    PROVE  s \o t \in Seq(T) /\ \A x : Has(s \o t, x) <=> Has(s, x) \/ Has(t, x)
<1> DEFINE u == s \o t
<1>1. /\ u \in Seq(T) /\ Len(u) = Len(s) + Len(t) /\ Len(s) \in Nat /\ Len(t) \in Nat
      /\ \A i \in 1..Len(s) : u[i] = s[i]
      /\ \A i \in 1..Len(t) : u[Len(s) + i] = t[i]
  OBVIOUS
<1> HIDE DEF u
<1>2. ASSUME NEW x, Has(u, x) PROVE Has(s, x) \/ Has(t, x)
  <2>1. PICK k \in 1..Len(u) : u[k] = x
    BY <1>2 DEF Has
  <2>2. CASE k <= Len(s)
    BY <1>1, <2>1, <2>2 DEF Has
  <2>3. CASE k > Len(s)
    <3>1. k - Len(s) \in 1..Len(t) /\ Len(s) + (k - Len(s)) = k
      BY <1>1, <2>3
    <3>2. QED
      BY <1>1, <2>1, <3>1 DEF Has
  <2>4. QED
    BY <1>1, <2>1, <2>2, <2>3
<1>3. ASSUME NEW x, Has(s, x) PROVE Has(u, x)
  <2>1. 1..Len(s) \subseteq 1..Len(u)
    BY <1>1
  <2>2. QED
    BY <1>1, <1>3, <2>1 DEF Has
<1>4. ASSUME NEW x, Has(t, x) PROVE Has(u, x)
  <2>1. \A i \in 1..Len(t) : Len(s) + i \in 1..Len(u)
    BY <1>1
  <2>2. QED
    BY <1>1, <1>4, <2>1 DEF Has
<1>5. QED
  BY <1>1, <1>2, <1>3, <1>4 DEF u

\* The set of a list is its members.
LEMMA ToSetIs ==
    ASSUME NEW T, NEW s \in Seq(T)
    PROVE  \A x : x \in ToSet(s) <=> Has(s, x)
<1>1. DOMAIN s = 1..Len(s)
  OBVIOUS
<1>2. QED
  BY <1>1 DEF ToSet, Has

LEMMA SortedIn ==
    ASSUME NEW T, NEW S, IsFiniteSet(S), S \subseteq Int, S \subseteq T
    PROVE  Sorted(S) \in Seq(T) /\ \A x : Has(Sorted(S), x) <=> x \in S
  BY SortedHasAll DEF Has

(* The invariant of a run's evidence, and the steps. *)

Linked == {i \in Items : items[i].link \notin {"NONE", "REJECTED"}}
Selectable == (Linked \intersect ((Items \ RejectedItems) \union ReviewedItems)) \union ReviewedItems

ReviewedText == {i \in Items : items[i].official /\ HasDirectText(i)}

ContextInv ==
    /\ EvidenceIsAsReviewed
    /\ contextPhase = "reading" \/ entries \in Seq(Items)
    /\ directIds \subseteq ReviewedText
    /\ contextPhase = "estimate" => usable /\ packet \intersect directIds # {}

LEMMA ItemsFinite ==
    /\ NumItems \in Nat /\ MaxEntries \in Nat
    /\ \A S \in SUBSET Items : IsFiniteSet(S) /\ S \subseteq Int
<1>1. NumItems \in Nat /\ MaxEntries \in Nat
  BY ContextAssumption
<1>2. IsFiniteSet(Items) /\ Items \subseteq Int
  BY <1>1, FS_Interval DEF Items
<1>3. \A S \in SUBSET Items : IsFiniteSet(S)
  BY <1>2, FS_Subset
<1>4. QED
  BY <1>1, <1>2, <1>3

\* The timeline has the linked items and no others.
LEMMA TimelineHas == Timeline \in Seq(Items) /\ \A x : Has(Timeline, x) <=> x \in Linked
<1> DEFINE s == [k \in Items |-> NumItems + 1 - k]
<1>1. NumItems \in Nat
  BY ItemsFinite
<1>2. s \in Seq(Items) /\ Len(s) = NumItems
  <2>1. \A k \in 1..NumItems : NumItems + 1 - k \in 1..NumItems
    BY <1>1
  <2>2. QED
    BY <1>1, <2>1 DEF Items
<1>3. ASSUME NEW x \in Items PROVE Has(s, x)
  <2>1. NumItems + 1 - x \in 1..NumItems /\ NumItems + 1 - (NumItems + 1 - x) = x
    BY <1>1 DEF Items
  <2>2. s[NumItems + 1 - x] = x
    BY <2>1 DEF Items
  <2> HIDE DEF s
  <2>3. QED
    BY <1>2, <2>1, <2>2 DEF Has
<1> HIDE DEF s
<1>4. /\ Filtered(s, Linked) \in Seq(Items)
      /\ \A x : Has(Filtered(s, Linked), x) <=> Has(s, x) /\ x \in Linked
  BY <1>2, FilteredHas
<1>5. Timeline = Filtered(s, Linked)
  BY DEF Timeline, Linked, s
<1>6. Linked \subseteq Items
  BY DEF Linked
<1>7. QED
  BY <1>3, <1>4, <1>5, <1>6

\* The timeline and the reviews together are what may be selected.
LEMMA WithReviewsHas == WithReviews \in Seq(Items) /\ \A x : Has(WithReviews, x) <=> x \in Selectable
<1> DEFINE keep == (Items \ RejectedItems) \union ReviewedItems
           kept == Filtered(Timeline, keep)
           added == ReviewedItems \ ToSet(kept)
           a == Sorted(added \intersect DirectItems)
           b == Sorted(added \ DirectItems)
<1>1. WithReviews = kept \o a \o b
  BY DEF WithReviews
<1>2. kept \in Seq(Items) /\ \A x : Has(kept, x) <=> x \in Linked /\ x \in keep
  <2> HIDE DEF keep
  <2>1. QED
    BY TimelineHas, FilteredHas
<1> HIDE DEF kept
<1>3. \A x : x \in ToSet(kept) <=> x \in Linked /\ x \in keep
  <2> HIDE DEF keep
  <2>1. QED
    BY <1>2, ToSetIs
<1>4. ReviewedItems \subseteq Items /\ added \subseteq Items
  BY DEF ReviewedItems
<1> HIDE DEF keep
<1>5. /\ a \in Seq(Items) /\ \A x : Has(a, x) <=> x \in added \intersect DirectItems
      /\ b \in Seq(Items) /\ \A x : Has(b, x) <=> x \in added \ DirectItems
  <2> HIDE DEF added
  <2>1. /\ added \intersect DirectItems \in SUBSET Items
        /\ added \ DirectItems \in SUBSET Items
    BY <1>4
  <2>2. \A S \in SUBSET Items : Sorted(S) \in Seq(Items) /\ \A x : Has(Sorted(S), x) <=> x \in S
    BY ItemsFinite, SortedIn
  <2>3. QED
    BY <2>1, <2>2
<1> HIDE DEF a, b
<1>6. kept \o a \in Seq(Items) /\ \A x : Has(kept \o a, x) <=> Has(kept, x) \/ Has(a, x)
  BY <1>2, <1>5, JoinedHas
<1>7. /\ (kept \o a) \o b \in Seq(Items)
      /\ \A x : Has((kept \o a) \o b, x) <=> Has(kept \o a, x) \/ Has(b, x)
  BY <1>5, <1>6, JoinedHas
<1>8. \A x : Has(kept, x) \/ Has(a, x) \/ Has(b, x) <=> x \in Selectable
  <2>1. \A x : Has(kept, x) \/ x \in added <=> x \in Selectable
    BY <1>2, <1>3, <1>4 DEF Selectable, keep
  <2>2. \A x : Has(a, x) \/ Has(b, x) <=> x \in added
    BY <1>5
  <2>3. QED
    BY <2>1, <2>2
<1>9. QED
  BY <1>1, <1>6, <1>7, <1>8

\* What the order of the references decides: the first ones are the direct ones.
LEMMA ByReviewHas ==
    ASSUME NEW seq \in Seq(Items)
    PROVE  /\ ByReview(seq) \in Seq(Items)
           /\ \A x \in Items : Has(ByReview(seq), x) <=> Has(seq, x)
           /\ \E n \in 0..Len(ByReview(seq)) :
                /\ \A k \in 1..n : ByReview(seq)[k] \in DirectItems
                /\ \A x \in DirectItems : Has(seq, x) => \E k \in 1..n : ByReview(seq)[k] = x
<1> DEFINE a == Filtered(seq, DirectItems)
           b == Filtered(seq, ReviewedItems \ DirectItems)
           c == Filtered(seq, Items \ ReviewedItems)
<1>1. ByReview(seq) = (a \o b) \o c
  BY DEF ByReview
<1>2. /\ a \in Seq(Items) /\ \A x : Has(a, x) <=> Has(seq, x) /\ x \in DirectItems
      /\ b \in Seq(Items) /\ \A x : Has(b, x) <=> Has(seq, x) /\ x \in ReviewedItems \ DirectItems
      /\ c \in Seq(Items) /\ \A x : Has(c, x) <=> Has(seq, x) /\ x \in Items \ ReviewedItems
  BY FilteredHas
<1> HIDE DEF a, b, c
<1>3. a \o b \in Seq(Items) /\ \A x : Has(a \o b, x) <=> Has(a, x) \/ Has(b, x)
  BY <1>2, JoinedHas
<1>4. /\ (a \o b) \o c \in Seq(Items)
      /\ \A x : Has((a \o b) \o c, x) <=> Has(a \o b, x) \/ Has(c, x)
  BY <1>2, <1>3, JoinedHas
<1>5. ReviewedItems \subseteq Items /\ DirectItems \subseteq ReviewedItems
  BY DEF ReviewedItems, DirectItems
<1>6. \A x \in Items : Has(ByReview(seq), x) <=> Has(seq, x)
  BY <1>1, <1>2, <1>3, <1>4, <1>5
<1>7. /\ Len(a) \in Nat /\ Len(a) <= Len((a \o b) \o c)
      /\ \A k \in 1..Len(a) : ((a \o b) \o c)[k] = a[k]
  <2>1. /\ Len(a \o b) = Len(a) + Len(b) /\ Len(a) \in Nat /\ Len(b) \in Nat /\ Len(c) \in Nat
        /\ \A k \in 1..Len(a) : (a \o b)[k] = a[k]
    BY <1>2
  <2>2. /\ Len((a \o b) \o c) = Len(a \o b) + Len(c)
        /\ \A k \in 1..Len(a \o b) : ((a \o b) \o c)[k] = (a \o b)[k]
    BY <1>2, <1>3
  <2>3. QED
    BY <2>1, <2>2
<1>8. \A k \in 1..Len(a) : a[k] \in DirectItems
  BY <1>2 DEF Has
<1>9. \A x \in DirectItems : Has(seq, x) => \E k \in 1..Len(a) : a[k] = x
  BY <1>2 DEF Has
<1>10. Len(a) \in 0..Len(ByReview(seq))
  <2>1. Len((a \o b) \o c) \in Nat
    BY <1>4
  <2>2. QED
    BY <1>1, <1>7, <2>1
<1>11. \A k \in 1..Len(a) : ByReview(seq)[k] = a[k]
  BY <1>1, <1>7
<1>12. /\ \A k \in 1..Len(a) : ByReview(seq)[k] \in DirectItems
       /\ \A x \in DirectItems : Has(seq, x) => \E k \in 1..Len(a) : ByReview(seq)[k] = x
  BY <1>8, <1>9, <1>11
<1>13. ByReview(seq) \in Seq(Items)
  BY <1>1, <1>4
<1>14. QED
  BY <1>6, <1>10, <1>12, <1>13

LEMMA BeginningOf ==
    ASSUME NEW T, NEW s \in Seq(T), NEW m \in 0..Len(s)
    PROVE  /\ SubSeq(s, 1, m) \in Seq(T) /\ Len(SubSeq(s, 1, m)) = m
           /\ \A k \in 1..m : SubSeq(s, 1, m)[k] = s[k]
  OBVIOUS

\* Selecting the evidence keeps the invariant of the context.
LEMMA SelectStep == ASSUME ContextInv, Select PROVE ContextInv'
<1> DEFINE seq == ByReview(WithReviews)
           m == IF Len(seq) < MaxEntries THEN Len(seq) ELSE MaxEntries
           taken == SubSeq(seq, 1, m)
<1>0. /\ contextPhase = "reading" /\ contextPhase' = "selected" /\ entries' = taken
      /\ items' = items /\ UNCHANGED <<usable, directIds, packet>>
  BY DEF Select
<1>1. /\ WithReviews \in Seq(Items) /\ \A x : Has(WithReviews, x) <=> x \in Selectable
  BY WithReviewsHas
<1>2. /\ seq \in Seq(Items) /\ \A x \in Items : Has(seq, x) <=> x \in Selectable
      /\ \E n \in 0..Len(seq) :
           /\ \A k \in 1..n : seq[k] \in DirectItems
           /\ \A x \in DirectItems : x \in Selectable => \E k \in 1..n : seq[k] = x
  BY <1>1, ByReviewHas
<1> HIDE DEF seq
<1>3. Len(seq) \in Nat /\ MaxEntries \in Nat
  BY <1>2, ItemsFinite
<1>4. m \in 0..Len(seq) /\ m <= MaxEntries /\ (m = Len(seq) \/ m = MaxEntries) /\ m \in Nat
  BY <1>3
<1> HIDE DEF m
<1>5. /\ taken \in Seq(Items) /\ Len(taken) = m /\ \A k \in 1..m : taken[k] = seq[k]
  BY <1>2, <1>4, BeginningOf
<1> HIDE DEF taken
<1>6. \A x : x \in ToSet(taken) <=> \E k \in 1..m : seq[k] = x
  BY <1>5, ToSetIs DEF Has
<1>7. ReviewedItems \subseteq Items /\ DirectItems \subseteq ReviewedItems /\ Selectable \subseteq Items
  BY DEF ReviewedItems, DirectItems, Selectable, Linked
<1>8. \A i \in ToSet(taken) : i \in Selectable
  <2>1. 1..m \subseteq 1..Len(seq)
    BY <1>3, <1>4
  <2>2. \A k \in 1..Len(seq) : seq[k] \in Items
    BY <1>2
  <2>3. QED
    BY <1>2, <1>6, <2>1, <2>2 DEF Has
<1>9. \A i \in ToSet(taken) : i \in ReviewedItems \/ (i \notin RejectedItems /\ items[i].link # "REJECTED")
  BY <1>8 DEF Selectable, Linked
<1>10. \A i \in ReviewedItems \ ToSet(taken) : m = MaxEntries
  <2> SUFFICES ASSUME NEW i \in ReviewedItems, m = Len(seq) PROVE i \in ToSet(taken)
    BY <1>4
  <2>1. Has(seq, i)
    BY <1>2, <1>7 DEF Selectable
  <2>2. QED
    BY <1>6, <2>1 DEF Has
<1>11. ASSUME NEW i \in DirectItems \ ToSet(taken) PROVE ToSet(taken) \subseteq DirectItems
  <2>1. PICK n \in 0..Len(seq) :
           /\ \A k \in 1..n : seq[k] \in DirectItems
           /\ \A x \in DirectItems : x \in Selectable => \E k \in 1..n : seq[k] = x
    BY <1>2
  <2>2. i \in Selectable
    BY <1>7 DEF Selectable
  <2>3. PICK k \in 1..n : seq[k] = i
    BY <2>1, <2>2
  <2>4. k \notin 1..m
    BY <1>6, <2>3
  <2>5. 1..m \subseteq 1..n
    BY <1>3, <1>4, <2>4
  <2>6. QED
    BY <1>6, <2>1, <2>5
<1>12. /\ ReviewedItems' = ReviewedItems /\ RejectedItems' = RejectedItems /\ DirectItems' = DirectItems
       /\ ReviewedText' = ReviewedText
  BY <1>0 DEF ReviewedItems, RejectedItems, DirectItems, Statuses, ReviewedText, HasDirectText
<1>13. EvidenceIsAsReviewed'
  <2>1. \A i \in ToSet(entries') :
           i \in ReviewedItems' \/ (i \notin RejectedItems' /\ items'[i].link # "REJECTED")
    BY <1>0, <1>9, <1>12
  <2>2. \A i \in Items \ ToSet(entries') :
           /\ i \in DirectItems' => Len(entries') = MaxEntries /\ ToSet(entries') \subseteq DirectItems'
           /\ i \in ReviewedItems' => Len(entries') = MaxEntries
    BY <1>0, <1>5, <1>7, <1>10, <1>11, <1>12
  <2>3. QED
    BY <2>1, <2>2 DEF EvidenceIsAsReviewed
<1>14. QED
  BY <1>0, <1>5, <1>12, <1>13 DEF ContextInv

\* What the later steps leave alone.
LEMMA EvidenceStays ==
    ASSUME UNCHANGED <<items, usable, entries>>, contextPhase # "reading", contextPhase' # "reading"
    PROVE  /\ EvidenceIsAsReviewed => EvidenceIsAsReviewed'
           /\ ReviewedText' = ReviewedText
<1>1. /\ ReviewedItems' = ReviewedItems /\ RejectedItems' = RejectedItems /\ DirectItems' = DirectItems
  BY DEF ReviewedItems, RejectedItems, DirectItems, Statuses
<1>2. ReviewedText' = ReviewedText
  BY DEF ReviewedText, HasDirectText
<1>3. QED
  BY <1>1, <1>2 DEF EvidenceIsAsReviewed

\* Freezing the packet keeps the invariant.
LEMMA FreezeStep == ASSUME ContextInv, Freeze PROVE ContextInv'
<1>0. /\ contextPhase = "selected" /\ contextPhase' \in {"too large", "frozen"}
      /\ directIds' = {i \in ToSet(entries) : items[i].official /\ HasDirectText(i)}
      /\ UNCHANGED <<items, usable, entries, packet>>
  BY DEF Freeze
<1>1. \A i \in ToSet(entries) : i \in Items
  <2>1. entries \in Seq(Items)
    BY <1>0 DEF ContextInv
  <2>2. QED
    BY <2>1, ToSetIs DEF Has
<1>2. directIds' \subseteq ReviewedText
  BY <1>0, <1>1 DEF ReviewedText
<1>3. QED
  BY <1>0, <1>2, EvidenceStays DEF ContextInv

\* Scoping the packet keeps the invariant.
LEMMA ScopedStep == ASSUME ContextInv, Scoped PROVE ContextInv'
<1>0. /\ contextPhase = "frozen" /\ contextPhase' = "asked"
      /\ UNCHANGED <<items, usable, entries, directIds>>
  BY DEF Scoped
<1>1. QED
  BY <1>0, EvidenceStays DEF ContextInv

\* A report accepted or refused keeps the invariant.
LEMMA JudgeStep == ASSUME ContextInv, NEW cited, NEW estimate \in BOOLEAN, Judge(cited, estimate) PROVE ContextInv'
<1>0. /\ contextPhase = "asked"
      /\ contextPhase' = IF ~(cited \subseteq packet) \/ (estimate /\ ~Supported(cited))
                         THEN "invalid report"
                         ELSE IF estimate THEN "estimate" ELSE "abstention"
      /\ packet' = packet \intersect cited
      /\ UNCHANGED <<items, usable, entries, directIds>>
  BY DEF Judge
<1>1. contextPhase' = "estimate" => Supported(cited)
  BY <1>0
<1>2. contextPhase' = "estimate" => usable /\ packet' \intersect directIds # {}
  BY <1>0, <1>1 DEF Supported, Eligible
<1>3. contextPhase' # "reading"
  BY <1>0
<1>4. QED
  BY <1>0, <1>2, <1>3, EvidenceStays DEF ContextInv

LEMMA ContextInvHolds == ContextSpec => []ContextInv
<1>1. ContextInit => ContextInv
  BY DEF ContextInit, ContextStart, ContextInv, EvidenceIsAsReviewed
<1>2. ContextInv /\ [ContextNext]_contextVars => ContextInv'
  <2> SUFFICES ASSUME ContextInv, [ContextNext]_contextVars PROVE ContextInv'
    OBVIOUS
  <2>1. CASE ContextNext
    BY <2>1, SelectStep, FreezeStep, ScopedStep, JudgeStep DEF ContextNext
  <2>2. CASE UNCHANGED contextVars
    <3>1. /\ UNCHANGED <<items, usable, entries, directIds, packet, contextPhase>>
      BY <2>2 DEF contextVars
    <3>2. CASE contextPhase # "reading"
      BY <3>1, <3>2, EvidenceStays DEF ContextInv
    <3>3. CASE contextPhase = "reading"
      <4>1. ReviewedText' = ReviewedText
        BY <3>1 DEF ReviewedText, HasDirectText
      <4>2. QED
        BY <3>1, <3>3, <4>1 DEF ContextInv, EvidenceIsAsReviewed
    <3>4. QED
      BY <3>2, <3>3
  <2>3. QED
    BY <2>1, <2>2
<1>3. QED
  BY <1>1, <1>2, PTL DEF ContextSpec

\* Whatever the items, their reviews and the limits: what operators decided decides
\* what the model sees, and an estimate rests on text reviewed as direct evidence.
THEOREM ContextIsSound == ContextSpec => []ContextOK
<1>1. ContextInv => ContextOK
  BY DEF ContextInv, ContextOK, EstimatesRestOnReviewedText, ReviewedText
<1>2. QED
  BY <1>1, ContextInvHolds, PTL

----------------------------------------------------------------------------
(***************************************************************************)
(* Lists of texts.  A grouping is the positions at which its groups end in *)
(* the list.  A part of a run of texts is no longer than the run, so every *)
(* other way to cut the list has a cut in each group that the greedy loop  *)
(* closed: with more groups than the schema allows, no other way fits.     *)
(***************************************************************************)

LEMMA LettersEmpty == Letters(<<>>) = 0
<1>1. DOMAIN <<>> = {}
  OBVIOUS
<1>2. QED
  BY <1>1, SumEmpty DEF Letters

LEMMA LettersAppend ==
    ASSUME NEW s \in Seq(Nat), NEW x \in Nat
    PROVE  Letters(Append(s, x)) = Letters(s) + x /\ Letters(s) \in Nat
<1> DEFINE t == Append(s, x)
           n == Len(s)
<1>1. /\ n \in Nat /\ DOMAIN s = 1..n /\ DOMAIN t = 1..(n + 1)
      /\ t[n + 1] = x /\ \A i \in 1..n : t[i] = s[i] /\ s[i] \in Nat
  OBVIOUS
<1>2. IsFiniteSet(1..n) /\ IsFiniteSet(1..(n + 1))
  BY <1>1, FS_Interval
<1> HIDE DEF t, n
<1>3. /\ 1..(n + 1) \ {n + 1} = 1..n /\ n + 1 \in 1..(n + 1)
      /\ \A i \in 1..(n + 1) : i = n + 1 \/ i \in 1..n
  BY <1>1
<1>4. \A i \in 1..(n + 1) : t[i] \in Int
  BY <1>1, <1>3
<1>5. SumFunctionOnSet(t, 1..(n + 1)) = t[n + 1] + SumFunctionOnSet(t, 1..(n + 1) \ {n + 1})
  BY <1>2, <1>3, <1>4, SumAdd
<1>6. SumFunctionOnSet(t, 1..n) = SumFunctionOnSet(s, 1..n)
  <2>1. \A i \in 1..n : s[i] \in Int /\ t[i] = s[i]
    BY <1>1
  <2>2. QED
    BY <1>2, <2>1, SumSame
<1>7. SumFunctionOnSet(s, 1..n) \in Nat
  BY <1>1, <1>2, SumNat
<1> DEFINE all == SumFunctionOnSet(t, 1..(n + 1))
           some == SumFunctionOnSet(s, 1..n)
<1>8. Letters(t) = all /\ Letters(s) = some
  BY <1>1 DEF Letters
<1>9. all = x + some /\ some \in Nat
  BY <1>1, <1>3, <1>5, <1>6, <1>7
<1> HIDE DEF all, some
<1>10. Letters(t) = Letters(s) + x /\ Letters(s) \in Nat
  BY <1>8, <1>9
<1>11. QED
  BY <1>10 DEF t

\* Letters of the first n texts.
Upto(a, n) == Letters(SubSeq(a, 1, n))

\* A run of texts one longer is the run with one text appended.
LEMMA RunGrows ==
    ASSUME NEW a \in Seq(Nat), NEW i \in Nat, NEW j \in Nat, 1 <= i, i <= j + 1, j + 1 <= Len(a)
    PROVE  /\ SubSeq(a, i, j) \in Seq(Nat) /\ a[j + 1] \in Nat
           /\ SubSeq(a, i, j + 1) = Append(SubSeq(a, i, j), a[j + 1])
<1>1. \A k \in i..(j + 1) : a[k] \in Nat
  OBVIOUS
<1>2. SubSeq(a, i, j) \in Seq(Nat) /\ a[j + 1] \in Nat
  OBVIOUS
<1>3. SubSeq(a, i, j + 1) = Append(SubSeq(a, i, j), a[j + 1])
  OBVIOUS
<1>4. QED
  BY <1>2, <1>3

\* The letters of a run are the difference of two prefixes.
LEMMA RunLetters ==
    ASSUME NEW a \in Seq(Nat), NEW i \in Nat, 1 <= i
    PROVE  \A j \in Nat : i <= j + 1 /\ j <= Len(a) =>
              /\ SubSeq(a, i, j) \in Seq(Nat)
              /\ Letters(SubSeq(a, i, j)) = Upto(a, j) - Upto(a, i - 1)
              /\ Upto(a, j) \in Nat /\ Upto(a, i - 1) \in Nat
              /\ Letters(SubSeq(a, i, j)) \in Nat
<1>1. Len(a) \in Nat
  OBVIOUS
<1>2. ASSUME NEW n \in Nat, n <= Len(a) PROVE SubSeq(a, 1, n) \in Seq(Nat) /\ Upto(a, n) \in Nat
  <2>0. \A k \in 1..n : a[k] \in Nat
    BY <1>2
  <2>1. SubSeq(a, 1, n) \in Seq(Nat)
    BY <1>2, <2>0
  <2>2. QED
    BY <2>1, LettersAppend DEF Upto
<1> DEFINE Good == {j \in Nat : i <= j + 1 /\ j <= Len(a) =>
                       /\ SubSeq(a, i, j) \in Seq(Nat)
                       /\ Letters(SubSeq(a, i, j)) = Upto(a, j) - Upto(a, i - 1)}
<1>3. ASSUME NEW j \in Nat, i = j + 1, j <= Len(a) PROVE j \in Good
  <2>1. SubSeq(a, i, j) = <<>>
    BY <1>3
  <2>2. j = i - 1
    BY <1>3
  <2>3. Upto(a, j) - Upto(a, i - 1) = 0
    BY <1>2, <1>3, <2>2
  <2>4. SubSeq(a, i, j) \in Seq(Nat)
    BY <2>1
  <2>5. Letters(SubSeq(a, i, j)) = Upto(a, j) - Upto(a, i - 1)
    BY <2>1, <2>3, LettersEmpty
  <2>6. QED
    BY <2>4, <2>5
<1>4. 0 \in Good
  <2>1. CASE i = 1
    BY <1>1, <1>3, <2>1
  <2>2. CASE i # 1
    BY <2>2
  <2>3. QED
    BY <2>1, <2>2
<1>5. ASSUME NEW j \in Good PROVE j + 1 \in Good
  <2>1. CASE i = j + 2 /\ j + 1 <= Len(a)
    BY <2>1, <1>3
  <2>2. CASE i <= j + 1 /\ j + 1 <= Len(a)
    <3>1. /\ SubSeq(a, i, j) \in Seq(Nat) /\ a[j + 1] \in Nat
          /\ SubSeq(a, i, j + 1) = Append(SubSeq(a, i, j), a[j + 1])
      BY <2>2, RunGrows
    <3>2. /\ SubSeq(a, 1, j) \in Seq(Nat)
          /\ SubSeq(a, 1, j + 1) = Append(SubSeq(a, 1, j), a[j + 1])
      BY <2>2, RunGrows
    <3>3. /\ Letters(SubSeq(a, i, j + 1)) = Letters(SubSeq(a, i, j)) + a[j + 1]
          /\ Letters(SubSeq(a, i, j)) \in Nat
      BY <3>1, LettersAppend
    <3>4. Upto(a, j + 1) = Upto(a, j) + a[j + 1] /\ Upto(a, j) \in Nat
      BY <3>1, <3>2, LettersAppend DEF Upto
    <3>5. Letters(SubSeq(a, i, j)) = Upto(a, j) - Upto(a, i - 1)
      BY <1>1, <2>2
    <3>6. Upto(a, i - 1) \in Nat
      BY <1>1, <1>2, <2>2
    <3>7. Letters(SubSeq(a, i, j + 1)) = Upto(a, j + 1) - Upto(a, i - 1)
      BY <3>1, <3>3, <3>4, <3>5, <3>6
    <3>8. SubSeq(a, i, j + 1) \in Seq(Nat)
      BY <3>1
    <3>9. QED
      BY <3>7, <3>8
  <2>3. CASE ~(i <= j + 2 /\ j + 1 <= Len(a))
    BY <2>3
  <2>4. QED
    BY <1>1, <2>1, <2>2, <2>3
<1>6. Good = Nat
  <2> HIDE DEF Good
  <2>1. Good \subseteq Nat
    BY DEF Good
  <2>2. QED
    BY <1>4, <1>5, <2>1, NatInductionOn
<1>7. SUFFICES ASSUME NEW j \in Nat, i <= j + 1, j <= Len(a)
               PROVE  /\ SubSeq(a, i, j) \in Seq(Nat)
                      /\ Letters(SubSeq(a, i, j)) = Upto(a, j) - Upto(a, i - 1)
                      /\ Upto(a, j) \in Nat /\ Upto(a, i - 1) \in Nat
                      /\ Letters(SubSeq(a, i, j)) \in Nat
  OBVIOUS
<1>8. /\ SubSeq(a, i, j) \in Seq(Nat)
      /\ Letters(SubSeq(a, i, j)) = Upto(a, j) - Upto(a, i - 1)
  BY <1>6, <1>7
<1>9. Upto(a, j) \in Nat /\ Upto(a, i - 1) \in Nat
  BY <1>1, <1>2, <1>7
<1>10. Letters(SubSeq(a, i, j)) \in Nat
  BY <1>8, LettersAppend
<1>11. QED
  BY <1>8, <1>9, <1>10

\* What a run takes up when it is rendered, from its ends.
LEMMA RunRendered ==
    ASSUME NEW a \in Seq(Nat), NEW i \in Nat, NEW j \in Nat, 1 <= i, i <= j, j <= Len(a)
    PROVE  /\ Len(SubSeq(a, i, j)) = j - i + 1
           /\ Upto(a, j) - Upto(a, i - 1) \in Nat
           /\ Rendered(SubSeq(a, i, j)) =
                IF i = j THEN Upto(a, j) - Upto(a, i - 1)
                ELSE Upto(a, j) - Upto(a, i - 1) + Bullet + NextBullet * (j - i)
<1>1. i <= j + 1
  OBVIOUS
<1>2. /\ Letters(SubSeq(a, i, j)) = Upto(a, j) - Upto(a, i - 1)
      /\ Letters(SubSeq(a, i, j)) \in Nat
  BY <1>1, RunLetters
<1>3. Len(SubSeq(a, i, j)) = j - i + 1
  OBVIOUS
<1>4. CASE i = j
  <2>1. j - 1 \in Nat /\ i <= (j - 1) + 1 /\ (j - 1) + 1 <= Len(a) /\ (j - 1) + 1 = j
    BY <1>4
  <2>2. SubSeq(a, i, (j - 1) + 1) = Append(SubSeq(a, i, j - 1), a[(j - 1) + 1])
    BY <2>1, RunGrows, Zenon
  <2>3. a[j] \in Nat /\ SubSeq(a, i, j - 1) = <<>>
    BY <1>4
  <2>4. SubSeq(a, i, j) = Append(<<>>, a[j])
    BY <2>1, <2>2, <2>3
  <2>5. Letters(SubSeq(a, i, j)) = 0 + a[j]
    <3>1. <<>> \in Seq(Nat)
      OBVIOUS
    <3>2. QED
      BY <2>3, <2>4, <3>1, LettersAppend, LettersEmpty
  <2>6. SubSeq(a, i, j)[1] = a[j]
    BY <2>4
  <2>7. Rendered(SubSeq(a, i, j)) = a[j]
    BY <1>3, <1>4, <2>6 DEF Rendered
  <2>8. QED
    BY <1>2, <1>3, <1>4, <2>3, <2>5, <2>7
<1>5. CASE i # j
  <2>1. Len(SubSeq(a, i, j)) # 1
    BY <1>3, <1>5
  <2>2. Rendered(SubSeq(a, i, j)) = Letters(SubSeq(a, i, j)) + Bullet + NextBullet * (Len(SubSeq(a, i, j)) - 1)
    BY <2>1 DEF Rendered
  <2>3. (j - i + 1) - 1 = j - i
    OBVIOUS
  <2>4. QED
    BY <1>2, <1>3, <1>5, <2>2, <2>3
<1>6. QED
  BY <1>4, <1>5

\* Longer prefixes have no fewer letters.
LEMMA UptoGrows ==
    ASSUME NEW a \in Seq(Nat), NEW i \in Nat, NEW j \in Nat, i <= j, j <= Len(a)
    PROVE  Upto(a, i) <= Upto(a, j) /\ Upto(a, i) \in Nat /\ Upto(a, j) \in Nat
<1>1. i + 1 \in Nat /\ 1 <= i + 1 /\ i + 1 <= j + 1 /\ (i + 1) - 1 = i
  OBVIOUS
<1>2. /\ Letters(SubSeq(a, i + 1, j)) = Upto(a, j) - Upto(a, (i + 1) - 1)
      /\ Upto(a, j) \in Nat /\ Upto(a, (i + 1) - 1) \in Nat
      /\ Letters(SubSeq(a, i + 1, j)) \in Nat
  BY <1>1, RunLetters
<1>3. QED
  BY <1>1, <1>2

\* A part of a run that fits, fits.
LEMMA PartsFit ==
    ASSUME NEW a \in Seq(Nat), NEW i \in Nat, NEW j \in Nat, NEW i0 \in Nat, NEW j0 \in Nat,
           1 <= i0, i0 <= i, i <= j, j <= j0, j0 <= Len(a)
    PROVE  /\ Rendered(SubSeq(a, i, j)) <= Rendered(SubSeq(a, i0, j0))
           /\ Rendered(SubSeq(a, i, j)) \in Nat /\ Rendered(SubSeq(a, i0, j0)) \in Nat
<1> DEFINE U(n) == Upto(a, n)
<1>1. Len(a) \in Nat /\ Bullet \in Nat /\ NextBullet \in Nat
  BY ListsAssumption
<1>2. /\ U(i0 - 1) \in Nat /\ U(i - 1) \in Nat /\ U(j) \in Nat /\ U(j0) \in Nat
      /\ U(i0 - 1) <= U(i - 1) /\ U(j) <= U(j0)
  <2>1. i0 - 1 \in Nat /\ i - 1 \in Nat /\ i0 - 1 <= i - 1 /\ i - 1 <= Len(a) /\ j <= Len(a)
    BY <1>1
  <2>2. /\ U(i0 - 1) \in Nat /\ U(i - 1) \in Nat /\ U(i0 - 1) <= U(i - 1)
    BY <2>1, UptoGrows
  <2>3. U(j) \in Nat /\ U(j0) \in Nat /\ U(j) <= U(j0)
    BY <2>1, UptoGrows
  <2>4. QED
    BY <2>2, <2>3
<1>3. /\ U(j) - U(i - 1) \in Nat
      /\ Rendered(SubSeq(a, i, j)) =
           IF i = j THEN U(j) - U(i - 1) ELSE U(j) - U(i - 1) + Bullet + NextBullet * (j - i)
  <2>1. 1 <= i /\ j <= Len(a)
    BY <1>1
  <2>2. QED
    BY <2>1, RunRendered
<1>4. /\ U(j0) - U(i0 - 1) \in Nat
      /\ Rendered(SubSeq(a, i0, j0)) =
           IF i0 = j0 THEN U(j0) - U(i0 - 1)
           ELSE U(j0) - U(i0 - 1) + Bullet + NextBullet * (j0 - i0)
  <2>1. i0 <= j0
    OBVIOUS
  <2>2. QED
    BY <2>1, RunRendered
<1>5. /\ NextBullet * (j - i) <= NextBullet * (j0 - i0)
      /\ NextBullet * (j - i) \in Nat /\ NextBullet * (j0 - i0) \in Nat
  <2>1. j - i \in Nat /\ j0 - i0 \in Nat /\ j - i <= j0 - i0
    OBVIOUS
  <2>2. QED
    BY <1>1, <2>1, ProductNat, ProductMonotone
<1> DEFINE x == NextBullet * (j - i)
           y == NextBullet * (j0 - i0)
           r == Rendered(SubSeq(a, i, j))
           r0 == Rendered(SubSeq(a, i0, j0))
<1>6. /\ x \in Nat /\ y \in Nat /\ x <= y
      /\ r = IF i = j THEN U(j) - U(i - 1) ELSE U(j) - U(i - 1) + Bullet + x
      /\ r0 = IF i0 = j0 THEN U(j0) - U(i0 - 1) ELSE U(j0) - U(i0 - 1) + Bullet + y
  BY <1>3, <1>4, <1>5
<1>7. U(j) - U(i - 1) <= U(j0) - U(i0 - 1)
  BY <1>2
<1>8. i0 = j0 => i = j
  OBVIOUS
<1> HIDE DEF x, y, r, r0, U
<1>9. r <= r0 /\ r \in Nat /\ r0 \in Nat
  <2> DEFINE p == U(j) - U(i - 1)
             p0 == U(j0) - U(i0 - 1)
  <2>1. p \in Nat /\ p0 \in Nat /\ p <= p0
    BY <1>3, <1>4, <1>7
  <2>2. r = (IF i = j THEN p ELSE p + Bullet + x) /\ r0 = (IF i0 = j0 THEN p0 ELSE p0 + Bullet + y)
    BY <1>6
  <2> HIDE DEF p, p0
  <2>0. x \in Nat /\ y \in Nat /\ x <= y /\ Bullet \in Nat
    BY <1>1, <1>6
  <2>3. CASE i = j
    <3>1. r = p
      BY <2>2, <2>3
    <3>2. r0 = p0 \/ r0 = p0 + Bullet + y
      BY <2>2
    <3>3. QED
      BY <2>0, <2>1, <3>1, <3>2
  <2>4. CASE i # j
    BY <2>0, <1>8, <2>1, <2>2, <2>4
  <2>5. QED
    BY <2>3, <2>4
<1>10. QED
  BY <1>9 DEF r, r0

(* Where groups end in the list. *)

Rises(e, n, m) == e \in [0..n -> 0..m] /\ e[0] = 0 /\ \A k \in 1..n : e[k - 1] < e[k]

\* The groups are the runs of list a between consecutive ends.
Ends(a, g, e) ==
    /\ g \in Seq(Seq(Nat)) /\ Rises(e, Len(g), Len(a))
    /\ \A k \in 1..Len(g) : g[k] = SubSeq(a, e[k - 1] + 1, e[k]) /\ Rendered(g[k]) <= MaxLength

\* A group ends because the next text would not fit.
Greedy(a, n, e) == \A k \in 1..(n - 1) : ~(Rendered(SubSeq(a, e[k - 1] + 1, e[k] + 1)) <= MaxLength)

\* Ends that rise step by step rise over any distance.
LEMMA RisesAll ==
    ASSUME NEW n \in Nat, NEW m \in Nat, NEW e, Rises(e, n, m)
    PROVE  \A k, l \in 0..n : k <= l => e[k] <= e[l] /\ l - k <= e[l] - e[k]
<1>1. /\ e \in [0..n -> 0..m] /\ \A k \in 1..n : e[k - 1] < e[k]
  BY DEF Rises
<1>2. \A k \in 0..n : e[k] \in 0..m
  BY <1>1
<1> SUFFICES ASSUME NEW k \in 0..n PROVE \A l \in 0..n : k <= l => l - k <= e[l] - e[k]
  BY <1>2
<1> DEFINE Good == {l \in Nat : l \in k..n => l - k <= e[l] - e[k]}
<1>3. 0 \in Good
  BY <1>2
<1>4. ASSUME NEW l \in Good PROVE l + 1 \in Good
  <2>1. CASE l + 1 = k
    BY <1>2, <2>1
  <2>2. CASE l + 1 \in k..n /\ l + 1 # k
    <3>1. l \in k..n /\ l + 1 \in 1..n /\ (l + 1) - 1 = l
      BY <2>2
    <3>2. e[l] < e[l + 1]
      BY <1>1, <3>1
    <3>3. l - k <= e[l] - e[k]
      BY <3>1
    <3>4. e[l] \in Int /\ e[l + 1] \in Int /\ e[k] \in Int
      BY <1>2, <3>1, <2>2
    <3>5. QED
      BY <3>2, <3>3, <3>4
  <2>3. QED
    BY <2>1, <2>2
<1>5. Good = Nat
  <2> HIDE DEF Good
  <2>1. Good \subseteq Nat
    BY DEF Good
  <2>2. QED
    BY <1>3, <1>4, <2>1, NatInductionOn
<1>6. QED
  BY <1>5

\* The runs between the cuts fit, as SomeGroupingFits has it.
RunsFit(a, cuts) ==
    \A first, last \in DOMAIN a :
       /\ first <= last /\ (first = 1 \/ first - 1 \in cuts)
       /\ last \in cuts \union {Len(a)} /\ cuts \intersect first..(last - 1) = {}
         => Rendered(SubSeq(a, first, last)) <= MaxLength

\* Any other grouping that fits has a cut in every greedy group but the last.
LEMMA CutIn ==
    ASSUME NEW a \in Seq(Nat), NEW cuts \in SUBSET (1..(Len(a) - 1)), RunsFit(a, cuts),
           NEW l \in Nat, NEW h \in Nat, l < h, h < Len(a),
           ~(Rendered(SubSeq(a, l + 1, h + 1)) <= MaxLength)
    PROVE  \E c \in cuts : l < c /\ c <= h
<1> SUFFICES ASSUME \A c \in cuts : ~(l < c /\ c <= h) PROVE FALSE
  OBVIOUS
<1> DEFINE low == {c \in cuts \union {0} : c <= l}
           high == {c \in cuts \union {Len(a)} : l < c}
<1>1. /\ Len(a) \in Nat /\ DOMAIN a = 1..Len(a)
      /\ \A c \in cuts : c \in Nat /\ 1 <= c /\ c < Len(a)
  OBVIOUS
<1> HIDE DEF low, high
<1>0. /\ \A c : c \in low <=> (c \in cuts \/ c = 0) /\ c <= l
      /\ \A c : c \in high <=> (c \in cuts \/ c = Len(a)) /\ l < c
  BY DEF low, high
<1>a. ASSUME NEW c \in low PROVE c \in Nat /\ c <= l /\ c <= Len(a) /\ (c \in cuts \/ c = 0)
  <2>1. c \in cuts \/ c = 0
    BY DEF low
  <2>2. c <= l
    BY DEF low
  <2>3. c \in Nat /\ c <= Len(a)
    <3>1. CASE c \in cuts
      BY <1>1, <3>1
    <3>2. CASE c = 0
      BY <1>1, <3>2
    <3>3. QED
      BY <2>1, <3>1, <3>2
  <2>4. QED
    BY <2>1, <2>2, <2>3
<1>b. ASSUME NEW c \in high PROVE c \in Nat /\ l < c /\ c <= Len(a) /\ h < c /\ (c \in cuts \/ c = Len(a))
  <2>1. c \in cuts \/ c = Len(a)
    BY DEF high
  <2>2. l < c
    BY DEF high
  <2>3. c \in Nat /\ c <= Len(a) /\ h < c
    <3>1. CASE c \in cuts
      BY <1>1, <2>2, <3>1
    <3>2. CASE c = Len(a)
      BY <1>1, <3>2
    <3>3. QED
      BY <2>1, <3>1, <3>2
  <2>4. QED
    BY <2>1, <2>2, <2>3
<1>2. IsFiniteSet(low) /\ IsFiniteSet(high)
  <2>1. IsFiniteSet(0..Len(a))
    BY <1>1, FS_Interval
  <2>2. low \subseteq 0..Len(a) /\ high \subseteq 0..Len(a)
    BY <1>1, <1>a, <1>b
  <2>3. QED
    BY <2>1, <2>2, FS_Subset
<1>3. low \subseteq Int /\ low # {} /\ high \subseteq Nat /\ high # {}
  <2>1. 0 \in low /\ Len(a) \in high
    BY <1>0, <1>1
  <2>2. low \subseteq Int /\ high \subseteq Nat
    BY <1>a, <1>b
  <2>3. QED
    BY <2>1, <2>2
<1>4. PICK b \in low : \A c \in low : c <= b
  BY <1>2, <1>3, GreatestExists
<1>5. PICK t \in high : \A c \in high : t <= c
  BY <1>3, LeastNatural
<1>6. h < t /\ b \in Nat /\ t \in Nat /\ b <= l /\ t <= Len(a)
  BY <1>a, <1>b, <1>4, <1>5
<1>7. b + 1 \in DOMAIN a /\ t \in DOMAIN a /\ b + 1 <= t
  BY <1>1, <1>6
<1>8. (b + 1 = 1 \/ (b + 1) - 1 \in cuts) /\ t \in cuts \union {Len(a)}
  BY <1>0, <1>6
<1>9. cuts \intersect (b + 1)..(t - 1) = {}
  <2> SUFFICES ASSUME NEW c \in cuts, b + 1 <= c, c <= t - 1 PROVE FALSE
    OBVIOUS
  <2>1. c \in Nat
    BY <1>1
  <2>2. CASE c <= l
    BY <1>0, <1>4, <1>6, <2>1, <2>2
  <2>3. CASE l < c
    BY <1>0, <1>5, <1>6, <2>1, <2>3
  <2>4. QED
    BY <2>1, <2>2, <2>3
<1>10. Rendered(SubSeq(a, b + 1, t)) <= MaxLength
  BY <1>7, <1>8, <1>9 DEF RunsFit
<1>11. /\ Rendered(SubSeq(a, l + 1, h + 1)) <= Rendered(SubSeq(a, b + 1, t))
       /\ Rendered(SubSeq(a, l + 1, h + 1)) \in Nat /\ Rendered(SubSeq(a, b + 1, t)) \in Nat
  <2>1. /\ l + 1 \in Nat /\ h + 1 \in Nat /\ b + 1 \in Nat
        /\ 1 <= b + 1 /\ b + 1 <= l + 1 /\ l + 1 <= h + 1 /\ h + 1 <= t
    BY <1>6
  <2>2. QED
    BY <1>6, <2>1, PartsFit
<1>12. MaxLength \in Nat
  BY ListsAssumption
<1>13. QED
  BY <1>10, <1>11, <1>12

\* A list that the greedy loop cannot place in MaxTexts groups fits in none.
LEMMA GreedyIsBest ==
    ASSUME NEW a \in Seq(Nat), NEW g, NEW e, Ends(a, g, e), Greedy(a, Len(g), e),
           NEW cuts \in SUBSET (1..(Len(a) - 1)), RunsFit(a, cuts)
    PROVE  Len(g) - 1 <= Cardinality(cuts)
<1> DEFINE n == Len(g)
           S == 1..(n - 1)
<1>1. /\ Len(a) \in Nat /\ n \in Nat
      /\ e \in [0..n -> 0..Len(a)] /\ \A k \in 1..n : e[k - 1] < e[k]
  BY DEF Ends, Rises
<1>2. \A k, l \in 0..n : k <= l => e[k] <= e[l]
  BY <1>1, RisesAll DEF Ends
<1> HIDE DEF n
<1>3. ASSUME NEW k \in S PROVE \E c \in cuts : e[k - 1] < c /\ c <= e[k]
  <2> DEFINE l == e[k - 1]
             h == e[k]
  <2>1. k \in 1..n /\ k + 1 \in 1..n /\ k - 1 \in 0..n /\ k \in 0..n /\ k + 1 \in 0..n /\ (k + 1) - 1 = k
    BY <1>1
  <2>2. l \in Nat /\ h \in Nat /\ l < h /\ h < Len(a)
    <3>1. e[k - 1] \in 0..Len(a) /\ e[k] \in 0..Len(a) /\ e[k + 1] \in 0..Len(a)
      BY <1>1, <2>1
    <3>2. e[k - 1] < e[k] /\ e[k] < e[k + 1]
      BY <1>1, <2>1
    <3>3. QED
      BY <1>1, <3>1, <3>2
  <2>3. ~(Rendered(SubSeq(a, l + 1, h + 1)) <= MaxLength)
    BY DEF Greedy, n
  <2> HIDE DEF l, h
  <2>4. \E c \in cuts : l < c /\ c <= h
    BY <2>2, <2>3, CutIn
  <2>5. QED
    BY <2>4 DEF l, h
<1> DEFINE f == [k \in S |-> CHOOSE c \in cuts : e[k - 1] < c /\ c <= e[k]]
<1>4. \A k \in S : f[k] \in cuts /\ e[k - 1] < f[k] /\ f[k] <= e[k]
  BY <1>3
<1>5. f \in [S -> cuts]
  BY <1>4
<1> HIDE DEF f
<1>6. ASSUME NEW k \in S, NEW l \in S, k < l PROVE f[k] # f[l]
  <2>1. k \in 0..n /\ l - 1 \in 0..n /\ k <= l - 1
    BY <1>1, <1>6
  <2>2. e[k] <= e[l - 1] /\ e[k] \in Int /\ e[l - 1] \in Int
    BY <1>1, <1>2, <2>1
  <2>3. f[k] <= e[k] /\ e[l - 1] < f[l] /\ f[k] \in Int /\ f[l] \in Int
    <3>1. \A c \in cuts : c \in Int
      OBVIOUS
    <3>2. QED
      BY <1>4, <3>1
  <2>4. QED
    BY <2>2, <2>3
<1>7. \A k, l \in S : f[k] = f[l] => k = l
  <2> SUFFICES ASSUME NEW k \in S, NEW l \in S, f[k] = f[l], k # l PROVE FALSE
    OBVIOUS
  <2>1. CASE k < l
    BY <1>6, <2>1
  <2>2. CASE l < k
    BY <1>6, <2>2
  <2>3. QED
    BY <1>1, <2>1, <2>2
<1>8. f \in Injection(S, cuts)
  BY <1>5, <1>7 DEF Injection, IsInjective
<1>9. IsFiniteSet(cuts)
  <2>1. IsFiniteSet(1..(Len(a) - 1))
    BY <1>1, FS_Interval
  <2>2. QED
    BY <2>1, FS_Subset
<1>10. Cardinality(S) <= Cardinality(cuts) /\ Cardinality(cuts) \in Nat
  <2> HIDE DEF S
  <2> QED
    BY <1>8, <1>9, FS_Injection, FS_CardinalityType
<1>11. Cardinality(S) = IF 1 > n - 1 THEN 0 ELSE (n - 1) - 1 + 1
  BY <1>1, FS_Interval
<1>12. n - 1 <= Cardinality(cuts)
  <2> DEFINE s == Cardinality(S)
             c == Cardinality(cuts)
  <2>1. s <= c /\ c \in Nat /\ s = IF 1 > n - 1 THEN 0 ELSE (n - 1) - 1 + 1
    BY <1>10, <1>11
  <2> HIDE DEF s, c
  <2>2. n - 1 <= c
    BY <1>1, <2>1
  <2>3. QED
    BY <2>2 DEF c
<1>13. QED
  BY <1>12 DEF n

\* Lists that agree everywhere are equal.
LEMMA SameLists ==
    ASSUME NEW T, NEW s \in Seq(T), NEW u \in Seq(T), Len(s) = Len(u),
           \A k \in 1..Len(u) : s[k] = u[k]
    PROVE  s = u
<1>1. s = [k \in 1..Len(s) |-> s[k]]
  OBVIOUS
<1>2. u = [k \in 1..Len(u) |-> u[k]]
  OBVIOUS
<1>3. [k \in 1..Len(s) |-> s[k]] = [k \in 1..Len(u) |-> u[k]]
  OBVIOUS
<1>4. QED
  BY <1>1, <1>2, <1>3

\* What a concatenation has, and where.
IsConcatenation(T, s, u, w) ==
    /\ w \in Seq(T) /\ Len(w) = Len(s) + Len(u)
    /\ \A k \in 1..Len(s) : w[k] = s[k]
    /\ \A k \in 1..Len(u) : w[Len(s) + k] = u[k]

\* Two lists joined, index by index.
LEMMA ConcatenationIs ==
    ASSUME NEW T, NEW s \in Seq(T), NEW u \in Seq(T)
    PROVE  IsConcatenation(T, s, u, s \o u)
<1> DEFINE w == s \o u
<1>1. w \in Seq(T) /\ Len(w) = Len(s) + Len(u)
  OBVIOUS
<1>2. \A k \in 1..Len(s) : w[k] = s[k]
  OBVIOUS
<1>3. ASSUME NEW k \in 1..Len(u) PROVE w[Len(s) + k] = u[k]
  OBVIOUS
<1> HIDE DEF w
<1>4. IsConcatenation(T, s, u, w)
  BY <1>1, <1>2, <1>3 DEF IsConcatenation
<1>5. QED
  BY <1>4 DEF w

\* What the two loops do to the groups.
LastIs(g, x) == Front(g) \o <<x>>
TwoFor(g, l, p, q) == SubSeq(g, 1, l - 1) \o <<p, q>> \o SubSeq(g, l + 1, Len(g))

\* A list with its last member replaced, index by index.
LEMMA JoinedRun ==
    ASSUME NEW T, NEW g \in Seq(T), NEW x \in T, g # <<>>
    PROVE  /\ LastIs(g, x) \in Seq(T) /\ Len(LastIs(g, x)) = Len(g)
           /\ LastIs(g, x)[Len(g)] = x
           /\ \A k \in 1..(Len(g) - 1) : LastIs(g, x)[k] = g[k]
<1> DEFINE f == SubSeq(g, 1, Len(g) - 1)
           h == f \o <<x>>
<1>1. Len(g) \in Nat /\ 1 <= Len(g)
  OBVIOUS
<1>2. \A k \in 1..(Len(g) - 1) : g[k] \in T
  OBVIOUS
<1>3. f \in Seq(T) /\ Len(f) = Len(g) - 1 /\ \A k \in 1..(Len(g) - 1) : f[k] = g[k]
  <2> DEFINE m == Len(g) - 1
  <2>1. m \in Nat /\ m <= Len(g) /\ \A k \in 1..m : g[k] \in T
    BY <1>1, <1>2
  <2> HIDE DEF m
  <2>2. SubSeq(g, 1, m) \in Seq(T)
    BY <2>1
  <2>3. Len(SubSeq(g, 1, m)) = m /\ \A k \in 1..m : SubSeq(g, 1, m)[k] = g[k]
    BY <2>1
  <2>4. QED
    BY <2>2, <2>3 DEF m
<1> HIDE DEF f
<1>4. h \in Seq(T) /\ Len(h) = Len(g) /\ h[Len(g)] = x
  BY <1>1, <1>3
<1>5. \A k \in 1..(Len(g) - 1) : h[k] = f[k]
  BY <1>1, <1>3
<1>6. QED
  BY <1>3, <1>4, <1>5 DEF LastIs, Front, f

IsTwoFor(T, h, g, l, p, q) ==
    /\ h \in Seq(T) /\ Len(h) = Len(g) + 1 /\ h[l] = p /\ h[l + 1] = q
    /\ \A k \in 1..(l - 1) : h[k] = g[k]
    /\ \A k \in (l + 2)..(Len(g) + 1) : h[k] = g[k - 1]

\* A list with one member replaced by two, index by index.
LEMMA HalvedRun ==
    ASSUME NEW T, NEW g \in Seq(T), NEW l \in 1..Len(g), NEW p \in T, NEW q \in T
    PROVE  IsTwoFor(T, TwoFor(g, l, p, q), g, l, p, q)
<1> DEFINE left == SubSeq(g, 1, l - 1)
           right == SubSeq(g, l + 1, Len(g))
           n == Len(g)
<1>1. n \in Nat /\ l \in Nat /\ 1 <= l /\ l <= n
  OBVIOUS
<1>2. left \in Seq(T) /\ Len(left) = l - 1 /\ \A k \in 1..(l - 1) : left[k] = g[k]
  OBVIOUS
<1>3. right \in Seq(T) /\ Len(right) = n - l /\ \A k \in 1..(n - l) : right[k] = g[k + l]
  OBVIOUS
<1> HIDE DEF left, right, n
<1> DEFINE m == left \o <<p, q>>
<1>4. /\ m \in Seq(T) /\ Len(m) = l + 1 /\ m[l] = p /\ m[l + 1] = q
      /\ \A k \in 1..(l - 1) : m[k] = left[k]
  <2>1. <<p, q>> \in Seq(T) /\ Len(<<p, q>>) = 2
    OBVIOUS
  <2>2. m \in Seq(T) /\ Len(m) = l + 1
    BY <1>1, <1>2, <2>1
  <2>3. \A k \in 1..(l - 1) : m[k] = left[k]
    BY <1>1, <1>2
  <2>4. m[l] = p /\ m[l + 1] = q
    BY <1>1, <1>2
  <2>5. QED
    BY <2>2, <2>3, <2>4
<1> HIDE DEF m
<1> DEFINE h == m \o right
<1>a. /\ h \in Seq(T) /\ Len(h) = Len(m) + Len(right)
      /\ \A k \in 1..Len(m) : h[k] = m[k]
      /\ \A k \in 1..Len(right) : h[Len(m) + k] = right[k]
  <2>1. IsConcatenation(T, m, right, h)
    BY <1>3, <1>4, ConcatenationIs
  <2> HIDE DEF h
  <2>2. QED
    BY <2>1 DEF IsConcatenation
<1> HIDE DEF h
<1>5. h \in Seq(T) /\ Len(h) = n + 1
  <2>1. (l + 1) + (n - l) = n + 1
    BY <1>1
  <2>2. QED
    BY <1>3, <1>4, <1>a, <2>1
<1>6. \A k \in 1..(l + 1) : h[k] = m[k]
  BY <1>4, <1>a
<1>7. ASSUME NEW k \in (l + 2)..(n + 1) PROVE h[k] = g[k - 1]
  <2>1. k - (l + 1) \in 1..(n - l) /\ (l + 1) + (k - (l + 1)) = k
    BY <1>1
  <2>2. h[k] = right[k - (l + 1)]
    BY <1>3, <1>4, <1>a, <2>1
  <2>3. k - (l + 1) + l = k - 1
    BY <1>1
  <2>4. QED
    BY <1>3, <2>1, <2>2, <2>3
<1>8. h[l] = p /\ h[l + 1] = q /\ \A k \in 1..(l - 1) : h[k] = g[k]
  BY <1>1, <1>2, <1>4, <1>6
<1>9. QED
  BY <1>5, <1>7, <1>8 DEF IsTwoFor, TwoFor, h, m, left, right, n

\* A text that joins the last group moves that group's end.
LEMMA TextJoins ==
    ASSUME NEW a \in Seq(Nat), NEW g, NEW e, Ends(a, g, e), Greedy(a, Len(g), e),
           g # <<>>, e[Len(g)] < Len(a),
           Rendered(Append(Last(g), a[e[Len(g)] + 1])) <= MaxLength
    PROVE  LET h == LastIs(g, Append(Last(g), a[e[Len(g)] + 1]))
           IN  /\ Len(h) = Len(g)
               /\ \E d : /\ Ends(a, h, d) /\ Greedy(a, Len(h), d)
                         /\ d[Len(h)] = e[Len(g)] + 1
<1> DEFINE n == Len(g)
           x == a[e[n] + 1]
           last == Append(Last(g), x)
           h == LastIs(g, last)
<1>1. /\ Len(a) \in Nat /\ n \in Nat /\ n \in 1..n /\ n - 1 \in 0..n /\ n \in 0..n
      /\ g \in Seq(Seq(Nat)) /\ e[0] = 0
      /\ e \in [0..n -> 0..Len(a)] /\ \A k \in 1..n : e[k - 1] < e[k]
      /\ \A k \in 1..n : g[k] = SubSeq(a, e[k - 1] + 1, e[k]) /\ Rendered(g[k]) <= MaxLength
  BY DEF Ends, Rises
<1>2. /\ e[n - 1] \in 0..Len(a) /\ e[n] \in 0..Len(a) /\ e[n - 1] < e[n]
      /\ e[n] < Len(a) /\ Last(g) = SubSeq(a, e[n - 1] + 1, e[n])
  BY <1>1 DEF Last
<1> DEFINE i == e[n - 1] + 1
           j == e[n]
<1>3. last = SubSeq(a, i, j + 1) /\ last \in Seq(Nat)
  <2>1. i \in Nat /\ j \in Nat /\ 1 <= i /\ i <= j + 1 /\ j + 1 <= Len(a)
    <3> DEFINE p == e[n - 1]
    <3>1. p \in Nat /\ j \in Nat /\ p < j /\ j < Len(a) /\ i = p + 1
      BY <1>2
    <3> HIDE DEF i, j, p
    <3>2. QED
      BY <1>1, <3>1
  <2> HIDE DEF i, j
  <2>2. /\ SubSeq(a, i, j) \in Seq(Nat) /\ a[j + 1] \in Nat
        /\ SubSeq(a, i, j + 1) = Append(SubSeq(a, i, j), a[j + 1])
    BY <2>1, RunGrows
  <2>3. last = Append(SubSeq(a, i, j), a[j + 1])
    BY <1>2 DEF i, j
  <2>4. Append(SubSeq(a, i, j), a[j + 1]) \in Seq(Nat)
    BY <2>2
  <2>5. QED
    BY <2>2, <2>3, <2>4
<1>4. Rendered(last) <= MaxLength
  OBVIOUS
<1>5. /\ h \in Seq(Seq(Nat)) /\ Len(h) = n /\ h[n] = last
      /\ \A k \in 1..(n - 1) : h[k] = g[k]
  <2> DEFINE T == Seq(Nat)
  <2>1. last \in T /\ g \in Seq(T)
    BY <1>1, <1>3
  <2> HIDE DEF last, T
  <2>2. /\ h \in Seq(T) /\ Len(h) = n /\ h[n] = last
        /\ \A k \in 1..(n - 1) : h[k] = g[k]
    BY <2>1, JoinedRun
  <2>3. QED
    BY <2>2 DEF T
<1> HIDE DEF h, last
<1> DEFINE d == [k \in 0..n |-> IF k = n THEN e[n] + 1 ELSE e[k]]
<1>6. d[n] = e[n] + 1 /\ \A k \in 0..n : k # n => d[k] = e[k]
  BY <1>1
<1>7. d \in [0..n -> 0..Len(a)]
  <2>0. e[n] + 1 \in 0..Len(a)
    <3> HIDE DEF j, n
    <3>1. j \in Nat /\ j < Len(a)
      BY <1>2 DEF j
    <3>2. j + 1 \in 0..Len(a)
      BY <1>1, <3>1
    <3>3. QED
      BY <3>2 DEF j
  <2>1. e[n] + 1 \in 0..Len(a) /\ \A k \in 0..n : e[k] \in 0..Len(a)
    BY <1>1, <2>0
  <2>2. QED
    BY <2>1
<1> HIDE DEF d, n
<1>8. d[0] = 0
  <2>1. 0 \in 0..n /\ 0 # n
    BY <1>1
  <2>2. QED
    BY <1>1, <1>6, <2>1
<1>9. ASSUME NEW k \in 1..n
      PROVE  /\ d[k - 1] < d[k]
             /\ h[k] = SubSeq(a, d[k - 1] + 1, d[k]) /\ Rendered(h[k]) <= MaxLength
  <2>1. k - 1 \in 0..n /\ k \in 0..n /\ k - 1 # n
    BY <1>1
  <2>2. d[k - 1] = e[k - 1]
    BY <1>6, <2>1
  <2>3. CASE k = n
    <3>1. e[n - 1] < e[n] + 1
      BY <1>2
    <3>2. d[k - 1] = e[n - 1] /\ d[k] = e[n] + 1 /\ h[k] = last
      BY <1>5, <1>6, <2>2, <2>3
    <3>3. QED
      BY <1>3, <1>4, <3>1, <3>2
  <2>4. CASE k # n
    <3>1. d[k] = e[k] /\ k \in 1..(n - 1)
      BY <1>1, <1>6, <2>1, <2>4
    <3>2. h[k] = g[k]
      BY <1>5, <3>1
    <3>3. QED
      BY <1>1, <2>2, <3>1, <3>2
  <2>5. QED
    BY <2>3, <2>4
<1>10. Ends(a, h, d)
  BY <1>5, <1>7, <1>8, <1>9 DEF Ends, Rises
<1>11. Greedy(a, n, d)
  <2> SUFFICES ASSUME NEW k \in 1..(n - 1)
               PROVE  ~(Rendered(SubSeq(a, d[k - 1] + 1, d[k] + 1)) <= MaxLength)
    BY DEF Greedy
  <2>1. k - 1 \in 0..n /\ k \in 0..n /\ k - 1 # n /\ k # n
    BY <1>1
  <2>2. d[k - 1] = e[k - 1] /\ d[k] = e[k]
    BY <1>6, <2>1
  <2>3. ~(Rendered(SubSeq(a, e[k - 1] + 1, e[k] + 1)) <= MaxLength)
    BY DEF Greedy, n
  <2>4. QED
    BY <2>2, <2>3
<1>12. Len(h) = n
  BY <1>5
<1>13. QED
  BY <1>6, <1>10, <1>11, <1>12 DEF h, last, n

\* A text that does not join starts a group of its own, and the last one is done.
LEMMA TextStarts ==
    ASSUME NEW a \in Seq(Nat), NEW g, NEW e, Ends(a, g, e), Greedy(a, Len(g), e),
           e[Len(g)] < Len(a), a[e[Len(g)] + 1] <= MaxLength,
           g # <<>> => ~(Rendered(Append(Last(g), a[e[Len(g)] + 1])) <= MaxLength)
    PROVE  LET h == Append(g, <<a[e[Len(g)] + 1]>>)
           IN  /\ Len(h) = Len(g) + 1
               /\ \E d : /\ Ends(a, h, d) /\ Greedy(a, Len(h), d)
                         /\ d[Len(h)] = e[Len(g)] + 1
<1> DEFINE n == Len(g)
           x == a[e[n] + 1]
           h == Append(g, <<x>>)
<1>1. /\ Len(a) \in Nat /\ n \in Nat /\ n \in 0..n
      /\ g \in Seq(Seq(Nat)) /\ e[0] = 0
      /\ e \in [0..n -> 0..Len(a)] /\ \A k \in 1..n : e[k - 1] < e[k]
      /\ \A k \in 1..n : g[k] = SubSeq(a, e[k - 1] + 1, e[k]) /\ Rendered(g[k]) <= MaxLength
  BY DEF Ends, Rises
<1>2. e[n] \in 0..Len(a) /\ e[n] < Len(a) /\ e[n] + 1 \in 0..Len(a) /\ e[n] \in Nat
  <2>1. e[n] \in 0..Len(a)
    BY <1>1
  <2>2. e[n] < Len(a)
    OBVIOUS
  <2> HIDE DEF n
  <2>3. QED
    BY <1>1, <2>1, <2>2
<1>3. x \in Nat /\ <<x>> = SubSeq(a, e[n] + 1, e[n] + 1) /\ Rendered(<<x>>) <= MaxLength
  <2> DEFINE j == e[n] + 1
  <2>1. j \in 1..Len(a) /\ a[j] <= MaxLength
    BY <1>1, <1>2
  <2> HIDE DEF j
  <2>2. a[j] \in Nat /\ <<a[j]>> = SubSeq(a, j, j)
    BY <2>1
  <2>3. Rendered(<<a[j]>>) = a[j]
    BY DEF Rendered
  <2>4. QED
    BY <2>1, <2>2, <2>3 DEF j
<1>4. /\ h \in Seq(Seq(Nat)) /\ Len(h) = n + 1 /\ h[n + 1] = <<x>>
      /\ \A k \in 1..n : h[k] = g[k]
  <2> DEFINE T == Seq(Nat)
             y == <<x>>
  <2>1. g \in Seq(T) /\ y \in T /\ n = Len(g) /\ h = Append(g, y)
    BY <1>1, <1>3
  <2> HIDE DEF T, y, n, h
  <2>2. h \in Seq(T) /\ Len(h) = n + 1 /\ h[n + 1] = y /\ \A k \in 1..n : h[k] = g[k]
    BY <2>1
  <2>3. QED
    BY <2>2 DEF T, y
<1> HIDE DEF h
<1> DEFINE d == [k \in 0..(n + 1) |-> IF k = n + 1 THEN e[n] + 1 ELSE e[k]]
<1>5. d[n + 1] = e[n] + 1 /\ \A k \in 0..n : d[k] = e[k]
  BY <1>1
<1>6. d \in [0..(n + 1) -> 0..Len(a)]
  <2>1. e[n] + 1 \in 0..Len(a) /\ \A k \in 0..n : e[k] \in 0..Len(a)
    BY <1>1, <1>2
  <2>2. \A k \in 0..(n + 1) : k = n + 1 \/ k \in 0..n
    BY <1>1
  <2>3. QED
    BY <2>1, <2>2
<1> HIDE DEF d, n, x
<1>7. d[0] = 0
  <2>1. 0 \in 0..n
    BY <1>1
  <2>2. QED
    BY <1>1, <1>5, <2>1
<1>8. ASSUME NEW k \in 1..(n + 1)
      PROVE  /\ d[k - 1] < d[k]
             /\ h[k] = SubSeq(a, d[k - 1] + 1, d[k]) /\ Rendered(h[k]) <= MaxLength
  <2>1. k - 1 \in 0..n
    BY <1>1
  <2>2. d[k - 1] = e[k - 1]
    BY <1>5, <2>1
  <2>3. CASE k = n + 1
    <3>1. e[n] < e[n] + 1
      BY <1>2
    <3>2. k - 1 = n
      BY <1>1, <2>3
    <3>3. d[k - 1] = e[n] /\ d[k] = e[n] + 1 /\ h[k] = <<x>>
      BY <1>4, <1>5, <2>2, <2>3, <3>2
    <3>4. QED
      BY <1>3, <3>1, <3>3
  <2>4. CASE k # n + 1
    <3>1. k \in 1..n /\ k \in 0..n
      BY <1>1, <2>4
    <3>2. h[k] = g[k] /\ d[k] = e[k]
      BY <1>4, <1>5, <3>1
    <3>3. QED
      BY <1>1, <2>2, <3>1, <3>2
  <2>5. QED
    BY <2>3, <2>4
<1>9. Ends(a, h, d)
  BY <1>4, <1>6, <1>7, <1>8 DEF Ends, Rises
<1>10. Greedy(a, n + 1, d)
  <2> SUFFICES ASSUME NEW k \in 1..n
               PROVE  ~(Rendered(SubSeq(a, d[k - 1] + 1, d[k] + 1)) <= MaxLength)
    <3>1. (n + 1) - 1 = n
      BY <1>1
    <3>2. QED
      BY <3>1 DEF Greedy
  <2>1. k - 1 \in 0..n /\ k \in 0..n
    BY <1>1
  <2>2. d[k - 1] = e[k - 1] /\ d[k] = e[k]
    BY <1>5, <2>1
  <2>3. CASE k = n
    <3> DEFINE i == e[n - 1] + 1
               j == e[n]
    <3>1. n \in 1..n /\ n - 1 \in 0..n
      BY <1>1, <2>3
    <3>2. e[n - 1] < e[n] /\ e[n - 1] \in 0..Len(a) /\ g[n] = SubSeq(a, i, j)
      BY <1>1, <3>1
    <3>3. g # <<>> /\ Last(g) = g[n]
      <4>1. Len(g) # 0
        BY <3>1 DEF n
      <4>2. QED
        BY <4>1 DEF Last, n
    <3>4. i \in Nat /\ j \in Nat /\ 1 <= i /\ i <= j + 1 /\ j + 1 <= Len(a)
      <4> DEFINE p == e[n - 1]
                 q == e[n]
      <4>1. p \in Nat /\ q \in Nat /\ p < q /\ q < Len(a) /\ Len(a) \in Nat
        BY <1>1, <1>2, <3>2
      <4> HIDE DEF p, q
      <4>2. p + 1 \in Nat /\ 1 <= p + 1 /\ p + 1 <= q + 1 /\ q + 1 <= Len(a)
        BY <4>1
      <4>3. QED
        BY <4>1, <4>2 DEF p, q
    <3>5. ~(Rendered(Append(SubSeq(a, i, j), a[j + 1])) <= MaxLength)
      BY <3>2, <3>3 DEF n
    <3> HIDE DEF i, j
    <3>6. SubSeq(a, i, j + 1) = Append(SubSeq(a, i, j), a[j + 1])
      BY <3>4, RunGrows
    <3>7. ~(Rendered(SubSeq(a, i, j + 1)) <= MaxLength)
      BY <3>5, <3>6
    <3>8. QED
      BY <2>2, <2>3, <3>7 DEF i, j
  <2>4. CASE k # n
    <3>1. k \in 1..(n - 1)
      BY <1>1, <2>4
    <3>2. ~(Rendered(SubSeq(a, e[k - 1] + 1, e[k] + 1)) <= MaxLength)
      BY <3>1 DEF Greedy, n
    <3>3. QED
      BY <2>2, <3>2
  <2>5. QED
    BY <2>3, <2>4
<1>11. /\ Len(h) = n + 1
       /\ Ends(a, h, d) /\ Greedy(a, Len(h), d) /\ d[Len(h)] = e[n] + 1
  BY <1>4, <1>5, <1>9, <1>10
<1>12. QED
  BY <1>11 DEF h, x, n

IsPart(s, i, j, r) ==
    /\ r \in Seq(Nat) /\ Len(r) = j - i + 1
    /\ \A k \in 1..(j - i + 1) : r[k] = s[i + k - 1]

\* A part of a list, index by index.
LEMMA PartIs ==
    ASSUME NEW s \in Seq(Nat), NEW i \in Nat, NEW j \in Nat, 1 <= i, i <= j, j <= Len(s)
    PROVE  IsPart(s, i, j, SubSeq(s, i, j))
<1>1. \A k \in i..j : s[k] \in Nat
  OBVIOUS
<1>2. SubSeq(s, i, j) \in Seq(Nat)
  BY <1>1
<1>3. Len(SubSeq(s, i, j)) = j - i + 1
  OBVIOUS
<1>4. \A k \in 1..(j - i + 1) : SubSeq(s, i, j)[k] = s[i + k - 1]
  OBVIOUS
<1>5. QED
  BY <1>2, <1>3, <1>4 DEF IsPart

\* A part of a run is a run.
LEMMA PartOfRun ==
    ASSUME NEW a \in Seq(Nat), NEW i \in Nat, NEW j \in Nat, NEW p \in Nat, NEW q \in Nat,
           1 <= i, j <= Len(a), 1 <= p, p <= q, i + q - 1 <= j
    PROVE  /\ SubSeq(SubSeq(a, i, j), p, q) = SubSeq(a, i + p - 1, i + q - 1)
           /\ SubSeq(a, i + p - 1, i + q - 1) \in Seq(Nat)
<1> DEFINE s == SubSeq(a, i, j)
           u == SubSeq(s, p, q)
           v == SubSeq(a, i + p - 1, i + q - 1)
<1>1. Len(a) \in Nat /\ i <= j
  OBVIOUS
<1>3. s \in Seq(Nat) /\ Len(s) = j - i + 1 /\ \A k \in 1..(j - i + 1) : s[k] = a[i + k - 1]
  BY <1>1, PartIs DEF IsPart
<1> HIDE DEF s
<1>4. u \in Seq(Nat) /\ Len(u) = q - p + 1 /\ \A k \in 1..(q - p + 1) : u[k] = s[p + k - 1]
  <2>1. q <= Len(s)
    BY <1>1, <1>3
  <2>2. IsPart(s, p, q, u)
    BY <1>3, <2>1, PartIs
  <2>3. QED
    BY <2>2 DEF IsPart
<1>5. /\ v \in Seq(Nat) /\ Len(v) = q - p + 1
      /\ \A k \in 1..(q - p + 1) : v[k] = a[i + p - 1 + k - 1]
  <2> DEFINE b == i + p - 1
             c == i + q - 1
  <2>1. b \in Nat /\ c \in Nat /\ 1 <= b /\ b <= c /\ c <= Len(a) /\ c - b = q - p
    BY <1>1
  <2> HIDE DEF b, c
  <2>2. IsPart(a, b, c, SubSeq(a, b, c))
    BY <2>1, PartIs
  <2>3. /\ SubSeq(a, b, c) \in Seq(Nat) /\ Len(SubSeq(a, b, c)) = c - b + 1
        /\ \A k \in 1..(c - b + 1) : SubSeq(a, b, c)[k] = a[b + k - 1]
    BY <2>2 DEF IsPart
  <2>4. QED
    BY <2>1, <2>3 DEF b, c
<1> HIDE DEF u, v
<1>6. ASSUME NEW k \in 1..(q - p + 1) PROVE u[k] = v[k]
  <2>1. p + k - 1 \in 1..(j - i + 1) /\ i + (p + k - 1) - 1 = i + p - 1 + k - 1
    BY <1>1
  <2>2. u[k] = s[p + k - 1] /\ v[k] = a[i + p - 1 + k - 1]
    BY <1>4, <1>5
  <2>3. s[p + k - 1] = a[i + (p + k - 1) - 1]
    BY <1>3, <2>1
  <2>4. QED
    BY <2>1, <2>2, <2>3
<1>7. u = v
  <2>1. Len(u) = Len(v) /\ \A k \in 1..Len(v) : u[k] = v[k]
    BY <1>4, <1>5, <1>6
  <2>2. u \in Seq(Nat) /\ v \in Seq(Nat)
    BY <1>4, <1>5
  <2>3. QED
    BY <2>1, <2>2, SameLists
<1>8. QED
  BY <1>5, <1>7 DEF u, v, s

\* A group of two texts or more is halved.
LEMMA GroupSplits ==
    ASSUME NEW a \in Seq(Nat), NEW g, NEW e, Ends(a, g, e),
           NEW l \in 1..Len(g), 2 <= Len(g[l])
    PROVE  LET h == TwoFor(g, l, Halves(g[l])[1], Halves(g[l])[2])
           IN  /\ Len(h) = Len(g) + 1
               /\ \E d : Ends(a, h, d) /\ d[Len(h)] = e[Len(g)]
<1> DEFINE n == Len(g)
           p == Halves(g[l])[1]
           q == Halves(g[l])[2]
           h == TwoFor(g, l, p, q)
           low == e[l - 1]
           high == e[l]
           mid == (high - low + 1) \div 2
<1>1. /\ Len(a) \in Nat /\ n \in Nat /\ n \in 0..n
      /\ g \in Seq(Seq(Nat)) /\ e[0] = 0
      /\ e \in [0..n -> 0..Len(a)] /\ \A k \in 1..n : e[k - 1] < e[k]
      /\ \A k \in 1..n : g[k] = SubSeq(a, e[k - 1] + 1, e[k]) /\ Rendered(g[k]) <= MaxLength
  BY DEF Ends, Rises
<1>2. l \in 1..n /\ l - 1 \in 0..n /\ l \in 0..n /\ l \in Nat
  BY <1>1
<1>3. low \in Nat /\ high \in Nat /\ low < high /\ high <= Len(a)
  <2>1. low \in 0..Len(a) /\ high \in 0..Len(a)
    BY <1>1, <1>2
  <2>2. low < high
    BY <1>1, <1>2
  <2> HIDE DEF low, high
  <2>3. QED
    BY <1>1, <2>1, <2>2
<1>4. g[l] = SubSeq(a, low + 1, high) /\ Rendered(g[l]) <= MaxLength
  BY <1>1, <1>2
<1> HIDE DEF low, high, n
<1>5. Len(g[l]) = high - low
  BY <1>1, <1>3, <1>4
<1>6. mid \in Nat /\ 1 <= mid /\ mid < high - low
  BY <1>3, <1>5
<1>7. /\ p = SubSeq(g[l], 1, mid)
      /\ q = SubSeq(g[l], mid + 1, high - low)
  BY <1>5 DEF Halves
<1> HIDE DEF mid, p, q
<1>8. /\ p = SubSeq(a, low + 1, low + mid) /\ p \in Seq(Nat)
      /\ Rendered(p) <= MaxLength
  <2> DEFINE i == low + 1
             j == low + mid
  <2>1. /\ i \in Nat /\ 1 <= i /\ high <= Len(a) /\ i + mid - 1 <= high
        /\ i + 1 - 1 = i /\ i + mid - 1 = j /\ 1 \in Nat
    BY <1>1, <1>3, <1>6
  <2>2. j \in Nat /\ i <= j /\ j <= high /\ i <= i
    BY <1>3, <1>6
  <2> HIDE DEF i, j
  <2>3. /\ SubSeq(SubSeq(a, i, high), 1, mid) = SubSeq(a, i + 1 - 1, i + mid - 1)
        /\ SubSeq(a, i + 1 - 1, i + mid - 1) \in Seq(Nat)
    BY <1>3, <1>6, <2>1, PartOfRun
  <2>4. Rendered(SubSeq(a, i, j)) <= Rendered(SubSeq(a, i, high)) /\ Rendered(SubSeq(a, i, j)) \in Nat
        /\ Rendered(SubSeq(a, i, high)) \in Nat
    BY <1>3, <2>1, <2>2, PartsFit
  <2>5. g[l] = SubSeq(a, i, high)
    BY <1>4 DEF i
  <2>6. p = SubSeq(a, i, j) /\ p \in Seq(Nat)
    BY <1>7, <2>1, <2>3, <2>5
  <2>7. Rendered(p) <= MaxLength
    <3>1. MaxLength \in Nat
      BY ListsAssumption
    <3>2. Rendered(SubSeq(a, i, high)) <= MaxLength
      BY <1>4, <2>5
    <3> DEFINE r == Rendered(SubSeq(a, i, j))
               r0 == Rendered(SubSeq(a, i, high))
    <3>3. r <= r0 /\ r \in Nat /\ r0 \in Nat /\ r0 <= MaxLength
      BY <2>4, <3>2
    <3> HIDE DEF r, r0
    <3>4. r <= MaxLength
      BY <3>1, <3>3
    <3>5. QED
      BY <2>6, <3>4 DEF r
  <2>8. QED
    BY <2>6, <2>7 DEF i, j
<1>9. /\ q = SubSeq(a, low + mid + 1, high) /\ q \in Seq(Nat)
      /\ Rendered(q) <= MaxLength
  <2> DEFINE i == low + 1
             m == low + mid + 1
             b == mid + 1
             c == high - low
  <2>1. /\ i \in Nat /\ 1 <= i /\ i + c - 1 <= high
        /\ i + b - 1 = m /\ i + c - 1 = high
    BY <1>1, <1>3, <1>6
  <2>2. m \in Nat /\ i <= m /\ m <= high /\ b \in Nat /\ c \in Nat /\ 1 <= b /\ b <= c /\ high <= high
    BY <1>3, <1>6
  <2> HIDE DEF i, m, b, c
  <2>3. /\ SubSeq(SubSeq(a, i, high), b, c) = SubSeq(a, i + b - 1, i + c - 1)
        /\ SubSeq(a, i + b - 1, i + c - 1) \in Seq(Nat)
    BY <1>3, <2>1, <2>2, PartOfRun
  <2>4. Rendered(SubSeq(a, m, high)) <= Rendered(SubSeq(a, i, high)) /\ Rendered(SubSeq(a, m, high)) \in Nat
        /\ Rendered(SubSeq(a, i, high)) \in Nat
    BY <1>3, <2>1, <2>2, PartsFit
  <2>5. g[l] = SubSeq(a, i, high)
    BY <1>4 DEF i
  <2>6. q = SubSeq(g[l], b, c)
    BY <1>7 DEF b, c
  <2>7. q = SubSeq(a, m, high) /\ q \in Seq(Nat)
    BY <2>1, <2>3, <2>5, <2>6
  <2>8. Rendered(q) <= MaxLength
    <3>1. MaxLength \in Nat
      BY ListsAssumption
    <3>2. Rendered(SubSeq(a, i, high)) <= MaxLength
      BY <1>4, <2>5
    <3> DEFINE r == Rendered(SubSeq(a, m, high))
               r0 == Rendered(SubSeq(a, i, high))
    <3>3. r <= r0 /\ r \in Nat /\ r0 \in Nat /\ r0 <= MaxLength
      BY <2>4, <3>2
    <3> HIDE DEF r, r0
    <3>4. r <= MaxLength
      BY <3>1, <3>3
    <3>5. QED
      BY <2>7, <3>4 DEF r
  <2>9. QED
    BY <2>7, <2>8 DEF m
<1>10. /\ h \in Seq(Seq(Nat)) /\ Len(h) = n + 1 /\ h[l] = p /\ h[l + 1] = q
       /\ \A k \in 1..(l - 1) : h[k] = g[k]
       /\ \A k \in (l + 2)..(n + 1) : h[k] = g[k - 1]
  <2> DEFINE T == Seq(Nat)
  <2>1. g \in Seq(T) /\ p \in T /\ q \in T /\ l \in 1..Len(g)
    BY <1>1, <1>8, <1>9
  <2> HIDE DEF T, h
  <2>0. h = TwoFor(g, l, p, q)
    BY DEF h
  <2>2. IsTwoFor(T, h, g, l, p, q)
    BY <2>0, <2>1, HalvedRun
  <2>3. QED
    BY <2>2 DEF IsTwoFor, T, n
<1> HIDE DEF h
<1> DEFINE d == [k \in 0..(n + 1) |-> IF k < l THEN e[k] ELSE IF k = l THEN low + mid ELSE e[k - 1]]
<1>11. /\ \A k \in 0..(l - 1) : d[k] = e[k]
       /\ d[l] = low + mid
       /\ \A k \in (l + 1)..(n + 1) : d[k] = e[k - 1]
  <2>1. ASSUME NEW k \in 0..(l - 1) PROVE d[k] = e[k]
    <3>1. k \in 0..(n + 1) /\ k < l
      BY <1>1, <1>2
    <3>2. QED
      BY <3>1
  <2>2. d[l] = low + mid
    <3>1. l \in 0..(n + 1) /\ ~(l < l)
      BY <1>1, <1>2
    <3>2. QED
      BY <3>1
  <2>3. ASSUME NEW k \in (l + 1)..(n + 1) PROVE d[k] = e[k - 1]
    <3>1. k \in 0..(n + 1) /\ ~(k < l) /\ k # l
      BY <1>1, <1>2
    <3>2. QED
      BY <3>1
  <2>4. QED
    BY <2>1, <2>2, <2>3
<1>12. d \in [0..(n + 1) -> 0..Len(a)]
  <2>1. low + mid \in 0..Len(a)
    BY <1>1, <1>3, <1>6
  <2>2. ASSUME NEW k \in 0..(n + 1)
        PROVE  /\ k < l => e[k] \in 0..Len(a)
               /\ ~(k < l) /\ k # l => e[k - 1] \in 0..Len(a)
    <3>1. CASE k < l
      <4>1. k \in 0..n
        BY <1>1, <1>2, <3>1
      <4>2. e[k] \in 0..Len(a)
        BY <1>1, <4>1
      <4>3. QED
        BY <3>1, <4>2
    <3>2. CASE ~(k < l) /\ k # l
      <4>1. k - 1 \in 0..n
        BY <1>1, <1>2, <3>2
      <4>2. e[k - 1] \in 0..Len(a)
        BY <1>1, <4>1
      <4>3. QED
        BY <3>2, <4>2
    <3>3. QED
      BY <1>2, <3>1, <3>2
  <2> HIDE DEF low, mid
  <2>3. QED
    BY <2>1, <2>2
<1> HIDE DEF d
<1>13. d[0] = 0
  <2>1. 0 \in 0..(l - 1)
    BY <1>2
  <2>2. QED
    BY <1>1, <1>11, <2>1
<1>14. ASSUME NEW k \in 1..(n + 1)
       PROVE  /\ d[k - 1] < d[k]
              /\ h[k] = SubSeq(a, d[k - 1] + 1, d[k]) /\ Rendered(h[k]) <= MaxLength
  <2>0. k \in Nat /\ k - 1 \in Nat
    BY <1>1
  <2>1. CASE k < l
    <3>1. k \in 0..(l - 1) /\ k - 1 \in 0..(l - 1) /\ k \in 1..(l - 1) /\ k \in 1..n
      BY <1>1, <1>2, <2>1
    <3>2. d[k] = e[k] /\ d[k - 1] = e[k - 1] /\ h[k] = g[k]
      BY <1>10, <1>11, <3>1
    <3>3. QED
      BY <1>1, <3>1, <3>2
  <2>2. CASE k = l
    <3>1. l - 1 \in 0..(l - 1)
      BY <1>2
    <3>2. d[l - 1] = low /\ d[l] = low + mid /\ h[l] = p
      BY <1>10, <1>11, <3>1 DEF low
    <3>3. low < low + mid
      BY <1>3, <1>6
    <3>4. QED
      BY <1>8, <2>2, <3>2, <3>3
  <2>3. CASE k = l + 1
    <3>1. l + 1 \in (l + 1)..(n + 1) /\ (l + 1) - 1 = l
      BY <1>1, <1>2
    <3>2. d[l] = low + mid /\ d[l + 1] = high /\ h[l + 1] = q
      BY <1>10, <1>11, <3>1 DEF high
    <3>3. low + mid < high
      BY <1>3, <1>6
    <3>4. QED
      BY <1>9, <2>3, <3>1, <3>2, <3>3
  <2>4. CASE l + 1 < k
    <3>1. /\ k \in (l + 2)..(n + 1) /\ k \in (l + 1)..(n + 1) /\ k - 1 \in (l + 1)..(n + 1)
          /\ k - 1 \in 1..n
      BY <1>1, <1>2, <2>4
    <3>2. d[k] = e[k - 1] /\ d[k - 1] = e[(k - 1) - 1] /\ h[k] = g[k - 1]
      BY <1>10, <1>11, <3>1
    <3>3. /\ e[(k - 1) - 1] < e[k - 1] /\ g[k - 1] = SubSeq(a, e[(k - 1) - 1] + 1, e[k - 1])
          /\ Rendered(g[k - 1]) <= MaxLength
      BY <1>1, <3>1
    <3>4. QED
      BY <3>2, <3>3
  <2>5. QED
    BY <1>2, <2>0, <2>1, <2>2, <2>3, <2>4
<1>15. Ends(a, h, d)
  BY <1>10, <1>12, <1>13, <1>14 DEF Ends, Rises
<1>16. d[n + 1] = e[n]
  <2>1. n + 1 \in (l + 1)..(n + 1) /\ (n + 1) - 1 = n
    BY <1>1, <1>2
  <2>2. QED
    BY <1>11, <2>1
<1>17. Len(h) = n + 1 /\ Ends(a, h, d) /\ d[Len(h)] = e[n]
  BY <1>10, <1>15, <1>16
<1>18. QED
  BY <1>17 DEF h, p, q, n

\* Adjacent runs join into one.
LEMMA RunsJoin ==
    ASSUME NEW a \in Seq(Nat), NEW i \in Nat, NEW j \in Nat, i <= j, j <= Len(a)
    PROVE  SubSeq(a, 1, i) \o SubSeq(a, i + 1, j) = SubSeq(a, 1, j)
<1> DEFINE s == SubSeq(a, 1, i)
           t == SubSeq(a, i + 1, j)
           u == SubSeq(a, 1, j)
<1>1. Len(a) \in Nat /\ \A k \in 1..j : a[k] \in Nat
  OBVIOUS
<1>2. s \in Seq(Nat) /\ Len(s) = i /\ \A k \in 1..i : s[k] = a[k]
  BY <1>1
<1>3. t \in Seq(Nat) /\ Len(t) = j - i /\ \A k \in 1..(j - i) : t[k] = a[i + k]
  BY <1>1
<1>4. u \in Seq(Nat) /\ Len(u) = j /\ \A k \in 1..j : u[k] = a[k]
  BY <1>1
<1> HIDE DEF s, t, u
<1> DEFINE w == s \o t
<1>a. /\ w \in Seq(Nat) /\ Len(w) = Len(s) + Len(t)
      /\ \A k \in 1..Len(s) : w[k] = s[k]
      /\ \A k \in 1..Len(t) : w[Len(s) + k] = t[k]
  <2>1. IsConcatenation(Nat, s, t, w)
    BY <1>2, <1>3, ConcatenationIs
  <2> HIDE DEF w
  <2>2. QED
    BY <2>1 DEF IsConcatenation
<1> HIDE DEF w
<1>5. w \in Seq(Nat) /\ Len(w) = j
  <2>1. i + (j - i) = j
    OBVIOUS
  <2>2. QED
    BY <1>2, <1>3, <1>a, <2>1
<1>6. ASSUME NEW k \in 1..j PROVE w[k] = u[k]
  <2>1. CASE k <= i
    <3>1. k \in 1..i
      BY <2>1
    <3>2. w[k] = s[k]
      BY <1>2, <1>a, <3>1
    <3>3. QED
      BY <1>2, <1>4, <3>1, <3>2
  <2>2. CASE i < k
    <3>1. k - i \in 1..(j - i) /\ i + (k - i) = k
      BY <2>2
    <3>2. w[i + (k - i)] = t[k - i]
      BY <1>2, <1>3, <1>a, <3>1
    <3>3. QED
      BY <1>3, <1>4, <3>1, <3>2
  <2>3. k <= i \/ i < k
    OBVIOUS
  <2>4. QED
    BY <2>1, <2>2, <2>3
<1>7. w = u
  <2>1. Len(w) = Len(u) /\ \A k \in 1..Len(u) : w[k] = u[k]
    BY <1>4, <1>5, <1>6
  <2>2. w \in Seq(Nat) /\ u \in Seq(Nat)
    BY <1>4, <1>5
  <2>3. QED
    BY <2>1, <2>2, SameLists
<1>8. QED
  BY <1>7 DEF w, s, t, u

FlattenStep(g, f, k) == IF k = 1 THEN g[k] ELSE f[k - 1] \o g[k]
IsFlatten(g, f) == f = [k \in 1..Len(g) |-> FlattenStep(g, f, k)]

LEMMA FlattenIs ==
    ASSUME NEW g, Len(g) # 0
    PROVE  FlattenSeq(g) = (CHOOSE f : IsFlatten(g, f))[Len(g)]
  BY DEF FlattenSeq, IsFlatten, FlattenStep

\* The groups together are the list.
LEMMA GroupsTogether ==
    ASSUME NEW a \in Seq(Nat), NEW g, NEW e, Ends(a, g, e), e[Len(g)] = Len(a)
    PROVE  FlattenSeq(g) = a
<1> DEFINE n == Len(g)
<1>1. /\ Len(a) \in Nat /\ n \in Nat
      /\ g \in Seq(Seq(Nat)) /\ e[0] = 0
      /\ e \in [0..n -> 0..Len(a)] /\ \A k \in 1..n : e[k - 1] < e[k]
      /\ \A k \in 1..n : g[k] = SubSeq(a, e[k - 1] + 1, e[k])
  BY DEF Ends, Rises
<1>2. CASE n = 0
  <2>1. g = <<>> /\ a = <<>>
    BY <1>1, <1>2
  <2>2. QED
    BY <1>2, <2>1 DEF FlattenSeq
<1>3. CASE n # 0
  <2> HIDE DEF n
  <2> DEFINE F == [k \in 1..n |-> SubSeq(a, 1, e[k])]
  <2>1. ASSUME NEW k \in 1..n PROVE FlattenStep(g, F, k) = SubSeq(a, 1, e[k])
    <3>0. k - 1 \in 0..n /\ k \in 0..n
      BY <1>1
    <3>1. g[k] = SubSeq(a, e[k - 1] + 1, e[k])
      BY <1>1
    <3>2. CASE k = 1
      <4>1. e[k - 1] = 0
        BY <1>1, <3>2
      <4>2. e[k - 1] + 1 = 1
        BY <4>1
      <4>3. QED
        BY <3>1, <3>2, <4>2 DEF FlattenStep
    <3>3. CASE k # 1
      <4> DEFINE i == e[k - 1]
                 j == e[k]
      <4>1. k - 1 \in 1..n
        BY <1>1, <3>3
      <4>2. i \in 0..Len(a) /\ j \in 0..Len(a) /\ i < j
        BY <1>1, <3>0
      <4>3. F[k - 1] = SubSeq(a, 1, i)
        BY <4>1
      <4> HIDE DEF F
      <4>4. FlattenStep(g, F, k) = SubSeq(a, 1, i) \o SubSeq(a, i + 1, j)
        BY <3>1, <3>3, <4>3 DEF FlattenStep
      <4> HIDE DEF i, j
      <4>5. SubSeq(a, 1, i) \o SubSeq(a, i + 1, j) = SubSeq(a, 1, j)
        <5>1. i \in Nat /\ j \in Nat /\ i <= j /\ j <= Len(a)
          BY <1>1, <4>2
        <5>2. QED
          BY <5>1, RunsJoin
      <4>6. QED
        BY <4>4, <4>5 DEF j
    <3>4. QED
      BY <3>2, <3>3
  <2>2. F = [k \in 1..n |-> FlattenStep(g, F, k)]
    BY <2>1
  <2> HIDE DEF F
  <2>3. IsFlatten(g, F)
    BY <2>2 DEF IsFlatten, n
  <2> DEFINE f == CHOOSE f : IsFlatten(g, f)
  <2>4. IsFlatten(g, f)
    BY <2>3
  <2> HIDE DEF f
  <2>5. \A k \in 1..n : f[k] = FlattenStep(g, f, k)
    BY <2>4 DEF IsFlatten, n
  <2>6. \A k \in 1..n : F[k] = FlattenStep(g, F, k)
    BY <2>3 DEF IsFlatten, n
  <2> DEFINE Good == {k \in Nat : k \in 1..n => f[k] = F[k]}
  <2>7. 0 \in Good
    OBVIOUS
  <2>8. ASSUME NEW k \in Good PROVE k + 1 \in Good
    <3> SUFFICES ASSUME k + 1 \in 1..n PROVE f[k + 1] = F[k + 1]
      OBVIOUS
    <3>1. (k + 1) - 1 = k /\ (k + 1 # 1 => k \in 1..n)
      BY <1>1
    <3>2. k + 1 # 1 => f[k] = F[k]
      BY <3>1
    <3>3. FlattenStep(g, f, k + 1) = FlattenStep(g, F, k + 1)
      BY <3>1, <3>2 DEF FlattenStep
    <3>4. QED
      BY <2>5, <2>6, <3>3
  <2>9. Good = Nat
    <3> HIDE DEF Good
    <3>1. Good \subseteq Nat
      BY DEF Good
    <3>2. QED
      BY <2>7, <2>8, <3>1, NatInductionOn
  <2>10. f[n] = F[n] /\ F[n] = SubSeq(a, 1, e[n])
    <3>1. n \in 1..n
      BY <1>1, <1>3
    <3>2. F[n] = SubSeq(a, 1, e[n])
      BY <3>1 DEF F
    <3>3. QED
      BY <2>9, <3>1, <3>2
  <2>11. SubSeq(a, 1, Len(a)) = a
    OBVIOUS
  <2>12. FlattenSeq(g) = f[n]
    BY <1>3, FlattenIs DEF f, n
  <2>13. e[n] = Len(a)
    BY DEF n
  <2>14. QED
    BY <2>10, <2>11, <2>12, <2>13
<1>4. QED
  BY <1>2, <1>3

\* The first of the longest groups.
IsLongest(g, i) ==
    /\ i \in DOMAIN g
    /\ \A j \in DOMAIN g : Len(g[j]) < Len(g[i]) \/ (Len(g[j]) = Len(g[i]) /\ i <= j)

\* Some group is the first of the longest ones.
LEMMA LongestExists ==
    ASSUME NEW g \in Seq(Seq(Nat)), g # <<>>
    PROVE  \E i \in DOMAIN g : IsLongest(g, i)
<1> DEFINE D == DOMAIN g
           lengths == {Len(g[j]) : j \in D}
<1>1. D = 1..Len(g) /\ Len(g) \in Nat /\ D # {} /\ \A j \in D : g[j] \in Seq(Nat)
  <2>1. D = 1..Len(g) /\ Len(g) \in Nat /\ Len(g) # 0
    OBVIOUS
  <2>2. 1 \in D
    BY <2>1
  <2>3. \A j \in D : g[j] \in Seq(Nat)
    OBVIOUS
  <2>4. QED
    BY <2>1, <2>2, <2>3
<1>2. IsFiniteSet(D) /\ D \subseteq Nat
  <2>1. IsFiniteSet(1..Len(g)) /\ 1..Len(g) \subseteq Nat
    BY <1>1, FS_Interval
  <2>2. QED
    BY <1>1, <2>1
<1> HIDE DEF D
<1>3. \A j \in D : Len(g[j]) \in Int
  BY <1>1
<1>4. IsFiniteSet(lengths) /\ lengths # {} /\ lengths \subseteq Int
  <2> DEFINE f == [j \in D |-> Len(g[j])]
  <2>0. f \in Surjection(D, lengths)
    BY DEF Surjection
  <2>1. IsFiniteSet(lengths)
    <3> HIDE DEF f, lengths
    <3> QED
      BY <1>2, <2>0, FS_Surjection
  <2>2. QED
    BY <1>1, <1>3, <2>1
<1>5. PICK m \in lengths : \A x \in lengths : x <= m
  <2> HIDE DEF lengths
  <2> QED
    BY <1>4, GreatestExists
<1> DEFINE best == {j \in D : Len(g[j]) = m}
<1>6. best # {} /\ best \subseteq Nat
  BY <1>2
<1>7. PICK i \in best : \A j \in best : i <= j
  <2> HIDE DEF best
  <2> QED
    BY <1>6, LeastNatural
<1>8. i \in D /\ Len(g[i]) = m
  OBVIOUS
<1>9. ASSUME NEW j \in D PROVE Len(g[j]) < Len(g[i]) \/ (Len(g[j]) = Len(g[i]) /\ i <= j)
  <2>1. Len(g[j]) <= m /\ Len(g[j]) \in Int /\ m \in Int
    BY <1>3, <1>5, <1>8
  <2>2. CASE Len(g[j]) = m
    BY <1>7, <1>8, <2>2
  <2>3. CASE Len(g[j]) # m
    BY <1>8, <2>1, <2>3
  <2>4. QED
    BY <2>2, <2>3
<1>10. QED
  BY <1>8, <1>9 DEF IsLongest, D

\* With fewer groups than texts, the longest group has two texts or more.
LEMMA LongestHasTwo ==
    ASSUME NEW a \in Seq(Nat), NEW g, NEW e, Ends(a, g, e), e[Len(g)] = Len(a), Len(g) < Len(a),
           NEW i, IsLongest(g, i)
    PROVE  i \in 1..Len(g) /\ 2 <= Len(g[i])
<1> DEFINE n == Len(g)
<1>1. /\ Len(a) \in Nat /\ n \in Nat /\ g \in Seq(Seq(Nat)) /\ e[0] = 0
      /\ e \in [0..n -> 0..Len(a)] /\ \A k \in 1..n : e[k - 1] < e[k]
      /\ \A k \in 1..n : g[k] = SubSeq(a, e[k - 1] + 1, e[k])
  BY DEF Ends, Rises
<1>2. DOMAIN g = 1..n
  BY <1>1
<1>3. i \in 1..n /\ \A j \in 1..n : Len(g[j]) <= Len(g[i])
  <2>1. i \in 1..n /\ \A j \in 1..n : Len(g[j]) < Len(g[i]) \/ Len(g[j]) = Len(g[i])
    BY <1>2 DEF IsLongest
  <2>2. \A j \in 1..n : g[j] \in Seq(Nat)
    BY <1>1
  <2>3. \A j \in 1..n : Len(g[j]) \in Nat
    BY <2>2
  <2> HIDE DEF n
  <2>4. QED
    BY <2>1, <2>3
<1> HIDE DEF n
<1>4. ASSUME NEW k \in 1..n PROVE Len(g[k]) = e[k] - e[k - 1] /\ Len(g[k]) \in Nat
  <2> DEFINE p == e[k - 1]
             q == e[k]
  <2>0. k - 1 \in 0..n /\ k \in 0..n
    BY <1>1
  <2>1. p \in 0..Len(a) /\ q \in 0..Len(a) /\ p < q
    BY <1>1, <2>0
  <2>2. g[k] = SubSeq(a, p + 1, q)
    BY <1>1
  <2> HIDE DEF p, q
  <2>3. Len(SubSeq(a, p + 1, q)) = q - p /\ q - p \in Nat
    BY <1>1, <2>1
  <2>4. QED
    BY <2>2, <2>3 DEF p, q
<1>5. SUFFICES ASSUME Len(g[i]) <= 1 PROVE FALSE
  <2>1. Len(g[i]) \in Nat /\ i \in 1..Len(g)
    BY <1>3, <1>4 DEF n
  <2>2. Len(g[i]) <= 1 \/ 2 <= Len(g[i])
    BY <2>1
  <2>3. QED
    BY <2>1, <2>2
<1>6. ASSUME NEW k \in 1..n PROVE e[k] <= e[k - 1] + 1
  <2> DEFINE p == e[k - 1]
             q == e[k]
             m == Len(g[k])
             h == Len(g[i])
  <2>0. k - 1 \in 0..n /\ k \in 0..n
    BY <1>1
  <2>1. p \in 0..Len(a) /\ q \in 0..Len(a)
    BY <1>1, <2>0
  <2>2. m = q - p /\ m <= h /\ h <= 1 /\ h \in Nat
    BY <1>3, <1>4, <1>5
  <2> HIDE DEF p, q, m, h
  <2>3. q <= p + 1
    BY <1>1, <2>1, <2>2
  <2>4. QED
    BY <2>3 DEF p, q
<1> DEFINE Good == {k \in Nat : k \in 0..n => e[k] <= k}
<1>7. 0 \in Good
  BY <1>1
<1>8. ASSUME NEW k \in Good PROVE k + 1 \in Good
  <2> SUFFICES ASSUME k + 1 \in 0..n PROVE e[k + 1] <= k + 1
    OBVIOUS
  <2>1. k \in 0..n /\ k + 1 \in 1..n /\ (k + 1) - 1 = k
    BY <1>1
  <2>2. e[k] <= k /\ e[k + 1] <= e[k] + 1
    BY <1>6, <2>1
  <2>3. e[k] \in 0..Len(a) /\ e[k + 1] \in 0..Len(a)
    BY <1>1, <2>1
  <2>4. QED
    BY <1>1, <2>2, <2>3
<1>9. Good = Nat
  <2> HIDE DEF Good
  <2>1. Good \subseteq Nat
    BY DEF Good
  <2>2. QED
    BY <1>7, <1>8, <2>1, NatInductionOn
<1>10. e[n] <= n
  <2>1. n \in 0..n
    BY <1>1
  <2>2. n \in Good
    <3> HIDE DEF Good
    <3> QED
      BY <1>1, <1>9
  <2>3. QED
    BY <2>1, <2>2
<1>11. e[n] = Len(a) /\ n < Len(a)
  BY DEF n
<1>12. QED
  BY <1>1, <1>10, <1>11

\* The groups so far are greedy, and the rest of the list is still to place.
Placing(a, rest, g) ==
    \E e : /\ Ends(a, g, e) /\ Greedy(a, Len(g), e)
           /\ rest = SubSeq(a, e[Len(g)] + 1, Len(a))

\* The groups are the whole list, and no more than its schema allows.
Halving(a, g) ==
    Len(g) <= MaxTexts /\ \E e : Ends(a, g, e) /\ e[Len(g)] = Len(a)

ListFits(a) ==
    \E cuts \in SUBSET (1..(Len(a) - 1)) : Cardinality(cuts) < MaxTexts /\ RunsFit(a, cuts)

ListsInv ==
    /\ answered \in Seq(Nat)
    /\ listPhase \in {"placing", "splitting", "grouped", "unchanged"}
    /\ listPhase # "unchanged" => Oversized(answered)
    /\ listPhase = "placing" => Placing(answered, toPlace, groups)
    /\ listPhase \in {"splitting", "grouped"} => Halving(answered, groups)
    /\ listPhase = "grouped" => Len(groups) = MaxTexts
    /\ listPhase = "unchanged" /\ Oversized(answered) => ~ListFits(answered)

LEMMA ListFitsIs == SomeGroupingFits <=> ListFits(answered)
  BY DEF SomeGroupingFits, ListFits, RunsFit

\* A text placed, into the last group or one of its own, keeps the greedy placing.
LEMMA PlacedOne ==
    ASSUME NEW a \in Seq(Nat), Oversized(a), NEW rest, NEW g, Placing(a, rest, g), rest # <<>>
    PROVE  Placing(a, Tail(rest), IF g # <<>> /\ Joinable(Last(g), Head(rest))
                                  THEN LastIs(g, Append(Last(g), Head(rest)))
                                  ELSE Append(g, <<Head(rest)>>))
<1>1. PICK e : /\ Ends(a, g, e) /\ Greedy(a, Len(g), e)
               /\ rest = SubSeq(a, e[Len(g)] + 1, Len(a))
  BY DEF Placing
<1> DEFINE n == Len(g)
           x == a[e[n] + 1]
           h == IF g # <<>> /\ Joinable(Last(g), Head(rest))
                THEN LastIs(g, Append(Last(g), Head(rest))) ELSE Append(g, <<Head(rest)>>)
<1>2. Len(a) \in Nat /\ n \in Nat /\ n \in 0..n /\ e \in [0..n -> 0..Len(a)] /\ g \in Seq(Seq(Nat))
  BY <1>1 DEF Ends, Rises
<1>3. e[n] \in 0..Len(a) /\ e[n] \in Nat
  <2>1. e[n] \in 0..Len(a)
    BY <1>2
  <2>2. QED
    BY <2>1
<1>4. e[n] < Len(a)
  <2> SUFFICES ASSUME ~(e[n] < Len(a)) PROVE FALSE
    OBVIOUS
  <2>1. e[n] = Len(a)
    BY <1>2, <1>3
  <2>2. rest = SubSeq(a, Len(a) + 1, Len(a))
    BY <1>1, <2>1
  <2>3. rest = <<>>
    BY <1>2, <2>2
  <2>4. QED
    BY <2>3
<1>5. Head(rest) = x /\ Tail(rest) = SubSeq(a, e[n] + 1 + 1, Len(a))
  <2> DEFINE i == e[n] + 1
  <2>1. i \in 1..Len(a) /\ i \in Nat
    BY <1>2, <1>3, <1>4
  <2>2. rest = SubSeq(a, i, Len(a))
    BY <1>1
  <2> HIDE DEF i
  <2>3. Head(SubSeq(a, i, Len(a))) = a[i]
    BY <2>1
  <2>4. Tail(SubSeq(a, i, Len(a))) = SubSeq(a, i + 1, Len(a))
    BY <2>1
  <2>5. QED
    BY <2>2, <2>3, <2>4 DEF i
<1>6. x <= MaxLength
  <2>1. e[n] + 1 \in DOMAIN a
    BY <1>2, <1>3, <1>4
  <2>2. \A i \in DOMAIN a : a[i] \in 1..MaxLength
    BY DEF Oversized
  <2>3. QED
    BY <2>1, <2>2, ListsAssumption
<1>7. \E d : Ends(a, h, d) /\ Greedy(a, Len(h), d) /\ d[Len(h)] = e[n] + 1
  <2>1. CASE g # <<>> /\ Joinable(Last(g), x)
    <3>1. h = LastIs(g, Append(Last(g), x))
      BY <1>5, <2>1
    <3>2. Rendered(Append(Last(g), x)) <= MaxLength
      BY <2>1 DEF Joinable
    <3>3. \E d : /\ Ends(a, LastIs(g, Append(Last(g), x)), d)
                 /\ Greedy(a, Len(LastIs(g, Append(Last(g), x))), d)
                 /\ d[Len(LastIs(g, Append(Last(g), x)))] = e[n] + 1
      BY <1>1, <1>4, <2>1, <3>2, TextJoins
    <3> HIDE DEF h
    <3>4. QED
      BY <3>1, <3>3
  <2>2. CASE ~(g # <<>> /\ Joinable(Last(g), x))
    <3>1. h = Append(g, <<x>>)
      BY <1>5, <2>2
    <3>2. g # <<>> => ~(Rendered(Append(Last(g), x)) <= MaxLength)
      BY <2>2 DEF Joinable
    <3>3. \E d : /\ Ends(a, Append(g, <<x>>), d)
                 /\ Greedy(a, Len(Append(g, <<x>>)), d)
                 /\ d[Len(Append(g, <<x>>))] = e[n] + 1
      BY <1>1, <1>4, <1>6, <3>2, TextStarts
    <3> HIDE DEF h
    <3>4. QED
      BY <3>1, <3>3
  <2>3. QED
    BY <2>1, <2>2
<1> HIDE DEF h
<1>8. Placing(a, Tail(rest), h)
  BY <1>5, <1>7 DEF Placing
<1>9. QED
  BY <1>8 DEF h

\* With every text placed, the groups either can be halved to the number asked for or
\* no grouping fits.
LEMMA AllPlaced ==
    ASSUME NEW a \in Seq(Nat), Oversized(a), NEW g, Placing(a, <<>>, g)
    PROVE  /\ Len(g) <= MaxTexts => Halving(a, g)
           /\ ~(Len(g) <= MaxTexts) => ~ListFits(a)
<1>1. PICK e : /\ Ends(a, g, e) /\ Greedy(a, Len(g), e)
               /\ <<>> = SubSeq(a, e[Len(g)] + 1, Len(a))
  BY DEF Placing
<1> DEFINE n == Len(g)
<1>2. /\ Len(a) \in Nat /\ n \in Nat /\ n \in 0..n /\ e \in [0..n -> 0..Len(a)]
      /\ MaxTexts \in Nat
  BY <1>1, ListsAssumption DEF Ends, Rises
<1>3. e[n] \in 0..Len(a)
  BY <1>2
<1>4. e[n] = Len(a)
  <2> SUFFICES ASSUME e[n] # Len(a) PROVE FALSE
    OBVIOUS
  <2> DEFINE i == e[n] + 1
  <2>1. i \in 1..Len(a)
    BY <1>2, <1>3
  <2>2. SubSeq(a, i, Len(a)) = <<>>
    BY <1>1
  <2> HIDE DEF i
  <2>3. Len(SubSeq(a, i, Len(a))) = Len(a) - i + 1
    BY <1>2, <2>1
  <2>4. QED
    BY <1>2, <2>1, <2>2, <2>3
<1>5. Len(g) <= MaxTexts => Halving(a, g)
  BY <1>1, <1>4 DEF Halving
<1>6. ASSUME ~(Len(g) <= MaxTexts), ListFits(a) PROVE FALSE
  <2>1. PICK cuts \in SUBSET (1..(Len(a) - 1)) : Cardinality(cuts) < MaxTexts /\ RunsFit(a, cuts)
    BY <1>6 DEF ListFits
  <2>2. Len(g) - 1 <= Cardinality(cuts)
    BY <1>1, <2>1, GreedyIsBest
  <2>3. Cardinality(cuts) \in Nat
    <3>1. IsFiniteSet(1..(Len(a) - 1))
      BY <1>2, FS_Interval
    <3>2. QED
      BY <3>1, FS_Subset, FS_CardinalityType
  <2> DEFINE c == Cardinality(cuts)
  <2>4. c \in Nat /\ c < MaxTexts /\ n - 1 <= c /\ ~(n <= MaxTexts)
    BY <1>6, <2>1, <2>2, <2>3
  <2> HIDE DEF c, n
  <2>5. QED
    BY <1>2, <2>4
<1>7. QED
  BY <1>5, <1>6

\* Halving a longest group keeps the groups a grouping of the whole list.
LEMMA HalvedOne ==
    ASSUME NEW a \in Seq(Nat), Oversized(a), NEW g, Halving(a, g), Len(g) < MaxTexts
    PROVE  LET i == CHOOSE i \in DOMAIN g : IsLongest(g, i)
           IN  Halving(a, TwoFor(g, i, Halves(g[i])[1], Halves(g[i])[2]))
<1>1. PICK e : Ends(a, g, e) /\ e[Len(g)] = Len(a)
  BY DEF Halving
<1>2. /\ Len(a) \in Nat /\ Len(g) \in Nat /\ MaxTexts \in Nat /\ MaxTexts < Len(a)
      /\ g \in Seq(Seq(Nat)) /\ e[0] = 0
  BY <1>1, ListsAssumption DEF Ends, Rises, Oversized
<1>3. Len(g) < Len(a)
  BY <1>2
<1>4. g # <<>>
  <2> SUFFICES ASSUME g = <<>> PROVE FALSE
    OBVIOUS
  <2>1. Len(g) = 0
    OBVIOUS
  <2>2. Len(a) = 0
    BY <1>1, <1>2, <2>1
  <2>3. QED
    BY <1>2, <2>2
<1> DEFINE i == CHOOSE i \in DOMAIN g : IsLongest(g, i)
           h == TwoFor(g, i, Halves(g[i])[1], Halves(g[i])[2])
<1>5. IsLongest(g, i)
  BY <1>2, <1>4, LongestExists
<1> HIDE DEF i
<1>6. i \in 1..Len(g) /\ 2 <= Len(g[i])
  BY <1>1, <1>3, <1>5, LongestHasTwo
<1>7. /\ Len(h) = Len(g) + 1
      /\ \E d : Ends(a, h, d) /\ d[Len(h)] = e[Len(g)]
  BY <1>1, <1>6, GroupSplits
<1> HIDE DEF h
<1>8. Len(h) <= MaxTexts
  BY <1>2, <1>7
<1>9. Halving(a, h)
  BY <1>1, <1>7, <1>8 DEF Halving
<1>10. QED
  BY <1>9 DEF h, i

LEMMA ListsInvInit == ListsInit => ListsInv
<1> SUFFICES ASSUME ListsInit PROVE ListsInv
  OBVIOUS
<1>1. /\ answered \in Seq(Nat) /\ toPlace = answered /\ groups = <<>>
      /\ listPhase = IF Oversized(answered) THEN "placing" ELSE "unchanged"
  BY ListsAssumption DEF ListsInit, ListsStart
<1>2. Placing(answered, toPlace, groups)
  <2> DEFINE a == answered
             g == <<>>
             e == [k \in 0..0 |-> 0]
  <2>1. Len(a) \in Nat /\ Len(g) = 0 /\ g \in Seq(Seq(Nat)) /\ SubSeq(a, 0 + 1, Len(a)) = a
    BY <1>1
  <2>2. e \in [0..0 -> 0..Len(a)] /\ e[0] = 0 /\ 1..0 = {} /\ 1..(0 - 1) = {}
    BY <2>1
  <2> HIDE DEF e, g, a
  <2>3. Ends(a, g, e) /\ Greedy(a, Len(g), e)
    BY <2>1, <2>2 DEF Ends, Rises, Greedy
  <2>4. Placing(a, a, g)
    BY <2>1, <2>2, <2>3 DEF Placing
  <2>5. QED
    BY <1>1, <2>4 DEF a, g
<1>3. QED
  BY <1>1, <1>2 DEF ListsInv

\* Placing a text, halving a group and ending keep the invariant of the lists.
LEMMA ListsInvStep == ListsInv /\ [ListsNext]_listVars => ListsInv'
<1> SUFFICES ASSUME ListsInv, [ListsNext]_listVars PROVE ListsInv'
  OBVIOUS
<1>0. answered \in Seq(Nat)
  BY DEF ListsInv
<1>1. CASE Place
  <2>1. /\ listPhase = "placing" /\ toPlace # <<>> /\ answered' = answered
        /\ listPhase' = listPhase /\ toPlace' = Tail(toPlace)
        /\ groups' = IF groups # <<>> /\ Joinable(Last(groups), Head(toPlace))
                     THEN LastIs(groups, Append(Last(groups), Head(toPlace)))
                     ELSE Append(groups, <<Head(toPlace)>>)
    BY <1>1 DEF Place, LastIs
  <2>2. Oversized(answered) /\ Placing(answered, toPlace, groups)
    BY <2>1 DEF ListsInv
  <2>3. Placing(answered, toPlace', groups')
    BY <1>0, <2>1, <2>2, PlacedOne
  <2>4. QED
    BY <1>0, <2>1, <2>2, <2>3 DEF ListsInv
<1>2. CASE Placed
  <2>1. /\ listPhase = "placing" /\ toPlace = <<>> /\ answered' = answered
        /\ groups' = groups
        /\ listPhase' = IF Len(groups) > MaxTexts THEN "unchanged" ELSE "splitting"
    BY <1>2 DEF Placed
  <2>2. Oversized(answered) /\ Placing(answered, <<>>, groups)
    BY <2>1 DEF ListsInv
  <2>3. Len(groups) \in Nat /\ MaxTexts \in Nat
    BY <2>2, ListsAssumption DEF Placing, Ends
  <2>4. /\ Len(groups) <= MaxTexts => Halving(answered, groups)
        /\ ~(Len(groups) <= MaxTexts) => ~ListFits(answered)
    BY <1>0, <2>2, AllPlaced
  <2>5. CASE Len(groups) > MaxTexts
    <3>1. ~(Len(groups) <= MaxTexts) /\ listPhase' = "unchanged"
      BY <2>1, <2>3, <2>5
    <3>2. QED
      BY <1>0, <2>1, <2>2, <2>4, <3>1 DEF ListsInv
  <2>6. CASE ~(Len(groups) > MaxTexts)
    <3>1. Len(groups) <= MaxTexts /\ listPhase' = "splitting"
      BY <2>1, <2>3, <2>6
    <3>2. QED
      BY <1>0, <2>1, <2>2, <2>4, <3>1 DEF ListsInv
  <2>7. QED
    BY <2>5, <2>6
<1>3. CASE Split
  <2>1. listPhase = "splitting" /\ answered' = answered /\ toPlace' = toPlace
    BY <1>3 DEF Split
  <2>2. Oversized(answered) /\ Halving(answered, groups)
    BY <2>1 DEF ListsInv
  <2>3. CASE Len(groups) < MaxTexts
    <3> DEFINE i == CHOOSE i \in DOMAIN groups : IsLongest(groups, i)
    <3>1. Longest = i
      BY DEF Longest, IsLongest
    <3>2. /\ listPhase' = listPhase
          /\ groups' = TwoFor(groups, Longest, Halves(groups[Longest])[1], Halves(groups[Longest])[2])
      BY <1>3, <2>3 DEF Split, TwoFor, Halves
    <3>3. Halving(answered, TwoFor(groups, i, Halves(groups[i])[1], Halves(groups[i])[2]))
      BY <1>0, <2>2, <2>3, HalvedOne
    <3> HIDE DEF i
    <3>4. Halving(answered, groups')
      BY <3>1, <3>2, <3>3
    <3>5. QED
      BY <1>0, <2>1, <2>2, <3>2, <3>4 DEF ListsInv
  <2>4. CASE ~(Len(groups) < MaxTexts)
    <3>1. listPhase' = "grouped" /\ groups' = groups
      BY <1>3, <2>4 DEF Split
    <3>2. Len(groups) = MaxTexts
      <4>1. Len(groups) \in Nat /\ MaxTexts \in Nat /\ Len(groups) <= MaxTexts
        BY <2>2, ListsAssumption DEF Halving, Ends
      <4>2. QED
        BY <2>4, <4>1
    <3>3. QED
      BY <1>0, <2>1, <2>2, <3>1, <3>2 DEF ListsInv
  <2>5. QED
    BY <2>3, <2>4
<1>4. CASE UNCHANGED listVars
  <2>1. answered' = answered /\ toPlace' = toPlace /\ groups' = groups /\ listPhase' = listPhase
    BY <1>4 DEF listVars
  <2>2. QED
    BY <2>1 DEF ListsInv
<1>5. QED
  BY <1>1, <1>2, <1>3, <1>4 DEF ListsNext

LEMMA ListsInvHolds == ListsSpec => []ListsInv
<1>1. QED
  BY ListsInvInit, ListsInvStep, PTL DEF ListsSpec

\* A report list is grouped without loss: the groups follow one another in the order of
\* the answer, none is empty or too long to be shown, and a list left as it was,
\* to be refused, is one that no grouping fits (group_narrative_lists, report_validation.py).
THEOREM ListsAreGrouped == ListsSpec => []ListsOK
<1>1. ListsInv => ListsOK
  <2> SUFFICES ASSUME ListsInv PROVE ListsOK
    OBVIOUS
  <2>1. ASSUME listPhase = "grouped"
        PROVE  /\ FlattenSeq(groups) = answered /\ Len(groups) = MaxTexts
               /\ \A i \in DOMAIN groups : groups[i] # <<>> /\ Rendered(groups[i]) <= MaxLength
    <3>1. answered \in Seq(Nat) /\ Halving(answered, groups) /\ Len(groups) = MaxTexts
      BY <2>1 DEF ListsInv
    <3>2. PICK e : Ends(answered, groups, e) /\ e[Len(groups)] = Len(answered)
      BY <3>1 DEF Halving
    <3>3. FlattenSeq(groups) = answered
      BY <3>1, <3>2, GroupsTogether
    <3>4. ASSUME NEW i \in DOMAIN groups PROVE groups[i] # <<>> /\ Rendered(groups[i]) <= MaxLength
      <4>1. /\ groups \in Seq(Seq(Nat)) /\ e \in [0..Len(groups) -> 0..Len(answered)]
            /\ \A k \in 1..Len(groups) : e[k - 1] < e[k]
            /\ \A k \in 1..Len(groups) : groups[k] = SubSeq(answered, e[k - 1] + 1, e[k])
                                         /\ Rendered(groups[k]) <= MaxLength
        BY <3>2 DEF Ends, Rises
      <4>2. i \in 1..Len(groups) /\ Len(groups) \in Nat
        BY <4>1
      <4>3. i - 1 \in 0..Len(groups) /\ i \in 0..Len(groups)
        BY <4>2
      <4> DEFINE p == e[i - 1]
                 q == e[i]
      <4>4. p \in 0..Len(answered) /\ q \in 0..Len(answered) /\ p < q
        BY <4>1, <4>2, <4>3
      <4>5. groups[i] = SubSeq(answered, p + 1, q) /\ Rendered(groups[i]) <= MaxLength
        BY <4>1, <4>2
      <4> HIDE DEF p, q
      <4>6. Len(SubSeq(answered, p + 1, q)) = q - p
        BY <3>1, <4>4
      <4>7. SubSeq(answered, p + 1, q) # <<>>
        <5> SUFFICES ASSUME SubSeq(answered, p + 1, q) = <<>> PROVE FALSE
          OBVIOUS
        <5>0. Len(<<>>) = 0
          OBVIOUS
        <5>1. Len(SubSeq(answered, p + 1, q)) = 0
          BY <5>0
        <5>2. QED
          BY <3>1, <4>4, <4>6, <5>1
      <4>8. QED
        BY <4>5, <4>7
    <3>5. QED
      BY <3>1, <3>3, <3>4
  <2>2. listPhase = "unchanged" /\ Oversized(answered) => ~SomeGroupingFits
    BY ListFitsIs DEF ListsInv
  <2>3. QED
    BY <2>1, <2>2 DEF ListsOK
<1>2. QED
  BY <1>1, ListsInvHolds, PTL
=============================================================================
