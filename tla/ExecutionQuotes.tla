--------------------------- MODULE ExecutionQuotes ---------------------------
(***************************************************************************)
(* The order-book collector (services/market-data/src/execution.rs): in a  *)
(* cycle it reads the execution universe (see PaperExperiments), takes a   *)
(* snapshot of each market from the exchange, through a cache of the       *)
(* market's metadata, saves it in its journal and delivers the journal to  *)
(* ClickHouse.  A cycle ends early when a call fails or after 75 seconds,  *)
(* anywhere; the process may stop and start again.                         *)
(*                                                                         *)
(* A snapshot awaits up to three answers: the market's metadata; for a     *)
(* final market its payout, or on Kalshi the fees of its series; and the   *)
(* order book.  The age of the cache is looked at before them, and the     *)
(* times a quote carries are taken after them: meanwhile the clock goes on *)
(* and the market may close.                                               *)
(***************************************************************************)
EXTENDS Integers, FiniteSets

CONSTANTS
    Targeted,         \* markets of the universe
    CacheLife,      \* 60 s
    CycleLife,      \* 75 s
    MaxQuotes, MaxSecond    \* bounds: quotes taken, the clock

ASSUME QuotesAssumption ==
    CacheLife \in Nat \ {0} /\ {CycleLife, MaxQuotes, MaxSecond} \subseteq Nat

VARIABLES
    stage,          \* of each market at its exchange: "active", "closed", "final"
    endedAt,        \* when it left "active"
    seconds,         \* the clock
    todo,           \* targets of the universe left in the cycle
    cycle,          \* "idle", "deliver", "snapshots", "last"
    began,          \* when the cycle did, 0 between cycles
    asked,          \* of the market in work: what it awaits, and the stage it was answered
    cached,         \* metadata held of markets: [stage, payout, at]
    inMemory, onDisk, \* execution_pending: quotes not known to be delivered
    warehouse,      \* execution_quotes
    taken           \* quotes whose save succeeded, for the properties

quoteVars == <<stage, endedAt, seconds, todo, cycle, began, asked, cached, inMemory, onDisk,
               warehouse, taken>>

unmovedWorld == <<stage, endedAt, seconds>>
cycleVars == <<todo, cycle, began, asked, cached>>
journal == <<inMemory, onDisk, warehouse, taken>>

\* The exchange: trading ends, later there is a final outcome.
Advance(m) ==
    /\ stage[m] # "final"
    /\ stage' = [stage EXCEPT ![m] = IF @ = "active" THEN "closed" ELSE "final"]
    /\ endedAt' = IF stage[m] = "active" THEN [endedAt EXCEPT ![m] = seconds] ELSE endedAt
    /\ UNCHANGED seconds /\ UNCHANGED cycleVars /\ UNCHANGED journal

\* The clock; a cycle that has lasted CycleLife has no more of it.
SecondPasses ==
    /\ seconds < MaxSecond /\ seconds' = seconds + 1
    /\ cycle # "idle" => seconds < began + CycleLife
    /\ UNCHANGED <<stage, endedAt>> /\ UNCHANGED cycleVars /\ UNCHANGED journal

\* No snapshot is in work.
Nothing == <<>>

Start ==
    /\ cycle = "idle" /\ cycle' = "deliver" /\ began' = seconds
    /\ UNCHANGED <<todo, asked, cached>> /\ UNCHANGED unmovedWorld /\ UNCHANGED journal

\* What a cycle was about goes with it.
EndCycle == cycle' = "idle" /\ began' = 0 /\ todo' = {} /\ asked' = Nothing

\* What happens after a delivery: the universe is read, the cache keeps its markets.
AfterDelivery(universe) ==
    IF cycle = "last" THEN EndCycle /\ UNCHANGED cached
    ELSE /\ cycle' = "snapshots" /\ todo' = universe /\ UNCHANGED <<began, asked>>
         /\ cached' = [m \in DOMAIN cached \intersect universe |-> cached[m]]

\* Mutant: the journal is emptied before the rows are inserted.
InsertedClearingFirst(rows) ==
    /\ warehouse' \in {warehouse, warehouse \union rows} /\ inMemory' = {}
\* The insert is answered, or it is not, and then the rows may be there or not.
InsertAnswered(rows) ==
    \/ warehouse' = warehouse \union rows /\ inMemory' = {}
    \/ warehouse' \in {warehouse, warehouse \union rows} /\ UNCHANGED inMemory

\* deliver: insert, clear, save, if there is anything; a failed insert or save ends
\* the cycle.
Deliver(universe, saved) ==
    /\ cycle \in {"deliver", "last"}
    /\ IF inMemory = {} THEN UNCHANGED <<inMemory, warehouse>> ELSE InsertAnswered(inMemory)
    /\ onDisk' = IF inMemory # {} /\ inMemory' = {} /\ saved THEN {} ELSE onDisk
    /\ IF inMemory = {} \/ (inMemory' = {} /\ saved) THEN AfterDelivery(universe)
       ELSE EndCycle /\ UNCHANGED cached
    /\ UNCHANGED taken /\ UNCHANGED unmovedWorld

\* Mutant: metadata that is held is never too old.
FreshWhileHeld(m) == m \in DOMAIN cached
Fresh(m) == m \in DOMAIN cached /\ seconds - cached[m].at < CacheLife

Awaits(m, answer) == m \in DOMAIN asked /\ asked[m].awaits = answer
Asks(m, answer, read) == asked' = [k \in {m} |-> [awaits |-> answer, stage |-> read]]

\* A snapshot begins: metadata that is fresh now serves it.
BeginSnapshot(m) ==
    /\ cycle = "snapshots" /\ m \in todo /\ asked = Nothing
    /\ Asks(m, IF Fresh(m) THEN "book" ELSE "market", "unread")
    /\ UNCHANGED <<todo, cycle, began, cached>> /\ UNCHANGED unmovedWorld /\ UNCHANGED journal

\* The exchange answers what the market is.
MarketAnswers(m) ==
    /\ Awaits(m, "market") /\ Asks(m, "details", stage[m])
    /\ UNCHANGED <<todo, cycle, began, cached>> /\ UNCHANGED unmovedWorld /\ UNCHANGED journal

\* polymarket_payout: only a final outcome pays; the order-book host that is asked for
\* it may not answer.
Metadata(read, answered) ==
    [stage |-> read, payout |-> read = "final" /\ answered, at |-> seconds]

\* The other answers are there: the metadata is stamped and held, the book is asked for.
HoldMetadata(m, answered) ==
    /\ Awaits(m, "details")
    /\ cached' = [k \in DOMAIN cached \union {m} |->
                    IF k = m THEN Metadata(asked[m].stage, answered) ELSE cached[k]]
    /\ Asks(m, "book", "unread")
    /\ UNCHANGED <<todo, cycle, began>> /\ UNCHANGED unmovedWorld /\ UNCHANGED journal

Status(data) ==
    IF data.payout THEN "RESOLVED" ELSE IF data.stage = "active" THEN "OPEN" ELSE "CLOSED"

Unused == 1..MaxQuotes \ {quote.id : quote \in inMemory \union onDisk \union warehouse}

\* The book is answered: the quote is made with the metadata held, stamped, pushed, saved.
Snapshot(m, saved) ==
    /\ Awaits(m, "book") /\ Unused # {}
    /\ LET quote == [id |-> CHOOSE n \in Unused : TRUE, market |-> m, status |-> Status(cached[m]),
                     metadata |-> cached[m].at, received |-> seconds]
       IN /\ inMemory' = inMemory \union {quote}
          /\ IF saved
             THEN /\ onDisk' = inMemory' /\ taken' = taken \union {quote}
                  /\ todo' = todo \ {m} /\ asked' = Nothing /\ UNCHANGED <<cycle, began>>
             ELSE EndCycle /\ UNCHANGED <<onDisk, taken>>
    /\ UNCHANGED <<cached, warehouse>> /\ UNCHANGED unmovedWorld

\* An answer of the snapshot is an error, or the exchange is switched off: the next market.
Skip(m) ==
    /\ cycle = "snapshots" /\ m \in todo /\ DOMAIN asked \subseteq {m}
    /\ todo' = todo \ {m} /\ asked' = Nothing
    /\ UNCHANGED <<cycle, began, cached>> /\ UNCHANGED unmovedWorld /\ UNCHANGED journal

Finish ==
    /\ cycle = "snapshots" /\ todo = {} /\ cycle' = "last"
    /\ UNCHANGED <<todo, began, asked, cached>> /\ UNCHANGED unmovedWorld /\ UNCHANGED journal

\* Any other failure, or the timeout: the work is dropped where it waits.
Interrupt ==
    /\ cycle # "idle" /\ EndCycle
    /\ UNCHANGED cached /\ UNCHANGED unmovedWorld /\ UNCHANGED journal

Restart ==
    /\ EndCycle /\ cached' = <<>> /\ inMemory' = onDisk
    /\ UNCHANGED <<onDisk, warehouse, taken>> /\ UNCHANGED unmovedWorld

QuotesInit ==
    /\ stage = [m \in Targeted |-> "active"] /\ endedAt = [m \in Targeted |-> 0] /\ seconds = 0
    /\ todo = {} /\ cycle = "idle" /\ began = 0 /\ asked = Nothing /\ cached = <<>>
    /\ inMemory = {} /\ onDisk = {} /\ warehouse = {} /\ taken = {}

QuotesNext ==
    \/ Start \/ SecondPasses \/ Finish \/ Interrupt \/ Restart
    \/ \E m \in Targeted :
         \/ Advance(m) \/ Skip(m) \/ BeginSnapshot(m) \/ MarketAnswers(m)
         \/ \E ok \in BOOLEAN : HoldMetadata(m, ok) \/ Snapshot(m, ok)
    \/ \E universe \in SUBSET Targeted, saved \in BOOLEAN : Deliver(universe, saved)

QuotesSpec == QuotesInit /\ [][QuotesNext]_quoteVars

-----------------------------------------------------------------------------

\* A quote that was saved is delivered, or still in the journal on disk, whatever
\* fails after it; delivering it again adds nothing.
QuotesAreNotLost == taken \subseteq onDisk \union warehouse

\* A quote tells of the market what was so not long before, however slowly the exchange
\* answers: its metadata was at most CacheLife old when the snapshot began, and is older
\* by the rest of a cycle at most when it is received; it is OPEN only if trading had not
\* ended a cycle before the metadata was stamped, and RESOLVED only if the outcome is
\* final.
QuotesAreTrue ==
    \A quote \in taken :
      /\ quote.received - quote.metadata \in 0..(CacheLife + CycleLife - 1)
      /\ quote.status = "OPEN" =>
           stage[quote.market] = "active" \/ endedAt[quote.market] + CycleLife >= quote.metadata
      /\ quote.status = "RESOLVED" => stage[quote.market] = "final"

\* What was saved as observed is kept, and is what could be observed.
QuotesOK == QuotesAreNotLost /\ QuotesAreTrue
=============================================================================
