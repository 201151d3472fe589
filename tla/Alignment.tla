----------------------------- MODULE Alignment -----------------------------
(***************************************************************************)
(* What was knowable when: aligned_history of comparisons.py walks the     *)
(* observations of two markets and the reviews of the pair along a time    *)
(* axis, with a cursor in each; align_contract of event_chart.py walks one *)
(* market's for the chart of an event.  An observation is available once   *)
(* it is both received and recorded.  The walk sees only the rows the page *)
(* reads, those received up to MaxAge before the axis begins.              *)
(***************************************************************************)
EXTENDS Integers, FiniteSets, Sequences

CONSTANTS
    Axis,           \* the times of the points, ascending
    Histories,      \* what may have been observed of each market: sets of rows
    ReviewLogs,     \* reviews of the pair that may exist, in version order
    MaxAge, MaxSkew, ChartAge,
    NoRow

Sides == {"left", "right"}
HistoryRow == [id : Nat, received : Nat, recorded : Nat, sound : BOOLEAN, rules : Nat]

\* Observations have ids of their own; reviews are sorted by their time.
ASSUME AlignmentAssumption ==
    /\ Axis \in Seq(Nat) /\ Len(Axis) > 0 /\ {MaxAge, MaxSkew, ChartAge} \subseteq Nat
    /\ \A i \in 1..(Len(Axis) - 1) : Axis[i] < Axis[i + 1]
    /\ \A s \in Sides : \A rows \in Histories[s] :
          IsFiniteSet(rows) /\ rows \subseteq HistoryRow /\ \A a, b \in rows : a.id = b.id => a = b
    /\ \A log \in ReviewLogs :
          /\ Len(log) \in Nat /\ DOMAIN log = 1..Len(log)
          /\ \A i \in DOMAIN log : {log[i].at, log[i].version} \subseteq Nat
          /\ \A i, j \in DOMAIN log : i <= j => log[i].at <= log[j].at
    /\ NoRow \notin HistoryRow

VARIABLES
    history,    \* the rows of each market
    reviewLog,  \* the reviews of the pair
    unread,     \* rows the walk has not come to, of each market
    newestRow,  \* the newest row it has come to, of each market
    inForce,    \* how many reviews it has come to
    drawn,      \* the same walk for the chart: the last row it has come to
    uncharted,  \* and the rows it has not
    points      \* the comparison and the chart's price of each point so far

alignVars == <<history, reviewLog, unread, newestRow, inForce, drawn, uncharted, points>>

Larger(a, b) == IF a < b THEN b ELSE a
AvailableAt(row) == Larger(row.received, row.recorded)
Newer(a, b) == a.received > b.received \/ (a.received = b.received /\ a.id > b.id)
Arrived(a, b) == AvailableAt(a) < AvailableAt(b) \/ (AvailableAt(a) = AvailableAt(b) /\ Newer(b, a))
FirstOf(rows) == CHOOSE a \in rows : \A b \in rows \ {a} : Arrived(a, b)
FirstById(rows) == CHOOSE a \in rows : \A b \in rows \ {a} :
    AvailableAt(a) < AvailableAt(b) \/ (AvailableAt(a) = AvailableAt(b) /\ a.id < b.id)

\* compare: both sides are there, recent, sound and close together, and the
\* review in force is of the rules the rows carry.
Comparable(left, right, review, at) ==
    /\ review # NoRow /\ review.relation # "INCOMPATIBLE"
    /\ left # NoRow /\ right # NoRow
    /\ \A row \in {left, right} :
         AvailableAt(row) <= at /\ at - row.received <= MaxAge /\ row.sound
    /\ left.rules = review.rules["left"] /\ right.rules = review.rules["right"]
    /\ left.received - right.received \in -MaxSkew..MaxSkew

Compared(left, right, review, at) ==
    IF Comparable(left, right, review, at) THEN <<left.id, right.id, review.version>> ELSE <<>>

ReadFrom(rows, at, age) == {row \in rows : row.received >= at - age}

At == Axis[Len(points) + 1]
Walking == Len(points) < Len(Axis)

\* Mutant: the row that arrives last counts as the newest.
LatestArrival(old, row) == row
Latest(old, row) == IF old = NoRow THEN row ELSE IF Newer(row, old) THEN row ELSE old

DueReview == inForce < Len(reviewLog) /\ reviewLog[inForce + 1].at <= At
DueRows(rows) == {row \in rows : AvailableAt(row) <= At}

TakeReview ==
    /\ Walking /\ DueReview
    /\ inForce' = inForce + 1
    /\ UNCHANGED <<history, reviewLog, unread, newestRow, drawn, uncharted, points>>

TakeRow(side) ==
    /\ Walking /\ ~DueReview /\ DueRows(unread[side]) # {}
    /\ side = "right" => DueRows(unread["left"]) = {}
    /\ LET row == FirstById(DueRows(unread[side]))
       IN /\ unread' = [unread EXCEPT ![side] = unread[side] \ {row}]
          /\ newestRow' = [newestRow EXCEPT ![side] = Latest(newestRow[side], row)]
    /\ UNCHANGED <<history, reviewLog, inForce, drawn, uncharted, points>>

Draw ==
    /\ Walking /\ ~DueReview /\ DueRows(unread["left"] \union unread["right"]) = {}
    /\ DueRows(uncharted) # {}
    /\ drawn' = FirstOf(DueRows(uncharted))
    /\ uncharted' = uncharted \ {drawn'}
    /\ UNCHANGED <<history, reviewLog, unread, newestRow, inForce, points>>

\* A quote is drawn if it is of the contract that was linked, sound and recent.
Drawable(row, at) ==
    row # NoRow /\ row.sound /\ row.rules = 1 /\ at - row.received \in 0..ChartAge

Point ==
    /\ Walking /\ ~DueReview
    /\ DueRows(unread["left"] \union unread["right"] \union uncharted) = {}
    /\ LET review == IF inForce = 0 THEN NoRow ELSE reviewLog[inForce]
       IN points' = Append(points,
            [compared |-> Compared(newestRow["left"], newestRow["right"], review, At),
             charted |-> IF Drawable(drawn, At) THEN {drawn} ELSE {}])
    /\ UNCHANGED <<history, reviewLog, unread, newestRow, inForce, drawn, uncharted>>

AlignmentStart ==
    /\ unread = [s \in Sides |-> ReadFrom(history[s], Axis[1], MaxAge)]
    /\ newestRow = [s \in Sides |-> NoRow] /\ inForce = 0
    /\ drawn = NoRow /\ uncharted = ReadFrom(history["left"], Axis[1], ChartAge)
    /\ points = <<>>

AlignmentInit ==
    /\ \E l \in Histories["left"], r \in Histories["right"] :
         history = [left |-> l, right |-> r]
    /\ reviewLog \in ReviewLogs
    /\ AlignmentStart

AlignmentNext == TakeReview \/ (\E side \in Sides : TakeRow(side)) \/ Draw \/ Point

AlignmentSpec == AlignmentInit /\ [][AlignmentNext]_alignVars

-----------------------------------------------------------------------------

\* The newest of the rows of a market, all of them, that were available by then.
NewestBy(side, at) ==
    LET known == {row \in history[side] : AvailableAt(row) <= at}
    IN  IF known = {} THEN NoRow ELSE CHOOSE a \in known : \A b \in known \ {a} : Newer(a, b)

ReviewBy(at) ==
    LET made == {i \in DOMAIN reviewLog : reviewLog[i].at <= at}
    IN  IF made = {} THEN NoRow ELSE reviewLog[CHOOSE i \in made : \A j \in made : j <= i]

\* Each comparison is the one that could have been made at its time: of the
\* newest quotes available by then and the review then in force.  It uses nothing
\* recorded later, does not step back to an older quote that arrives late, and
\* does not depend on how far back the page reads.
ComparisonsAreOfTheirTime ==
    \A i \in DOMAIN points :
        points[i].compared = Compared(NewestBy("left", Axis[i]), NewestBy("right", Axis[i]),
                                      ReviewBy(Axis[i]), Axis[i])

\* The chart draws a sound quote of the linked contract that was available, was
\* recent, and was the last to become available within the page's reach.
ChartIsOfItsTime ==
    \A i \in DOMAIN points : \A row \in points[i].charted :
        /\ AvailableAt(row) <= Axis[i] /\ Axis[i] - row.received \in 0..ChartAge
        /\ row.sound /\ row.rules = 1
        /\ \A other \in history["left"] :
             other.received >= Axis[1] - ChartAge /\ Arrived(row, other)
               => AvailableAt(other) > Axis[i]

AlignedInTime == ComparisonsAreOfTheirTime /\ ChartIsOfItsTime
=============================================================================
