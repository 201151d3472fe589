------------------------------- MODULE Alerts -------------------------------
(***************************************************************************)
(* Watchlists and their alert rules (B/watchlists/services.py,             *)
(* B/alerts/services.py), evaluated by the worker inside the transaction   *)
(* that ingests a batch of observations (B/alerts/evaluation.py).          *)
(*                                                                         *)
(* The worker reads the candidate rules without a lock and then locks one  *)
(* watchlist after another until it commits or rolls back, so the members' *)
(* requests come between its steps.  Collectors observe the same market    *)
(* and their batches are ingested in any order.  A value is in steps of    *)
(* the rule's threshold; a list's order is the order of its items.         *)
(***************************************************************************)
EXTENDS Integers, FiniteSets, SequencesExt

CONSTANTS
    Watchlist, AlertRule, WatchedMarket, ObservedBy,
    FirstMarkets,   \* the markets that are on every list at first
    Direction,      \* directions a rule may be given, of "UP", "DOWN", "EITHER"
    Moves,          \* values of an eligible window, in thresholds
    Cooldown,       \* cooldown_minutes, in ticks of the clock
    MaxItems, MaxRules,         \* 100 markets and 10 rules per watchlist
    MaxRevisions, MaxRequests, MaxObserved, MaxRollbacks, BatchRows,   \* bounds
    NoValue, NoWork

ASSUME AlertsAssumption ==
    /\ Direction \subseteq {"UP", "DOWN", "EITHER"} /\ Moves \subseteq Int
    /\ {Cooldown, MaxItems, MaxRules, MaxRequests, MaxObserved, MaxRollbacks, BatchRows} \subseteq Nat
    /\ MaxRevisions \in Nat \ {0}
    /\ FirstMarkets \subseteq WatchedMarket /\ IsFiniteSet(FirstMarkets)
    /\ Cardinality(FirstMarkets) <= MaxItems
    /\ NoWork \notin Watchlist /\ NoValue \notin Moves

VARIABLES
    lists,      \* Watchlist rows: archived, items in order
    rules,      \* AlertRule rows; revision 0 is no row
    cursors,    \* AlertCursor rows; seen 0 and revision 0 is no row
    alerts,     \* AlertEvent rows
    observed,   \* the observations of each collector, in the order it made them
    ingested,   \* how many of them the worker has committed
    work,       \* the worker's open transaction
    clock, requests, rollbacks

alertVars == <<lists, rules, cursors, alerts, observed, ingested, work, clock, requests, rollbacks>>

CursorKey == AlertRule \X WatchedMarket
NoCursor == [revision |-> 0, armed |-> TRUE, seen |-> 0, triggered |-> 0, status |-> "WAITING"]
NoRule == [list |-> NoWork, enabled |-> FALSE, revision |-> 0, effective |-> 0, direction |-> "UP"]

Later(a, b) == IF a > b THEN a ELSE b

\* The rows of market m in list l; at most one.
ItemsOf(l, m) == {i \in ToSet(lists[l].items) : i.market = m}
Active(l) == ~lists[l].archived

\* Mutant: the evaluation takes no lock on the watchlist.
NotLocking(l) == TRUE

\* select_for_update of get_list: a list the open transaction has locked is waited for.
Unlocked(l) == l \notin IF work = NoWork THEN {} ELSE work.locked
GetList(l) == Active(l) /\ Unlocked(l)

-----------------------------------------------------------------------------
(* Members' requests.                                                      *)

Request == requests < MaxRequests /\ requests' = requests + 1

ArchiveList(l) ==
    /\ GetList(l)
    /\ lists' = [lists EXCEPT ![l].archived = TRUE]
    /\ rules' = [r \in AlertRule |->
                   IF rules[r].list = l THEN [rules[r] EXCEPT !.enabled = FALSE] ELSE rules[r]]
    /\ Request /\ UNCHANGED <<cursors, alerts, observed, ingested, work, clock, rollbacks>>

AddItem(l, m) ==
    /\ GetList(l)
    /\ ItemsOf(l, m) = {} /\ Len(lists[l].items) < MaxItems
    /\ lists' = [lists EXCEPT ![l].items = Append(@, [market |-> m, added |-> clock])]
    /\ Request /\ UNCHANGED <<rules, cursors, alerts, observed, ingested, work, clock, rollbacks>>

RemoveItem(l, m) ==
    /\ GetList(l)
    /\ \E i \in DOMAIN lists[l].items :
         /\ lists[l].items[i].market = m
         /\ lists' = [lists EXCEPT ![l].items = RemoveAt(@, i)]
    /\ cursors' = [k \in CursorKey |->
                     IF k[2] = m /\ rules[k[1]].list = l THEN NoCursor ELSE cursors[k]]
    /\ Request /\ UNCHANGED <<rules, alerts, observed, ingested, work, clock, rollbacks>>

\* The order of a reorder names every row once.
Orders(items) ==
    {order \in [DOMAIN items -> ToSet(items)] : IsInjective(order) /\ ToSet(order) = ToSet(items)}

Reorder(l, order) ==
    /\ GetList(l)
    /\ lists' = [lists EXCEPT ![l].items = order]
    /\ Request /\ UNCHANGED <<rules, cursors, alerts, observed, ingested, work, clock, rollbacks>>

\* save_rule: a new rule, or a new revision that takes effect now.
SaveRule(l, r, direction, enabled) ==
    /\ GetList(l)
    /\ \/ /\ rules[r] = NoRule
          /\ Cardinality({x \in AlertRule : rules[x].list = l}) < MaxRules
       \/ rules[r].list = l /\ rules[r].revision < MaxRevisions
    /\ rules' = [rules EXCEPT ![r] = [list |-> l, enabled |-> enabled, revision |-> @.revision + 1,
                                      effective |-> clock, direction |-> direction]]
    /\ Request /\ UNCHANGED <<lists, cursors, alerts, observed, ingested, work, clock, rollbacks>>

-----------------------------------------------------------------------------
(* The worker.                                                             *)

Observe(c, m, v) ==
    /\ clock < MaxObserved
    /\ clock' = clock + 1
    /\ observed' = [observed EXCEPT ![c] = Append(@, [market |-> m, at |-> clock', value |-> v])]
    /\ UNCHANGED <<lists, rules, cursors, alerts, ingested, work, requests, rollbacks>>

\* The rules that watch the market of an observation, read without a lock.
Candidates(o) ==
    {r \in AlertRule : rules[r].enabled /\ Active(rules[r].list) /\ ItemsOf(rules[r].list, o.market) # {}}

BeginBatch(c, n) ==
    LET rows == SubSeq(observed[c], ingested[c] + 1, ingested[c] + n) IN
    /\ work = NoWork
    /\ n > 0 /\ ingested[c] + n <= Len(observed[c])
    /\ work' = [by |-> c, size |-> n, rows |-> rows, left |-> Candidates(rows[1]), locked |-> {},
                saved |-> <<>>, alerts |-> {}]
    /\ UNCHANGED <<lists, rules, cursors, alerts, observed, ingested, clock, requests, rollbacks>>

NextRow ==
    /\ work # NoWork
    /\ work.left = {} /\ Len(work.rows) > 1
    /\ work' = [work EXCEPT !.rows = Tail(@), !.left = Candidates(work.rows[2])]
    /\ UNCHANGED <<lists, rules, cursors, alerts, observed, ingested, clock, requests, rollbacks>>

Matches(direction, v) ==
    CASE direction = "UP" -> v >= 1
      [] direction = "DOWN" -> -v >= 1
      [] direction = "EITHER" -> v >= 1 \/ -v >= 1

Evaluable(r, o) ==
    /\ Active(rules[r].list) /\ rules[r].enabled
    /\ \E i \in ItemsOf(rules[r].list, o.market) : o.at >= Later(rules[r].effective, i.added)

\* A cursor of an older revision is armed again; it keeps what it has seen.
Current(cursor, revision) ==
    [cursor EXCEPT !.revision = revision, !.armed = @ \/ cursor.revision # revision]

Outcome(cursor, rule, o) ==
    IF o.value = NoValue THEN "INELIGIBLE"
    ELSE IF ~Matches(rule.direction, o.value) THEN "ARMED"
    ELSE IF ~cursor.armed THEN "LATCHED"
    ELSE IF cursor.triggered > 0 /\ o.at - cursor.triggered < Cooldown THEN "COOLDOWN"
    ELSE "TRIGGERED"

Evaluated(cursor, status, o) ==
    [cursor EXCEPT !.seen = o.at, !.status = status,
                   !.armed = CASE status = "ARMED" -> TRUE
                               [] status = "TRIGGERED" -> FALSE
                               [] OTHER -> @,
                   !.triggered = IF status = "TRIGGERED" THEN o.at ELSE @]

\* The row as the open transaction sees it.
CursorRow(key) == IF key \in DOMAIN work.saved THEN work.saved[key] ELSE cursors[key]

\* One candidate: lock its list and itself, then evaluate what is still there.
EvaluateRule(r) ==
    LET o == work.rows[1]
        key == <<r, o.market>>
        cursor == Current(CursorRow(key), rules[r].revision)
        status == Outcome(cursor, rules[r], o)
        skipped == ~Evaluable(r, o) \/ o.at <= cursor.seen
    IN
    /\ work # NoWork
    /\ r \in work.left
    /\ work' = [work EXCEPT
         !.left = @ \ {r},
         !.locked = @ \cup {rules[r].list},
         !.saved = IF skipped THEN @
                   ELSE [k \in DOMAIN work.saved \cup {key} |->
                           IF k = key THEN Evaluated(cursor, status, o) ELSE work.saved[k]],
         !.alerts = IF skipped \/ status # "TRIGGERED" THEN @
                    ELSE @ \cup {[rule |-> r, market |-> o.market, revision |-> rules[r].revision,
                                  at |-> o.at, by |-> work.by, direction |-> rules[r].direction]}]
    /\ UNCHANGED <<lists, rules, cursors, alerts, observed, ingested, clock, requests, rollbacks>>

CommitBatch ==
    /\ work # NoWork
    /\ work.left = {} /\ Len(work.rows) = 1
    /\ cursors' = [k \in CursorKey |-> CursorRow(k)]
    /\ alerts' = alerts \cup work.alerts
    /\ ingested' = [ingested EXCEPT ![work.by] = @ + work.size]
    /\ work' = NoWork
    /\ UNCHANGED <<lists, rules, observed, clock, requests, rollbacks>>

RollbackBatch ==
    /\ work # NoWork /\ rollbacks < MaxRollbacks
    /\ rollbacks' = rollbacks + 1
    /\ work' = NoWork
    /\ UNCHANGED <<lists, rules, cursors, alerts, observed, ingested, clock, requests>>

-----------------------------------------------------------------------------
AlertsInit ==
    /\ \E order \in SetToSeqs({[market |-> m, added |-> 0] : m \in FirstMarkets}) :
         lists = [l \in Watchlist |-> [archived |-> FALSE, items |-> order]]
    /\ rules = [r \in AlertRule |-> NoRule]
    /\ cursors = [k \in CursorKey |-> NoCursor]
    /\ alerts = {}
    /\ observed = [c \in ObservedBy |-> <<>>]
    /\ ingested = [c \in ObservedBy |-> 0]
    /\ work = NoWork
    /\ clock = 0 /\ requests = 0 /\ rollbacks = 0

ListRequest(l) ==
    \/ ArchiveList(l)
    \/ \E m \in WatchedMarket : AddItem(l, m) \/ RemoveItem(l, m)
    \/ \E order \in Orders(lists[l].items) : Reorder(l, order)
    \/ \E r \in AlertRule, d \in Direction, enabled \in BOOLEAN : SaveRule(l, r, d, enabled)

AlertWorker ==
    \/ \E c \in ObservedBy, n \in 1..BatchRows : BeginBatch(c, n)
    \/ NextRow \/ CommitBatch \/ RollbackBatch
    \/ \E r \in AlertRule : EvaluateRule(r)

AlertsNext ==
    \/ \E l \in Watchlist : ListRequest(l)
    \/ \E c \in ObservedBy, m \in WatchedMarket, v \in Moves \cup {NoValue} : Observe(c, m, v)
    \/ AlertWorker

AlertsSpec == AlertsInit /\ [][AlertsNext]_alertVars

-----------------------------------------------------------------------------
\* rules(): what a member is shown of rule r on market m.
ShownStatus(r, m) ==
    IF ~rules[r].enabled THEN "PAUSED"
    ELSE IF cursors[<<r, m>>].revision = rules[r].revision THEN cursors[<<r, m>>].status
    ELSE "WAITING"

Committed(m) ==
    UNION {{o \in ToSet(SubSeq(observed[c], 1, ingested[c])) : o.market = m} : c \in ObservedBy}

\* Types, limits, and alerts agree with the checkpoints: every alert is about an
\* observation the worker has committed.
AlertsOK ==
    /\ \A l \in Watchlist : /\ Len(lists[l].items) <= MaxItems
                            /\ Cardinality({i.market : i \in ToSet(lists[l].items)}) = Len(lists[l].items)
    /\ \A r \in AlertRule : rules[r].revision \in 0..MaxRevisions
    /\ \A a \in alerts : \E o \in Committed(a.market) : o.at = a.at
    /\ \A k \in CursorKey :
         cursors[k].seen = 0 \/ \E o \in Committed(k[2]) : o.at = cursors[k].seen
    /\ clock \in 0..MaxObserved /\ requests \in 0..MaxRequests /\ rollbacks \in 0..MaxRollbacks

\* An alert received since the market was (last) added.
SinceAdded(a) == \E i \in ItemsOf(rules[a.rule].list, a.market) : a.at > i.added

\* One alert per crossing: a rule that has fired fires again for a market only
\* after its cooldown, and under one revision only if the value was eligible and
\* below the threshold in between; whichever collector's batch came first, and
\* however often a batch was rolled back and evaluated again.
OneAlertPerCrossing ==
    \A a, b \in {x \in alerts : SinceAdded(x)} :
        a.rule = b.rule /\ a.market = b.market /\ a # b /\ a.at <= b.at =>
            /\ a.at < b.at /\ b.at - a.at >= Cooldown
            /\ a.revision = b.revision =>
                 \E o \in Committed(a.market) :
                     /\ a.at < o.at /\ o.at < b.at
                     /\ o.value # NoValue /\ ~Matches(a.direction, o.value)

\* A rule is shown as triggered only for an alert of its present revision, since
\* the market was added.
TriggeredIsShownTruly ==
    \A r \in AlertRule, m \in WatchedMarket :
        ShownStatus(r, m) = "TRIGGERED" /\ ItemsOf(rules[r].list, m) # {} =>
            \E a \in alerts : a.rule = r /\ a.market = m /\ a.revision = rules[r].revision
                              /\ a.at >= rules[r].effective
                              /\ \E i \in ItemsOf(rules[r].list, m) : a.at >= i.added

\* An alert appears only for a rule that is enabled, as it then stands, on a list
\* that holds the market, and about an observation since both.
RaisedUnderTheRule ==
    [][\A a \in alerts' \ alerts :
         LET rule == rules[a.rule] IN
         /\ rule.enabled /\ Active(rule.list) /\ a.revision = rule.revision
         /\ \E i \in ItemsOf(rule.list, a.market) : a.at >= Later(rule.effective, i.added)]_alertVars

\* Alerts are raised under the rule as it stands, once per crossing, and agree with
\* what a member is shown, although rules, lists and collectors' batches interleave.
AlertsAreSound ==
    /\ [](AlertsOK /\ OneAlertPerCrossing /\ TriggeredIsShownTruly)
    /\ RaisedUnderTheRule
=============================================================================
