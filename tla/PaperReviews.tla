---------------------------- MODULE PaperReviews ----------------------------
(***************************************************************************)
(* Entry reviews of one paper experiment (paper/reviews.py, the entry half *)
(* of paper/strategy.py, paper/worker.py): a momentum signal opens a       *)
(* candidate, the scheduler reserves one model request for it, the agent   *)
(* worker publishes a verdict, and the account applies it to an order.     *)
(*                                                                         *)
(* process_experiment is a transaction under the lock of the experiment    *)
(* row, but what it reads of runs it reads statement by statement: Read    *)
(* and Decide are separate steps.  schedule_reviews runs outside any       *)
(* transaction.  publish of agents/worker.py is split into its UPDATE      *)
(* (which sets finished_at) and its COMMIT (which makes it visible).       *)
(*                                                                         *)
(* Time: a candidate is 0 (valid), 1 (expired after ten minutes) or 2      *)
(* (fifteen minutes old); a transaction compares with the ages at its      *)
(* `now`.  An exception or a locked row makes process_experiment a no-op.  *)
(* The markets are loaded when the transaction begins, except that of a    *)
(* candidate, which the last check of the signal loads again.              *)
(***************************************************************************)
EXTENDS Naturals, FiniteSets

CONSTANTS
    Lanes,            \* (reviewed account, market) pairs
    Opportunities,    \* candidates
    Workers,          \* paper workers
    None,             \* no candidate
    Free,             \* the experiment row is not locked
    Settings,         \* settings of an experiment: shared (v2: the benchmark account
                      \* opens candidates as well) and limit, its daily_review_limit
    MaxRevision       \* bound: saves of the model configuration

ASSUME SentinelAssumption == None \notin Opportunities /\ Free \notin Workers
ASSUME SettingsAssumption == Settings \subseteq [shared : BOOLEAN, limit : Nat]
ASSUME BoundsAssumption == MaxRevision \in Nat

VARIABLES
    experiment, \* running; retired: a newer experiment exists; its settings
    lock,       \* the worker that locked the experiment row
    op,         \* Opportunity rows
    run,        \* the AgentRun row of each candidate
    agent,      \* the agent worker
    paper,      \* local state of each paper worker
    signal,     \* lanes whose current signal is a valid entry signal
    account,    \* position, pending order and decisions of each lane
    revision,   \* ModelConfiguration.revision
    manual      \* a request of somebody else is queued or running

vars == <<experiment, lock, op, run, agent, paper, signal, account, revision,
          manual>>
outside == <<signal, revision, manual>>

----------------------------------------------------------------------------
Closed == {"ALLOWED", "REJECTED", "ABSTAINED", "FAILED", "INVALIDATED",
           "EXPIRED", "PAUSED"}
Active == {"PENDING", "RUNNING"}
Ended == {"SUCCEEDED", "FAILED", "CANCELLED"}
Verdicts == {"ALLOW", "REJECT", "WAIT"}
Phases == {"SIGNAL", "REVIEW"}

IdleAgent == [pc |-> "idle", op |-> None, verdict |-> "WAIT"]
IdlePaper == [pc |-> "idle", lane |-> None, found |-> None, late |-> {},
              cooled |-> {}, finished |-> {}, signal |-> {}, todo |-> {}]

OpRecord == [state : {"NONE", "WAITING"} \cup Closed, lane : Lanes, age : 0..2,
             reserved : Nat, entries : Nat]
RunRecord == [state : {"NONE"} \cup Active \cup Ended, verdict : Verdicts,
              revision : Nat]
PaperRecord == [pc : {"idle", "read", "decide", "sweep", "mark", "schedule"},
                lane : Lanes \cup {None}, found : Opportunities \cup {None},
                late : SUBSET Opportunities, cooled : SUBSET Opportunities,
                finished : SUBSET Opportunities, signal : SUBSET Lanes,
                todo : SUBSET (Lanes \cup Opportunities)]
AccountRecord == [held : BOOLEAN, pending : {"NONE", "BUY", "SELL"},
                  recent : BOOLEAN, fresh : BOOLEAN, decided : SUBSET Phases]

TypeOK ==
    /\ experiment \in [running : BOOLEAN, retired : BOOLEAN, settings : Settings]
    /\ lock \in Workers \cup {Free}
    /\ op \in [Opportunities -> OpRecord]
    /\ run \in [Opportunities -> RunRecord]
    /\ agent \in [pc : {"idle", "open", "call", "publish", "stamped"},
                  op : Opportunities \cup {None}, verdict : Verdicts]
    /\ paper \in [Workers -> PaperRecord]
    /\ signal \subseteq Lanes
    /\ account \in [Lanes -> AccountRecord]
    /\ revision \in Nat /\ manual \in BOOLEAN

Init ==
    /\ \E settings \in Settings :
         experiment = [running |-> TRUE, retired |-> FALSE, settings |-> settings]
    /\ lock = Free
    /\ \E l \in Lanes :
         op = [o \in Opportunities |->
                 [state |-> "NONE", lane |-> l, age |-> 0,
                  reserved |-> 0, entries |-> 0]]
    /\ run = [o \in Opportunities |->
                [state |-> "NONE", verdict |-> "WAIT", revision |-> 0]]
    /\ agent = IdleAgent
    /\ paper = [w \in Workers |-> IdlePaper]
    /\ signal = {}
    /\ account = [l \in Lanes |-> [held |-> FALSE, pending |-> "NONE",
                                   recent |-> FALSE, fresh |-> FALSE,
                                   decided |-> {}]]
    /\ revision = 0 /\ manual = FALSE

Waiting == {o \in Opportunities : op[o].state = "WAITING"}
ActiveRuns == {o \in Opportunities : run[o].state \in Active}
In(l) == {o \in Opportunities : op[o].state # "NONE" /\ op[o].lane = l}

\* The publication in progress holds the organization lock and its run row.
OrgFree == agent.pc # "stamped"
Unlocked(S) == agent.pc = "stamped" => agent.op \notin S

\* UPDATE ... WHERE state IN ACTIVE, for the runs of S.
Stopped(S, state) ==
    [o \in Opportunities |->
       IF o \in S \cap ActiveRuns THEN [run[o] EXCEPT !.state = state]
                                  ELSE run[o]]

\* UPDATE opportunities ... WHERE state = "WAITING".  (Mutants: every candidate
\* of the set, whatever its state; only candidates with a request.)
MarkedReserved(S, state) ==
    [o \in Opportunities |->
       IF o \in S \cap Waiting /\ op[o].reserved > 0
       THEN [op[o] EXCEPT !.state = state] ELSE op[o]]
MarkedAll(S, state) ==
    [o \in Opportunities |->
       IF o \in S /\ op[o].state # "NONE" THEN [op[o] EXCEPT !.state = state]
                                          ELSE op[o]]
Marked(S, state) ==
    [o \in Opportunities |->
       IF o \in S \cap Waiting THEN [op[o] EXCEPT !.state = state] ELSE op[o]]

----------------------------------------------------------------------------
(* process_experiment *)

\* settle and execute_order, for one lane: settlement, fills, expiry.
Settled(a) == {a} \cup (IF a.held THEN {[a EXCEPT !.held = FALSE,
                                                  !.pending = "NONE"]} ELSE {})
Executed(a) ==
    Settled(a) \cup {[a EXCEPT !.pending = "NONE", !.held = h] :
                       h \in {a.held, a.pending = "BUY"}}
\* Decisions are recorded against the observation that was loaded.
Loaded(a) == IF a.fresh THEN [a EXCEPT !.fresh = FALSE, !.decided = {}] ELSE a
Cycles(a) ==
    LET b == Loaded(a) IN
    IF experiment.running THEN Executed(b) ELSE Settled(b)

\* now, and then SELECT ... FOR UPDATE SKIP LOCKED.
Begin(w) ==
    /\ paper[w].pc = "idle" /\ lock = Free
    /\ lock' = w
    /\ paper' = [paper EXCEPT ![w] = [IdlePaper EXCEPT
         !.pc = "read",
         !.late = {o \in Opportunities : op[o].age > 0},
         !.cooled = {o \in Opportunities : op[o].age = 2},
         !.finished = {o \in Opportunities : run[o].state = "SUCCEEDED"}
                        \cup (IF OrgFree THEN {} ELSE {agent.op}),
         !.signal = signal,
         !.todo = IF experiment.running THEN Lanes ELSE {}]]
    /\ account' \in [Lanes -> UNION {Cycles(account[l]) : l \in Lanes}]
    /\ \A l \in Lanes : account'[l] \in Cycles(account[l])
    /\ UNCHANGED <<experiment, op, run, agent, outside>>

\* The row is locked, or the transaction rolls back.
Skip(w) ==
    /\ paper[w].pc = "idle"
    /\ paper' = [paper EXCEPT ![w] = [IdlePaper EXCEPT !.pc = "sweep"]]
    /\ UNCHANGED <<experiment, lock, op, run, agent, account, outside>>

\* reviews.resumable: a candidate whose run has ended.
Resumable(l) == {o \in In(l) \cap Waiting : run[o].state \in Ended}

Read(w, l) ==
    /\ paper[w].pc = "read" /\ l \in paper[w].todo
    /\ \E o \in Resumable(l) \cup {None} :
         /\ o = None => Resumable(l) = {}
         /\ paper' = [paper EXCEPT ![w] =
              [@ EXCEPT !.pc = "decide", !.lane = l, !.found = o]]
    /\ UNCHANGED <<experiment, lock, op, run, agent, account, outside>>

\* reviews.opportunity_for: the candidate that is still valid, or a new one
\* after the cooldown; an old candidate is closed on the way.
Valid(w, l) == (In(l) \cap Waiting) \ paper[w].late
\* (Mutant: the old candidate stays open.)
LeftOpen(w, l) == op
Closing(w, l) == Marked(In(l) \cap paper[w].late, "EXPIRED")
MayOpen(w, l) == /\ In(l) \subseteq paper[w].cooled
                 /\ ~account[l].held /\ account[l].pending = "NONE"
Opened(l) == [state |-> "WAITING", lane |-> l, age |-> 0, reserved |-> 0,
              entries |-> 0]

\* The candidate and the rows after the call.
OpportunityFor(w, l) ==
    IF Valid(w, l) # {} THEN {<<o, op>> : o \in Valid(w, l)}
    ELSE IF MayOpen(w, l)
    THEN {<<o, [Closing(w, l) EXCEPT ![o] = Opened(l)]>> :
            o \in {x \in Opportunities : op[x].state = "NONE"}}
    ELSE {<<None, Closing(w, l)>>}

\* v2: the momentum account buys and opens a candidate for the other.
Benchmark(w, l) ==
    /\ experiment.settings.shared
    /\ paper[w].pc = "read" /\ l \in paper[w].todo \cap paper[w].signal
    /\ \E c \in OpportunityFor(w, l) : op' = c[2]
    /\ UNCHANGED <<experiment, lock, run, agent, paper, account, outside>>

\* reviews.gate, after the checks of the price and the rules.
\* (Mutants: every run that has ended is taken for an approval; the verdict
\* itself is stored.)
GateVerdict(w, o) ==
    IF o = None \/ o \in paper[w].late \/ run[o].state # "SUCCEEDED"
    THEN "INVALIDATED" ELSE run[o].verdict
GateEnded(w, o) ==
    IF o # None /\ run[o].state \in Ended THEN "ALLOWED" ELSE "INVALIDATED"
Gate(w, o) ==
    IF o = None \/ o \in paper[w].late THEN "INVALIDATED"
    ELSE IF run[o].state \in {"FAILED", "CANCELLED"} THEN "FAILED"
    ELSE IF run[o].state # "SUCCEEDED" \/ o \notin paper[w].finished
            \/ run[o].revision # revision THEN "INVALIDATED"
    ELSE CASE run[o].verdict = "ALLOW" -> "ALLOWED"
           [] run[o].verdict = "REJECT" -> "REJECTED"
           [] run[o].verdict = "WAIT" -> "ABSTAINED"

\* current_signal_issue, with the market as it is now.
Checked(l, result) ==
    IF result = "ALLOWED" /\ l \notin signal THEN "INVALIDATED" ELSE result

\* The decision row, its order, and the end of the candidate under review.
Conclude(w, o, rows, result, order) ==
    LET review == paper[w].found # None
        before == account[paper[w].lane].decided
        bought == IF order = "BUY" THEN 1 ELSE 0 IN
    /\ op' = IF o = None THEN rows
             ELSE [rows EXCEPT ![o] = [@ EXCEPT
                     !.state = IF review THEN result ELSE rows[o].state,
                     !.entries = rows[o].entries + bought]]
    /\ account' = [account EXCEPT ![paper[w].lane] = [@ EXCEPT
                     !.decided = before \cup {IF review THEN "REVIEW" ELSE "SIGNAL"},
                     !.recent = TRUE, !.pending = order]]

Skipped(w) ==
    LET a == account[paper[w].lane] IN
    \/ paper[w].found = None /\ ("SIGNAL" \in a.decided \/ a.recent)
    \/ paper[w].found # None /\ "REVIEW" \in a.decided
    \/ a.pending # "NONE"

\* strategy.decide for the account with reviews.  The second disjunct is every
\* reason to wait that is not modelled: the quote, the rules, the close of the
\* market, the re-entry cooldown, the capital.
Decide(w) ==
    LET l == paper[w].lane
        found == paper[w].found IN
    /\ paper[w].pc = "decide"
    /\ paper' = [paper EXCEPT ![w] =
         [@ EXCEPT !.pc = "read", !.lane = None, !.found = None,
                   !.todo = paper[w].todo \ {l}]]
    /\ \/ Skipped(w) /\ UNCHANGED <<op, account>>
       \/ ~Skipped(w) /\ Conclude(w, found, op, "INVALIDATED", "NONE")
       \/ /\ ~Skipped(w) /\ account[l].held
          /\ Conclude(w, found, op, "INVALIDATED", "SELL")
       \/ /\ ~Skipped(w) /\ ~account[l].held /\ l \in paper[w].signal
          /\ \E c \in IF found = None THEN OpportunityFor(w, l)
                                      ELSE {<<found, op>>} :
             \E result \in {Checked(l, Gate(w, c[1])), "INVALIDATED"} :
                Conclude(w, c[1], c[2], result,
                         IF result = "ALLOWED" THEN "BUY" ELSE "NONE")
    /\ UNCHANGED <<experiment, lock, run, agent, outside>>

End(w) ==
    /\ paper[w].pc = "read" /\ paper[w].todo = {}
    /\ lock' = Free
    /\ paper' = [paper EXCEPT ![w] = [IdlePaper EXCEPT !.pc = "sweep"]]
    /\ UNCHANGED <<experiment, op, run, agent, account, outside>>

----------------------------------------------------------------------------
(* schedule_reviews *)

\* The runs of expired candidates are cancelled, then the candidates closed;
\* both statements compare with the same now.
Sweep(w) ==
    LET late == {o \in Opportunities : op[o].age > 0} IN
    /\ paper[w].pc = "sweep"
    /\ Unlocked(late \cap Waiting)
    /\ run' = Stopped(late \cap Waiting, "CANCELLED")
    /\ paper' = [paper EXCEPT ![w] = [@ EXCEPT !.pc = "mark", !.late = late]]
    /\ UNCHANGED <<experiment, lock, op, agent, account, outside>>

\* The list of candidates without a run is read in the same step.
Mark(w) ==
    /\ paper[w].pc = "mark"
    /\ op' = Marked(paper[w].late, "EXPIRED")
    /\ paper' = [paper EXCEPT ![w] = [@ EXCEPT
         !.pc = "schedule", !.late = {},
         !.todo = {o \in Waiting \ paper[w].late :
                     experiment.running /\ op[o].reserved = 0}]]
    /\ UNCHANGED <<experiment, lock, run, agent, account, outside>>

\* What schedule_one checks again under the locks of the organization, the
\* experiment and the candidate.  (Mutant: review_run_id is not checked again.)
OpenAnyRun(o) == experiment.running /\ o \in Waiting /\ op[o].age = 0
StillOpen(o) == /\ experiment.running /\ o \in Waiting /\ op[o].age = 0
                /\ op[o].reserved = 0

\* paper_calls and the open request of the organization.
\* (Mutants: one review too many; manual research is not looked at.)
Reserved == {o \in Opportunities : op[o].reserved > 0}
ReviewsBelowLimit == Cardinality(Reserved) <= experiment.settings.limit
ReviewsLeft == Cardinality(Reserved) < experiment.settings.limit
NoReviewOpen == ActiveRuns = {}
QueueFree == ActiveRuns = {} /\ ~manual

\* reviews.schedule_one.  The third disjunct: a limit, a busy queue, or settings
\* that do not allow a request.  (expire_runs, called here, is StopRun.)
ScheduleOne(w, o) ==
    /\ paper[w].pc = "schedule" /\ o \in paper[w].todo
    /\ lock = Free /\ OrgFree
    /\ paper' = [paper EXCEPT ![w].todo = @ \ {o}]
    /\ \/ ~StillOpen(o) /\ UNCHANGED <<op, run>>
       \/ /\ StillOpen(o) /\ op[o].lane \notin signal
          /\ op' = [op EXCEPT ![o].state = "INVALIDATED"]
          /\ UNCHANGED run
       \/ StillOpen(o) /\ op[o].lane \in signal /\ UNCHANGED <<op, run>>
       \/ /\ StillOpen(o) /\ op[o].lane \in signal
          /\ ReviewsLeft /\ QueueFree
          /\ op' = [op EXCEPT ![o].reserved = @ + 1]
          /\ run' = [run EXCEPT ![o] = [state |-> "PENDING", verdict |-> "WAIT",
                                        revision |-> revision]]
    /\ UNCHANGED <<experiment, lock, agent, account, outside>>

\* The end of run_once; the process may also be replaced between statements.
Return(w) ==
    /\ paper[w].pc \in {"mark", "schedule"}
    /\ paper' = [paper EXCEPT ![w] = IdlePaper]
    /\ UNCHANGED <<experiment, lock, op, run, agent, account, outside>>

----------------------------------------------------------------------------
(* The agent worker, for runs of kind PAPER_REVIEW (see AgentRuns). *)

\* connection_for with require_live_review.
Current(o) == run[o].revision = revision
LiveReview(o) == /\ experiment.running /\ o \in Waiting /\ op[o].age = 0
                 /\ op[o].lane \in signal
Permitted(o) == Current(o) /\ LiveReview(o)

\* The handlers of process_one, through the filter live_run.
Abandon(o) ==
    /\ agent' = IdleAgent
    /\ run' = IF run[o].state = "RUNNING"
              THEN [run EXCEPT ![o].state =
                      IF Current(o) /\ ~LiveReview(o) THEN "CANCELLED"
                                                      ELSE "FAILED"]
              ELSE run

Claim(o) ==
    /\ agent.pc = "idle" /\ run[o].state = "PENDING"
    /\ agent' = [IdleAgent EXCEPT !.pc = "open", !.op = o]
    /\ run' = [run EXCEPT ![o].state = "RUNNING"]
    /\ UNCHANGED <<experiment, lock, op, paper, account, outside>>

\* The checks before the call.
OpenReview ==
    /\ agent.pc = "open"
    /\ \/ /\ Permitted(agent.op)
          /\ agent' = [agent EXCEPT !.pc = "call"] /\ UNCHANGED run
       \/ Abandon(agent.op)
    /\ UNCHANGED <<experiment, lock, op, paper, account, outside>>

\* The call and the validation of its answer.
Answer ==
    /\ agent.pc = "call"
    /\ \/ /\ \E v \in Verdicts :
               agent' = [agent EXCEPT !.pc = "publish", !.verdict = v]
          /\ UNCHANGED run
       \/ Abandon(agent.op)
    /\ UNCHANGED <<experiment, lock, op, paper, account, outside>>

\* publish up to its UPDATE, which stamps finished_at.
Publish ==
    LET o == agent.op IN
    /\ agent.pc = "publish"
    /\ \/ /\ Permitted(o) /\ run[o].state = "RUNNING"
          /\ agent' = [agent EXCEPT !.pc = "stamped"] /\ UNCHANGED run
       \/ Abandon(o)
    /\ UNCHANGED <<experiment, lock, op, paper, account, outside>>

Commit ==
    /\ agent.pc = "stamped"
    /\ run' = [run EXCEPT ![agent.op] = [@ EXCEPT !.state = "SUCCEEDED",
                                                  !.verdict = agent.verdict]]
    /\ agent' = IdleAgent
    /\ UNCHANGED <<experiment, lock, op, paper, account, outside>>

\* The process dies; its lease will lapse.
Die ==
    /\ agent.pc # "idle"
    /\ agent' = IdleAgent
    /\ UNCHANGED <<experiment, lock, op, run, paper, account, outside>>

----------------------------------------------------------------------------
(* Everybody else. *)

\* expire_runs and cancel_run.
StopRun(o, state) ==
    /\ o \in ActiveRuns /\ Unlocked({o})
    /\ state = "CANCELLED" => OrgFree
    /\ run' = Stopped({o}, state)
    /\ UNCHANGED <<experiment, lock, op, agent, paper, account, outside>>

\* save_configuration.
SaveConfiguration ==
    /\ OrgFree /\ revision < MaxRevision
    /\ revision' = revision + 1 /\ manual' = FALSE
    /\ run' = Stopped(Opportunities, "CANCELLED")
    /\ UNCHANGED <<experiment, lock, op, agent, paper, account, signal>>

\* services.enqueue and the end of what it queued (bound: under the first settings).
Research ==
    /\ \/ ~manual /\ ActiveRuns = {} /\ OrgFree /\ revision = 0
       \/ manual
    /\ manual' = ~manual
    /\ UNCHANGED <<experiment, lock, op, run, agent, paper, account, signal,
                   revision>>

\* set_running(False), and the end of the old experiment when a new one is
\* created.  (Mutant: the experiment row is not locked.)
PauseUnlocked(retire) ==
    /\ OrgFree
    /\ experiment.running
    /\ experiment' = [experiment EXCEPT !.running = FALSE, !.retired = retire]
    /\ run' = Stopped(Opportunities, "CANCELLED")
    /\ op' = Marked(Opportunities, "PAUSED")
    /\ account' = [l \in Lanes |-> [account[l] EXCEPT !.pending = "NONE"]]
    /\ UNCHANGED <<lock, agent, paper, outside>>
Pause(retire) ==
    /\ lock = Free /\ OrgFree
    /\ experiment.running
    /\ experiment' = [experiment EXCEPT !.running = FALSE, !.retired = retire]
    /\ run' = Stopped(Opportunities, "CANCELLED")
    /\ op' = Marked(Opportunities, "PAUSED")
    /\ account' = [l \in Lanes |-> [account[l] EXCEPT !.pending = "NONE"]]
    /\ UNCHANGED <<lock, agent, paper, outside>>

Resume ==
    /\ lock = Free /\ OrgFree
    /\ ~experiment.running /\ ~experiment.retired
    /\ experiment' = [experiment EXCEPT !.running = TRUE]
    /\ UNCHANGED <<lock, op, run, agent, paper, account, outside>>

\* A new observation of the market of a lane.
Observe(l, valid) ==
    /\ signal' = IF valid THEN signal \cup {l} ELSE signal \ {l}
    /\ account' = [account EXCEPT ![l].fresh = TRUE]
    /\ UNCHANGED <<experiment, lock, op, run, agent, paper, revision, manual>>

\* The clock: a candidate gets older, five minutes pass after a decision.
Age(o) ==
    /\ op[o].state # "NONE" /\ op[o].age < 2
    /\ op' = [op EXCEPT ![o].age = @ + 1]
    /\ UNCHANGED <<experiment, lock, run, agent, paper, account, outside>>

Throttle(l) ==
    /\ account[l].recent
    /\ account' = [account EXCEPT ![l].recent = FALSE]
    /\ UNCHANGED <<experiment, lock, op, run, agent, paper, outside>>

----------------------------------------------------------------------------
PaperStep(w) ==
    \/ Begin(w) \/ Skip(w) \/ End(w) \/ Decide(w) \/ Sweep(w) \/ Mark(w)
    \/ Return(w)
    \/ \E l \in Lanes : Read(w, l) \/ Benchmark(w, l)
    \/ \E o \in Opportunities : ScheduleOne(w, o)

AgentStep ==
    \/ OpenReview \/ Answer \/ Publish \/ Commit \/ Die
    \/ \E o \in Opportunities : Claim(o)

Next ==
    \/ \E w \in Workers : PaperStep(w)
    \/ AgentStep
    \/ \E o \in Opportunities, s \in {"FAILED", "CANCELLED"} : StopRun(o, s)
    \/ SaveConfiguration \/ Research \/ Resume
    \/ \E b \in BOOLEAN : Pause(b)
    \/ \E l \in Lanes, b \in BOOLEAN : Observe(l, b)
    \/ \E l \in Lanes : Throttle(l)
    \/ \E o \in Opportunities : Age(o)

Spec == Init /\ [][Next]_vars

\* The paper worker runs run_once every five seconds (also when a transaction
\* is skipped or rolled back) and the clock goes on.
Fairness ==
    /\ \A w \in Workers : WF_vars(PaperStep(w)) /\ SF_vars(Mark(w))
    /\ WF_vars(Commit)
    /\ \A o \in Opportunities : WF_vars(Age(o))

FairSpec == Spec /\ Fairness

----------------------------------------------------------------------------
\* One request is reserved for a candidate at most, whoever schedules it.
OneReservationPerCandidate == \A o \in Opportunities : op[o].reserved <= 1

\* The review of a candidate places at most one entry order.
ReviewAppliedOnce == \A o \in Opportunities : op[o].entries <= 1

\* An entry order was placed on an approval that was published.
EntriesWereApproved ==
    \A o \in Opportunities :
        op[o].entries > 0 => run[o].state = "SUCCEEDED" /\ run[o].verdict = "ALLOW"

\* While an experiment is paused nothing of it can cost a request or trade:
\* no candidate, no open request and no pending order is left, although
\* scheduling, publication and account processing overlap with the pause.
PausedIsQuiet ==
    ~experiment.running =>
        /\ Waiting = {} /\ ActiveRuns = {}
        /\ \A l \in Lanes : account[l].pending = "NONE"

\* Reviews and manual research share the one slot of the organization.
QueueIsShared ==
    /\ Cardinality(ActiveRuns) <= 1
    /\ manual => ActiveRuns = {}

\* Reservations stay within the daily limit of the experiment.
ReviewsWithinLimit == Cardinality(Reserved) <= experiment.settings.limit

\* One open candidate per account and market, whichever account opened it.
OneCandidatePerLane ==
    \A o, p \in Waiting : op[o].lane = op[p].lane => o = p

\* A candidate that was closed keeps its outcome (one paper worker).
OutcomesAreFinal ==
    [][\A o \in Opportunities :
         op[o].state \in Closed => op'[o].state = op[o].state]_vars

\* Every candidate is closed in the end, also without a model, an agent worker
\* or a signal.
CandidatesClose ==
    \A o \in Opportunities : (op[o].state = "WAITING") ~> (op[o].state \in Closed)

\* Candidates stay apart, within the limits and one request each, and none is open
\* while the experiment is paused.
CandidatesAreSound ==
    /\ TypeOK /\ OneCandidatePerLane /\ ReviewsWithinLimit /\ OneReservationPerCandidate
    /\ PausedIsQuiet

\* Reviews share one slot with other research, and only an approval that was published
\* leads to an order.
ReviewsAreSound == EntriesWereApproved /\ QueueIsShared
=============================================================================
