-------------------------- MODULE PaperReviewsProofs --------------------------
(***************************************************************************)
(* Theorems about PaperReviews for every number of accounts, markets,      *)
(* candidates and workers: candidates stay apart and within their limits,  *)
(* a paused experiment is quiet, and an entry follows a published approval.*)
(***************************************************************************)
EXTENDS PaperReviews, FiniteSetTheorems, TLAPS

USE DEF Closed, Active, Ended, Verdicts, Phases

----------------------------------------------------------------------------
(* The invariant. *)

\* The worker that works on the experiment is the one that holds its row.
LockHeld == \A w \in Workers : paper[w].pc \in {"read", "decide"} <=> lock = w

\* Inside the transaction of a running experiment only: its lanes are known.
Processing ==
    \A w \in Workers :
        /\ paper[w].pc = "decide" => experiment.running /\ paper[w].lane \in Lanes
        /\ paper[w].pc = "read" /\ ~experiment.running => paper[w].todo = {}

\* The run that is being published cannot be ended by anybody else.
AgentHolds ==
    /\ agent.pc # "idle" => agent.op \in Opportunities
    /\ agent.pc = "stamped" => run[agent.op].state = "RUNNING"

\* A candidate has a run once a request is reserved for it, not before.
RunsAreReserved ==
    \A o \in Opportunities :
        /\ op[o].state = "NONE" => op[o].reserved = 0 /\ op[o].entries = 0
        /\ op[o].reserved = 0 => run[o].state = "NONE"

LimitKept ==
    IsFiniteSet(Reserved) /\ Cardinality(Reserved) <= experiment.settings.limit

\* The slot of the organization, without counting.
OneOpenReview ==
    /\ \A o, p \in ActiveRuns : o = p
    /\ manual => ActiveRuns = {}

\* What relates candidates and runs, whatever the workers are doing.
Ledger ==
    /\ RunsAreReserved /\ OneCandidatePerLane /\ OneReservationPerCandidate
    /\ LimitKept /\ EntriesWereApproved /\ OneOpenReview

Inv == /\ TypeOK /\ LockHeld /\ Processing /\ AgentHolds /\ Ledger
       /\ PausedIsQuiet

----------------------------------------------------------------------------
(* How rows change. *)

Approved(o) == run[o].state = "SUCCEEDED" /\ run[o].verdict = "ALLOW"

\* Candidates keep their requests, an entry is new only after an approval, and
\* nothing is forgotten.
Kept(rows) ==
    \A o \in Opportunities :
        /\ rows[o].reserved = op[o].reserved
        /\ rows[o].state = "NONE" => op[o].state = "NONE"
        /\ Approved(o) \/ rows[o].entries = op[o].entries

\* No candidate is opened.
NoneOpened(rows) ==
    \A o \in Opportunities :
        /\ rows[o].state = "WAITING" => op[o].state = "WAITING"
        /\ rows[o].lane = op[o].lane

\* Only runs that are open change, and they stay open or end.
RunsForward ==
    \A o \in Opportunities :
        \/ run'[o] = run[o]
        \/ run[o].state \in Active /\ run'[o].state \in Active \cup Ended

LEMMA MarkedRows ==
    ASSUME op \in [Opportunities -> OpRecord], NEW S, NEW state \in Closed
    PROVE  /\ Marked(S, state) \in [Opportunities -> OpRecord]
           /\ Kept(Marked(S, state)) /\ NoneOpened(Marked(S, state))
           /\ \A o \in Opportunities : Marked(S, state)[o].state =
                IF o \in S /\ op[o].state = "WAITING" THEN state ELSE op[o].state
<1> DEFINE rows == Marked(S, state)
<1>1. ASSUME NEW o \in Opportunities
      PROVE  /\ rows[o] \in OpRecord
             /\ rows[o].reserved = op[o].reserved
             /\ rows[o].entries = op[o].entries
             /\ rows[o].lane = op[o].lane
             /\ rows[o].state = IF o \in S /\ op[o].state = "WAITING" THEN state
                                                                      ELSE op[o].state
  <2>1. op[o] \in OpRecord
    OBVIOUS
  <2>2. rows[o] = IF o \in S \cap Waiting THEN [op[o] EXCEPT !.state = state] ELSE op[o]
    BY DEF Marked
  <2> HIDE DEF rows
  <2>3. QED
    BY <2>1, <2>2 DEF OpRecord, Waiting
<1>2. rows \in [Opportunities -> OpRecord]
  BY <1>1 DEF Marked
<1>3. QED
  BY <1>1, <1>2 DEF Kept, NoneOpened

LEMMA StoppedRuns ==
    ASSUME run \in [Opportunities -> RunRecord], NEW S,
           NEW state \in {"FAILED", "CANCELLED"}
    PROVE  /\ Stopped(S, state) \in [Opportunities -> RunRecord]
           /\ \A o \in Opportunities :
                /\ o \notin S => Stopped(S, state)[o] = run[o]
                /\ \/ Stopped(S, state)[o] = run[o]
                   \/ run[o].state \in Active /\ Stopped(S, state)[o].state \in Ended
                /\ o \in S => Stopped(S, state)[o].state \notin Active
<1> DEFINE runs == Stopped(S, state)
<1>1. ASSUME NEW o \in Opportunities
      PROVE  /\ runs[o] \in RunRecord
             /\ o \notin S => runs[o] = run[o]
             /\ \/ runs[o] = run[o]
                \/ run[o].state \in Active /\ runs[o].state \in Ended
             /\ o \in S => runs[o].state \notin Active
  <2>1. run[o] \in RunRecord
    OBVIOUS
  <2>2. runs[o] = IF o \in S \cap ActiveRuns THEN [run[o] EXCEPT !.state = state] ELSE run[o]
    BY DEF Stopped
  <2> HIDE DEF runs
  <2>3. QED
    BY <2>1, <2>2 DEF RunRecord, ActiveRuns
<1>2. runs \in [Opportunities -> RunRecord]
  BY <1>1 DEF Stopped
<1>3. QED
  BY <1>1, <1>2

\* The ledger survives whatever closes candidates and moves runs forward.
LEMMA LedgerKept ==
    ASSUME Inv, TypeOK', Kept(op'), RunsForward,
           experiment'.settings = experiment.settings,
           OneCandidatePerLane', manual' => manual \/ ActiveRuns = {}
    PROVE  Ledger'
<1>1. \A o \in Opportunities : op[o] \in OpRecord /\ op'[o] \in OpRecord
  BY DEF Inv, TypeOK
<1>2. \A o \in Opportunities : run[o] \in RunRecord /\ run'[o] \in RunRecord
  BY DEF Inv, TypeOK
<1>3. RunsAreReserved'
  <2> SUFFICES ASSUME NEW o \in Opportunities
               PROVE  /\ op'[o].state = "NONE" => op'[o].reserved = 0 /\ op'[o].entries = 0
                      /\ op'[o].reserved = 0 => run'[o].state = "NONE"
    BY DEF RunsAreReserved
  <2>1. op[o].reserved = 0 => run[o].state = "NONE"
    BY DEF Inv, Ledger, RunsAreReserved
  <2>2. op[o].state = "NONE" => op[o].reserved = 0 /\ op[o].entries = 0
    BY DEF Inv, Ledger, RunsAreReserved
  <2>3. run[o].state = "NONE" => run'[o].state = "NONE" /\ ~Approved(o)
    BY DEF RunsForward, Approved
  <2>4. QED
    BY <2>1, <2>2, <2>3 DEF Kept
<1>4. OneReservationPerCandidate'
  BY DEF Inv, Ledger, OneReservationPerCandidate, Kept
<1>5. LimitKept'
  <2>1. Reserved' = Reserved
    BY DEF Reserved, Kept
  <2>2. QED
    BY <2>1 DEF Inv, Ledger, LimitKept
<1>6. EntriesWereApproved'
  <2> SUFFICES ASSUME NEW o \in Opportunities, op'[o].entries > 0
               PROVE  Approved(o)'
    BY DEF EntriesWereApproved, Approved
  <2>1. Approved(o)
    BY DEF Inv, Ledger, EntriesWereApproved, Kept, Approved
  <2>2. QED
    BY <2>1 DEF RunsForward, Approved
<1>7. OneOpenReview'
  <2>1. ActiveRuns' \subseteq ActiveRuns
    BY <1>2 DEF ActiveRuns, RunsForward
  <2>2. QED
    BY <2>1 DEF Inv, Ledger, OneOpenReview
<1>8. QED
  BY <1>3, <1>4, <1>5, <1>6, <1>7 DEF Ledger

LEMMA LanesKept ==
    ASSUME Inv, NoneOpened(op')
    PROVE  OneCandidatePerLane' /\ Waiting' \subseteq Waiting
  BY DEF Inv, Ledger, OneCandidatePerLane, Waiting, NoneOpened

\* Steps that change neither candidates nor runs.
LEMMA LedgerSame ==
    ASSUME Inv, TypeOK', UNCHANGED <<op, run>>,
           experiment'.settings = experiment.settings,
           manual' => manual \/ ActiveRuns = {}
    PROVE  Ledger' /\ ActiveRuns' = ActiveRuns /\ Waiting' = Waiting
<1>1. Kept(op') /\ RunsForward /\ OneCandidatePerLane'
  BY DEF Kept, RunsForward, Inv, Ledger, OneCandidatePerLane, Waiting
<1>2. QED
  BY <1>1, LedgerKept DEF ActiveRuns, Waiting

----------------------------------------------------------------------------
(* The initial states. *)

LEMMA InitInv == Init => Inv
<1> SUFFICES ASSUME Init PROVE Inv
  OBVIOUS
<1>1. TypeOK
  <2>1. \A w \in Workers : paper[w] = IdlePaper
    BY DEF Init
  <2>2. IdlePaper \in PaperRecord /\ IdleAgent.pc = "idle" /\ IdleAgent.op = None
    BY DEF IdlePaper, IdleAgent, PaperRecord
  <2>3. op \in [Opportunities -> OpRecord]
    BY DEF Init, OpRecord
  <2>4. run \in [Opportunities -> RunRecord]
    BY DEF Init, RunRecord
  <2>5. account \in [Lanes -> AccountRecord]
    BY DEF Init, AccountRecord
  <2>6. paper \in [Workers -> PaperRecord]
    BY <2>2 DEF Init
  <2>7. agent \in [pc : {"idle", "open", "call", "publish", "stamped"},
                   op : Opportunities \cup {None}, verdict : Verdicts]
    BY DEF Init, IdleAgent
  <2>8. experiment \in [running : BOOLEAN, retired : BOOLEAN, settings : Settings]
    BY DEF Init
  <2>9. lock = Free /\ signal = {} /\ revision = 0 /\ manual = FALSE
    BY DEF Init
  <2>10. QED
    BY <2>3, <2>4, <2>5, <2>6, <2>7, <2>8, <2>9 DEF TypeOK
<1>2. \A w \in Workers : paper[w].pc = "idle" /\ lock # w
  BY SentinelAssumption DEF Init, IdlePaper
<1>3. LockHeld /\ Processing
  BY <1>2 DEF LockHeld, Processing
<1>4. AgentHolds
  BY DEF Init, AgentHolds, IdleAgent
<1>5. Reserved = {} /\ ActiveRuns = {} /\ Waiting = {}
  BY DEF Init, Reserved, ActiveRuns, Waiting
<1>6. LimitKept
  <2>1. experiment.settings.limit \in Nat
    BY <1>1, SettingsAssumption DEF TypeOK
  <2>2. QED
    BY <1>5, <2>1, FS_EmptySet DEF LimitKept
<1>7. Ledger
  BY <1>5, <1>6 DEF Init, Ledger, RunsAreReserved, OneCandidatePerLane,
     OneReservationPerCandidate, EntriesWereApproved, OneOpenReview
<1>8. PausedIsQuiet
  BY DEF Init, PausedIsQuiet
<1>9. QED
  BY <1>1, <1>3, <1>4, <1>7, <1>8 DEF Inv

----------------------------------------------------------------------------
(* The paper workers. *)

\* One worker moves to r: the lock follows its program counter.
Goes(w, r) ==
    /\ r \in PaperRecord
    /\ paper' = [paper EXCEPT ![w] = r]

LEMMA WorkerGoes ==
    ASSUME Inv, NEW w \in Workers, NEW r, Goes(w, r)
    PROVE  /\ paper' \in [Workers -> PaperRecord]
           /\ paper'[w] = r
           /\ \A v \in Workers \ {w} : paper'[v] = paper[v]
  BY DEF Inv, TypeOK, Goes

LEMMA LockKept ==
    ASSUME Inv, NEW w \in Workers, NEW r, Goes(w, r), lock' = lock,
           r.pc \in {"read", "decide"} <=> paper[w].pc \in {"read", "decide"}
    PROVE  LockHeld'
  BY WorkerGoes DEF Inv, LockHeld

LEMMA ProcessingKept ==
    ASSUME Inv, NEW w \in Workers, NEW r, Goes(w, r),
           experiment'.running = experiment.running,
           r.pc = "decide" => experiment.running /\ r.lane \in Lanes,
           r.pc = "read" /\ ~experiment.running => r.todo = {}
    PROVE  Processing'
  BY WorkerGoes DEF Inv, Processing

LEMMA PausedKept ==
    ASSUME Inv, experiment'.running = experiment.running,
           Waiting' \subseteq Waiting, ActiveRuns' \subseteq ActiveRuns,
           ~experiment.running => \A l \in Lanes : account'[l].pending \in {"NONE", account[l].pending}
    PROVE  PausedIsQuiet'
  BY DEF Inv, PausedIsQuiet

LEMMA CycleTypes ==
    ASSUME NEW a \in AccountRecord, NEW b \in Cycles(a)
    PROVE  /\ b \in AccountRecord
           /\ ~experiment.running => b.pending \in {"NONE", a.pending}
<1>1. PICK c : c = Loaded(a)
  OBVIOUS
<1>2. c \in AccountRecord /\ c.pending = a.pending
  BY <1>1 DEF Loaded, AccountRecord
<1>3. \A d \in Settled(c) : d \in AccountRecord /\ d.pending \in {"NONE", c.pending}
  BY <1>2 DEF Settled, AccountRecord
<1>4. \A d \in Executed(c) : d \in AccountRecord
  <2> SUFFICES ASSUME NEW d \in Executed(c) PROVE d \in AccountRecord
    OBVIOUS
  <2>1. CASE d \in Settled(c)
    BY <2>1, <1>3
  <2>2. CASE d \notin Settled(c)
    <3>1. PICK h \in {c.held, c.pending = "BUY"} :
             d = [c EXCEPT !.pending = "NONE", !.held = h]
      BY <2>2 DEF Executed
    <3>2. h \in BOOLEAN
      BY <1>2 DEF AccountRecord
    <3>3. QED
      BY <1>2, <3>1, <3>2 DEF AccountRecord
  <2>3. QED
    BY <2>1, <2>2
<1>5. QED
  BY <1>1, <1>2, <1>3, <1>4 DEF Cycles

LEMMA BeginGoes ==
    ASSUME Inv, NEW w \in Workers, Begin(w)
    PROVE  \E r : /\ Goes(w, r) /\ r.pc = "read"
                  /\ r.todo = (IF experiment.running THEN Lanes ELSE {})
<1> DEFINE r == [IdlePaper EXCEPT
         !.pc = "read",
         !.late = {o \in Opportunities : op[o].age > 0},
         !.cooled = {o \in Opportunities : op[o].age = 2},
         !.finished = {o \in Opportunities : run[o].state = "SUCCEEDED"}
                        \cup (IF OrgFree THEN {} ELSE {agent.op}),
         !.signal = signal,
         !.todo = IF experiment.running THEN Lanes ELSE {}]
<1>1. /\ r.pc = "read" /\ r.todo = (IF experiment.running THEN Lanes ELSE {})
      /\ r \in PaperRecord
  <2>1. {agent.op} \subseteq Opportunities \/ OrgFree
    BY DEF Inv, AgentHolds, OrgFree
  <2>2. signal \subseteq Lanes
    BY DEF Inv, TypeOK
  <2>3. QED
    BY <2>1, <2>2 DEF IdlePaper, PaperRecord
<1>2. Goes(w, r)
  BY <1>1 DEF Begin, Goes
<1> HIDE DEF r
<1>3. QED
  BY <1>1, <1>2

LEMMA BeginInv == ASSUME Inv, NEW w \in Workers, Begin(w) PROVE Inv'
<1>1. PICK r : /\ Goes(w, r) /\ r.pc = "read"
               /\ r.todo = (IF experiment.running THEN Lanes ELSE {})
  BY BeginGoes
<1>3. \A l \in Lanes : /\ account'[l] \in AccountRecord
                       /\ ~experiment.running => account'[l].pending \in {"NONE", account[l].pending}
  BY CycleTypes DEF Begin, Inv, TypeOK
<1>4. account' \in [Lanes -> AccountRecord]
  BY <1>3 DEF Begin
<1>5. TypeOK'
  BY <1>1, <1>4, WorkerGoes DEF Inv, TypeOK, Begin, outside
<1>6. LockHeld'
  <2>1. \A v \in Workers : paper[v].pc \notin {"read", "decide"}
    BY SentinelAssumption DEF Begin, Inv, LockHeld
  <2>2. lock' = w
    BY DEF Begin
  <2>3. paper'[w] = r /\ \A v \in Workers \ {w} : paper'[v] = paper[v]
    BY <1>1, WorkerGoes
  <2>4. QED
    BY <2>1, <2>2, <2>3, <1>1 DEF LockHeld
<1>7. Processing'
  BY <1>1, <1>1, ProcessingKept DEF Begin
<1>8. Ledger' /\ ActiveRuns' = ActiveRuns /\ Waiting' = Waiting
  BY <1>5, LedgerSame DEF Begin, outside
<1>9. PausedIsQuiet'
  BY <1>3, <1>8, PausedKept DEF Begin
<1>10. AgentHolds'
  BY DEF Begin, Inv, AgentHolds
<1>11. QED
  BY <1>5, <1>6, <1>7, <1>8, <1>9, <1>10 DEF Inv

\* Steps that only move one worker.
LEMMA MoveInv ==
    ASSUME Inv, NEW w \in Workers, NEW r, Goes(w, r),
           UNCHANGED <<experiment, lock, op, run, agent, account, outside>>,
           r.pc \in {"read", "decide"} <=> paper[w].pc \in {"read", "decide"},
           r.pc = "decide" => experiment.running /\ r.lane \in Lanes,
           r.pc = "read" /\ ~experiment.running => r.todo = {}
    PROVE  Inv'
<1>1. TypeOK'
  BY WorkerGoes DEF Inv, TypeOK, outside
<1>2. LockHeld' /\ Processing'
  BY LockKept, ProcessingKept
<1>3. Ledger' /\ ActiveRuns' = ActiveRuns /\ Waiting' = Waiting
  BY <1>1, LedgerSame DEF outside
<1>4. PausedIsQuiet'
  BY <1>3, PausedKept
<1>5. AgentHolds'
  BY DEF Inv, AgentHolds
<1>6. QED
  BY <1>1, <1>2, <1>3, <1>4, <1>5 DEF Inv

LEMMA SkipInv == ASSUME Inv, NEW w \in Workers, Skip(w) PROVE Inv'
<1> DEFINE r == [IdlePaper EXCEPT !.pc = "sweep"]
<1>1. r \in PaperRecord /\ r.pc = "sweep"
  BY DEF IdlePaper, PaperRecord
<1>2. Goes(w, r) /\ paper[w].pc = "idle"
  BY <1>1 DEF Skip, Goes
<1> HIDE DEF r
<1>3. QED
  BY <1>1, <1>2, MoveInv DEF Skip

LEMMA ReturnInv == ASSUME Inv, NEW w \in Workers, Return(w) PROVE Inv'
<1>1. IdlePaper \in PaperRecord /\ IdlePaper.pc = "idle"
  BY DEF IdlePaper, PaperRecord
<1>2. Goes(w, IdlePaper) /\ paper[w].pc \in {"mark", "schedule"}
  BY <1>1 DEF Return, Goes
<1>3. QED
  BY <1>1, <1>2, MoveInv DEF Return

LEMMA ReadInv ==
    ASSUME Inv, NEW w \in Workers, NEW l \in Lanes, Read(w, l) PROVE Inv'
<1>1. PICK o \in Resumable(l) \cup {None} :
         paper' = [paper EXCEPT ![w] = [@ EXCEPT !.pc = "decide", !.lane = l, !.found = o]]
  BY DEF Read
<1> DEFINE r == [paper[w] EXCEPT !.pc = "decide", !.lane = l, !.found = o]
<1>2. paper[w] \in PaperRecord /\ o \in Opportunities \cup {None}
  BY DEF Inv, TypeOK, Resumable, Waiting
<1>3. r \in PaperRecord /\ r.pc = "decide" /\ r.lane = l
  BY <1>2 DEF PaperRecord
<1>4. Goes(w, r) /\ paper[w].pc = "read"
  BY <1>1, <1>3 DEF Read, Goes, Inv, TypeOK
<1>5. experiment.running
  BY DEF Read, Inv, Processing
<1> HIDE DEF r
<1>6. QED
  BY <1>3, <1>4, <1>5, MoveInv DEF Read

LEMMA EndInv == ASSUME Inv, NEW w \in Workers, End(w) PROVE Inv'
<1> DEFINE r == [IdlePaper EXCEPT !.pc = "sweep"]
<1>1. r \in PaperRecord /\ r.pc = "sweep"
  BY DEF IdlePaper, PaperRecord
<1>2. Goes(w, r)
  BY <1>1 DEF End, Goes
<1> HIDE DEF r
<1>3. TypeOK'
  BY <1>2, WorkerGoes DEF Inv, TypeOK, End, outside
<1>4. LockHeld'
  <2>1. lock = w /\ lock' = Free
    BY DEF End, Inv, LockHeld
  <2>2. paper'[w] = r /\ \A v \in Workers \ {w} : paper'[v] = paper[v]
    BY <1>2, WorkerGoes
  <2>3. \A v \in Workers : paper'[v].pc \notin {"read", "decide"}
    BY <1>1, <2>1, <2>2 DEF Inv, LockHeld
  <2>4. QED
    BY <2>1, <2>3, SentinelAssumption DEF LockHeld
<1>5. Processing'
  BY <1>1, <1>2, ProcessingKept DEF End
<1>6. Ledger' /\ ActiveRuns' = ActiveRuns /\ Waiting' = Waiting
  BY <1>3, LedgerSame DEF End, outside
<1>7. PausedIsQuiet'
  BY <1>6, PausedKept DEF End
<1>8. AgentHolds'
  BY DEF End, Inv, AgentHolds
<1>9. QED
  BY <1>3, <1>4, <1>5, <1>6, <1>7, <1>8 DEF Inv

\* One open candidate per lane, of rows that are not written yet.
Apart(rows) ==
    \A o, p \in Opportunities :
        rows[o].state = "WAITING" /\ rows[p].state = "WAITING"
          /\ rows[o].lane = rows[p].lane => o = p

Rows(rows) == rows \in [Opportunities -> OpRecord] /\ Kept(rows) /\ Apart(rows)

\* A candidate is opened only when nothing else is open in its lane.
LEMMA OpportunityRows ==
    ASSUME Inv, NEW w \in Workers, NEW l \in Lanes, NEW c \in OpportunityFor(w, l)
    PROVE  Rows(c[2]) /\ c[1] \in Opportunities \cup {None}
<1> DEFINE closing == Closing(w, l)
<1>1. op \in [Opportunities -> OpRecord]
  BY DEF Inv, TypeOK
<1>2. Rows(op)
  BY <1>1 DEF Inv, Ledger, OneCandidatePerLane, Waiting, Rows, Kept, Apart
<1>3. /\ closing \in [Opportunities -> OpRecord] /\ Kept(closing) /\ NoneOpened(closing)
      /\ \A o \in Opportunities :
           closing[o].state = IF o \in In(l) \cap paper[w].late /\ op[o].state = "WAITING"
                              THEN "EXPIRED" ELSE op[o].state
  BY <1>1, MarkedRows DEF Closing
<1> HIDE DEF closing
<1>4. Apart(closing)
  BY <1>2, <1>3 DEF Rows, Apart, NoneOpened
<1>5. CASE Valid(w, l) # {}
  BY <1>2, <1>5 DEF OpportunityFor, Valid, Waiting
<1>6. CASE Valid(w, l) = {} /\ MayOpen(w, l)
  <2>1. PICK o \in Opportunities :
           op[o].state = "NONE" /\ c = <<o, [closing EXCEPT ![o] = Opened(l)]>>
    BY <1>6 DEF OpportunityFor, closing
  <2> DEFINE rows == [closing EXCEPT ![o] = Opened(l)]
  <2>2. Opened(l) \in OpRecord /\ Opened(l).reserved = 0 /\ Opened(l).entries = 0
        /\ Opened(l).state = "WAITING" /\ Opened(l).lane = l
    BY DEF Opened, OpRecord
  <2>3. rows \in [Opportunities -> OpRecord] /\ rows[o] = Opened(l)
        /\ \A p \in Opportunities \ {o} : rows[p] = closing[p]
    BY <1>3, <2>2
  <2> HIDE DEF rows
  <2>4. op[o].reserved = 0 /\ op[o].entries = 0
    BY <2>1 DEF Inv, Ledger, RunsAreReserved
  <2>5. Kept(rows)
    BY <1>3, <2>1, <2>2, <2>3, <2>4 DEF Kept
  <2>6. \A p \in Opportunities \ {o} : closing[p].state = "WAITING" => closing[p].lane # l
    <3> SUFFICES ASSUME NEW p \in Opportunities \ {o}, closing[p].state = "WAITING",
                        closing[p].lane = l
                 PROVE  FALSE
      OBVIOUS
    <3>1. op[p].state = "WAITING" /\ op[p].lane = l
      BY <1>3 DEF NoneOpened
    <3>2. p \in In(l) \cap Waiting
      BY <3>1 DEF In, Waiting
    <3>3. p \in paper[w].late
      BY <3>2, <1>6 DEF Valid
    <3>4. QED
      BY <1>3, <3>1, <3>2, <3>3
  <2>7. Apart(rows)
    BY <1>4, <2>2, <2>3, <2>6 DEF Apart
  <2>8. QED
    BY <2>1, <2>3, <2>5, <2>7 DEF Rows, rows
<1>7. CASE Valid(w, l) = {} /\ ~MayOpen(w, l)
  BY <1>3, <1>4, <1>7 DEF OpportunityFor, closing, Rows
<1>8. QED
  BY <1>5, <1>6, <1>7

LEMMA RowsInv ==
    ASSUME Inv, TypeOK', Rows(op'), UNCHANGED <<run, manual>>,
           experiment'.settings = experiment.settings
    PROVE  Ledger'
<1>1. OneCandidatePerLane'
  BY DEF Rows, Apart, OneCandidatePerLane, Waiting
<1>2. RunsForward
  BY DEF RunsForward
<1>3. QED
  BY <1>1, <1>2, LedgerKept DEF Rows

LEMMA BenchmarkInv ==
    ASSUME Inv, NEW w \in Workers, NEW l \in Lanes, Benchmark(w, l) PROVE Inv'
<1>1. PICK c \in OpportunityFor(w, l) : op' = c[2]
  BY DEF Benchmark
<1>2. Rows(op')
  BY <1>1, OpportunityRows
<1>3. TypeOK'
  BY <1>2 DEF Inv, TypeOK, Benchmark, outside, Rows
<1>4. Ledger'
  BY <1>2, <1>3, RowsInv DEF Benchmark, outside
<1>5. experiment.running /\ UNCHANGED experiment
  BY DEF Benchmark, Inv, Processing
<1>6. LockHeld' /\ Processing' /\ AgentHolds' /\ PausedIsQuiet'
  BY <1>5 DEF Benchmark, Inv, LockHeld, Processing, AgentHolds, PausedIsQuiet
<1>7. QED
  BY <1>3, <1>4, <1>6 DEF Inv

\* Only an approval that was published passes the gate.
LEMMA GateApproves ==
    ASSUME Inv, NEW w \in Workers, NEW l, NEW o \in Opportunities \cup {None}
    PROVE  /\ Checked(l, Gate(w, o)) \in Closed
           /\ Checked(l, Gate(w, o)) = "ALLOWED" => o \in Opportunities /\ Approved(o)
<1>1. CASE o = None
  BY <1>1 DEF Gate, Checked
<1>2. CASE o \in Opportunities
  <2>1. run[o] \in RunRecord
    BY <1>2 DEF Inv, TypeOK
  <2>2. run[o].verdict \in Verdicts
    BY <2>1 DEF RunRecord
  <2>3. /\ Gate(w, o) \in {"ALLOWED", "REJECTED", "ABSTAINED", "FAILED", "INVALIDATED"}
        /\ Gate(w, o) = "ALLOWED" => Approved(o)
    BY <2>2 DEF Gate, Approved
  <2>4. QED
    BY <1>2, <2>3 DEF Checked
<1>3. QED
  BY <1>1, <1>2

LEMMA Concluded ==
    ASSUME Inv, NEW w \in Workers, paper[w].lane \in Lanes,
           NEW o \in Opportunities \cup {None}, NEW rows, Rows(rows),
           NEW result \in Closed, NEW order \in {"NONE", "BUY", "SELL"},
           order = "BUY" => o \in Opportunities /\ Approved(o),
           Conclude(w, o, rows, result, order)
    PROVE  Rows(op') /\ account' \in [Lanes -> AccountRecord]
<1> DEFINE review == paper[w].found # None
           bought == IF order = "BUY" THEN 1 ELSE 0
           l == paper[w].lane
<1>1. Rows(op')
  <2>1. CASE o = None
    BY <2>1 DEF Conclude
  <2>2. CASE o \in Opportunities /\ o # None
    <3> DEFINE row == [rows[o] EXCEPT !.state = IF review THEN result ELSE @,
                                      !.entries = @ + bought]
    <3>1. op' = [rows EXCEPT ![o] = row]
      <4> HIDE DEF row
      <4>1. op' = [rows EXCEPT ![o] = [rows[o] EXCEPT
                     !.state = IF review THEN result ELSE rows[o].state,
                     !.entries = rows[o].entries + bought]]
        BY <2>2 DEF Conclude
      <4>2. QED
        BY <4>1 DEF row
    <3>2. rows[o] \in OpRecord /\ bought \in Nat /\ (order # "BUY" => bought = 0)
      BY <2>2 DEF Rows
    <3>3. /\ row \in OpRecord /\ row.reserved = rows[o].reserved /\ row.lane = rows[o].lane
          /\ row.state = rows[o].state \/ row.state \in Closed
          /\ order # "BUY" => row.entries = rows[o].entries
      <4> DEFINE s == IF review THEN result ELSE rows[o].state
                 n == rows[o].entries + bought
      <4>1. n \in Nat /\ (order # "BUY" => n = rows[o].entries)
        BY <3>2 DEF OpRecord
      <4>2. s \in {"NONE", "WAITING"} \cup Closed /\ (s = rows[o].state \/ s \in Closed)
        BY <3>2 DEF OpRecord
      <4>3. row = [rows[o] EXCEPT !.state = s, !.entries = n]
        OBVIOUS
      <4> HIDE DEF s, n, row
      <4>4. QED
        BY <3>2, <4>1, <4>2, <4>3 DEF OpRecord
    <3>4. /\ op' \in [Opportunities -> OpRecord] /\ op'[o] = row
          /\ \A p \in Opportunities \ {o} : op'[p] = rows[p]
      BY <2>2, <3>1, <3>3 DEF Rows
    <3> HIDE DEF row
    <3>5. Kept(op')
      BY <2>2, <3>3, <3>4 DEF Rows, Kept
    <3>6. Apart(op')
      BY <2>2, <3>3, <3>4 DEF Rows, Apart
    <3>7. QED
      BY <3>4, <3>5, <3>6 DEF Rows
  <2>3. QED
    BY <2>1, <2>2
<1>2. account' \in [Lanes -> AccountRecord]
  <2> DEFINE row == [account[l] EXCEPT
                       !.decided = @ \cup {IF review THEN "REVIEW" ELSE "SIGNAL"},
                       !.recent = TRUE, !.pending = order]
  <2>1. account \in [Lanes -> AccountRecord] /\ account[l] \in AccountRecord
    BY DEF Inv, TypeOK
  <2>2. row \in AccountRecord
    BY <2>1 DEF AccountRecord
  <2>3. account' = [account EXCEPT ![l] = row]
    BY DEF Conclude
  <2>4. QED
    BY <2>1, <2>2, <2>3
<1>3. QED
  BY <1>1, <1>2

LEMMA DecideInv == ASSUME Inv, NEW w \in Workers, Decide(w) PROVE Inv'
<1> DEFINE l == paper[w].lane
           found == paper[w].found
           r == [paper[w] EXCEPT !.pc = "read", !.lane = None, !.found = None,
                                 !.todo = @ \ {l}]
<1>1. paper[w] \in PaperRecord /\ l \in Lanes /\ experiment.running
      /\ found \in Opportunities \cup {None}
  <2>1. paper[w] \in PaperRecord
    BY DEF Inv, TypeOK
  <2>2. l \in Lanes /\ experiment.running
    BY DEF Decide, Inv, Processing
  <2>3. QED
    BY <2>1, <2>2 DEF PaperRecord
<1>2. r \in PaperRecord /\ r.pc = "read"
  BY <1>1 DEF PaperRecord
<1>3. Goes(w, r) /\ paper[w].pc = "decide"
  BY <1>1, <1>2 DEF Decide, Goes, Inv, TypeOK
<1>4. Rows(op)
  BY DEF Inv, TypeOK, Ledger, OneCandidatePerLane, Waiting, Rows, Kept, Apart
<1>5. Rows(op') /\ account' \in [Lanes -> AccountRecord]
  <2>1. CASE UNCHANGED <<op, account>>
    BY <1>4, <2>1 DEF Inv, TypeOK
  <2>2. CASE Conclude(w, found, op, "INVALIDATED", "NONE")
    BY <1>1, <1>4, <2>2, Concluded
  <2>3. CASE Conclude(w, found, op, "INVALIDATED", "SELL")
    BY <1>1, <1>4, <2>3, Concluded
  <2>4. CASE \E c \in IF found = None THEN OpportunityFor(w, l) ELSE {<<found, op>>} :
             \E result \in {Checked(l, Gate(w, c[1])), "INVALIDATED"} :
                Conclude(w, c[1], c[2], result, IF result = "ALLOWED" THEN "BUY" ELSE "NONE")
    <3>1. PICK c \in IF found = None THEN OpportunityFor(w, l) ELSE {<<found, op>>} :
             \E result \in {Checked(l, Gate(w, c[1])), "INVALIDATED"} :
                Conclude(w, c[1], c[2], result, IF result = "ALLOWED" THEN "BUY" ELSE "NONE")
      BY <2>4
    <3>2. PICK result \in {Checked(l, Gate(w, c[1])), "INVALIDATED"} :
             Conclude(w, c[1], c[2], result, IF result = "ALLOWED" THEN "BUY" ELSE "NONE")
      BY <3>1
    <3>3. Rows(c[2]) /\ c[1] \in Opportunities \cup {None}
      BY <1>1, <1>4, OpportunityRows
    <3>4. result \in Closed /\ (result = "ALLOWED" => c[1] \in Opportunities /\ Approved(c[1]))
      BY <3>3, GateApproves
    <3>5. QED
      BY <1>1, <3>2, <3>3, <3>4, Concluded
  <2>5. QED
    BY <2>1, <2>2, <2>3, <2>4 DEF Decide
<1> HIDE DEF r
<1>6. TypeOK'
  BY <1>3, <1>5, WorkerGoes DEF Inv, TypeOK, Decide, outside, Rows
<1>7. LockHeld'
  BY <1>2, <1>3, LockKept DEF Decide
<1>8. Processing'
  BY <1>1, <1>2, <1>3, ProcessingKept DEF Decide
<1>9. Ledger'
  BY <1>5, <1>6, RowsInv DEF Decide, outside
<1>10. AgentHolds' /\ PausedIsQuiet'
  BY <1>1 DEF Decide, Inv, AgentHolds, PausedIsQuiet
<1>11. QED
  BY <1>6, <1>7, <1>8, <1>9, <1>10 DEF Inv

----------------------------------------------------------------------------
(* Scheduling, outside any transaction. *)

\* Steps that move runs forward and leave the candidates alone.
LEMMA RunsLedger ==
    ASSUME Inv, TypeOK', RunsForward, UNCHANGED op,
           experiment'.settings = experiment.settings,
           manual' => manual \/ ActiveRuns = {}
    PROVE  Ledger' /\ ActiveRuns' \subseteq ActiveRuns /\ Waiting' = Waiting
<1>1. Kept(op') /\ OneCandidatePerLane'
  BY DEF Kept, Inv, Ledger, OneCandidatePerLane, Waiting
<1>2. QED
  BY <1>1, LedgerKept DEF ActiveRuns, Waiting, RunsForward

\* Steps that close candidates and leave the runs alone.
LEMMA ClosesLedger ==
    ASSUME Inv, TypeOK', Kept(op'), NoneOpened(op'), UNCHANGED <<run, manual>>,
           experiment'.settings = experiment.settings
    PROVE  Ledger' /\ ActiveRuns' = ActiveRuns /\ Waiting' \subseteq Waiting
<1>1. RunsForward /\ ActiveRuns' = ActiveRuns
  BY DEF RunsForward, ActiveRuns
<1>2. QED
  BY <1>1, LanesKept, LedgerKept

LEMMA SweepInv == ASSUME Inv, NEW w \in Workers, Sweep(w) PROVE Inv'
<1> DEFINE late == {o \in Opportunities : op[o].age > 0}
           r == [paper[w] EXCEPT !.pc = "mark", !.late = late]
<1>1. paper[w] \in PaperRecord /\ run \in [Opportunities -> RunRecord]
  BY DEF Inv, TypeOK
<1>2. r \in PaperRecord /\ r.pc = "mark"
  BY <1>1 DEF PaperRecord
<1>3. Goes(w, r) /\ paper[w].pc = "sweep"
  BY <1>2 DEF Sweep, Goes
<1>4. run' \in [Opportunities -> RunRecord] /\ RunsForward
  BY <1>1, StoppedRuns DEF Sweep, RunsForward
<1>5. AgentHolds'
  BY <1>1, StoppedRuns DEF Sweep, Inv, AgentHolds, Unlocked
<1> HIDE DEF r, late
<1>6. TypeOK'
  BY <1>3, <1>4, WorkerGoes DEF Inv, TypeOK, Sweep, outside
<1>7. LockHeld'
  BY <1>2, <1>3, LockKept DEF Sweep
<1>8. Processing'
  BY <1>2, <1>3, ProcessingKept DEF Sweep
<1>9. Ledger' /\ ActiveRuns' \subseteq ActiveRuns /\ Waiting' = Waiting
  BY <1>4, <1>6, RunsLedger DEF Sweep, outside
<1>10. PausedIsQuiet'
  BY <1>9, PausedKept DEF Sweep
<1>11. QED
  BY <1>5, <1>6, <1>7, <1>8, <1>9, <1>10 DEF Inv

LEMMA MarkInv == ASSUME Inv, NEW w \in Workers, Mark(w) PROVE Inv'
<1> DEFINE r == [paper[w] EXCEPT
         !.pc = "schedule", !.late = {},
         !.todo = {o \in Waiting \ paper[w].late :
                     experiment.running /\ op[o].reserved = 0}]
<1>1. paper[w] \in PaperRecord /\ op \in [Opportunities -> OpRecord]
  BY DEF Inv, TypeOK
<1>2. r \in PaperRecord /\ r.pc = "schedule"
  BY <1>1 DEF PaperRecord, Waiting
<1>3. Goes(w, r) /\ paper[w].pc = "mark"
  BY <1>2 DEF Mark, Goes
<1>4. op' \in [Opportunities -> OpRecord] /\ Kept(op') /\ NoneOpened(op')
  BY <1>1, MarkedRows DEF Mark
<1> HIDE DEF r
<1>5. TypeOK'
  BY <1>3, <1>4, WorkerGoes DEF Inv, TypeOK, Mark, outside
<1>6. LockHeld'
  BY <1>2, <1>3, LockKept DEF Mark
<1>7. Processing'
  BY <1>2, <1>3, ProcessingKept DEF Mark
<1>8. Ledger' /\ ActiveRuns' = ActiveRuns /\ Waiting' \subseteq Waiting
  BY <1>4, <1>5, ClosesLedger DEF Mark, outside
<1>9. PausedIsQuiet'
  BY <1>8, PausedKept DEF Mark
<1>10. AgentHolds'
  BY DEF Mark, Inv, AgentHolds
<1>11. QED
  BY <1>5, <1>6, <1>7, <1>8, <1>9, <1>10 DEF Inv

\* The one step that reserves a request: the limit and the slot are free.
Reserve(o) ==
    /\ StillOpen(o) /\ ReviewsLeft /\ QueueFree
    /\ op' = [op EXCEPT ![o].reserved = @ + 1]
    /\ run' = [run EXCEPT ![o] = [state |-> "PENDING", verdict |-> "WAIT",
                                  revision |-> revision]]

LEMMA ReserveLedger ==
    ASSUME Inv, NEW o \in Opportunities, Reserve(o), UNCHANGED <<experiment, manual>>
    PROVE  /\ op' \in [Opportunities -> OpRecord] /\ run' \in [Opportunities -> RunRecord]
           /\ Ledger' /\ \A p \in Opportunities \ {o} : run'[p] = run[p]
           /\ run[o].state = "NONE"
<1>1. op \in [Opportunities -> OpRecord] /\ op[o] \in OpRecord
      /\ run \in [Opportunities -> RunRecord] /\ revision \in Nat
  BY DEF Inv, TypeOK
<1>2. op[o].reserved = 0 /\ op[o].state = "WAITING" /\ experiment.running
  BY DEF Reserve, StillOpen, Waiting
<1>3. run[o].state = "NONE"
  BY <1>2 DEF Inv, Ledger, RunsAreReserved
<1>4. /\ op' \in [Opportunities -> OpRecord]
      /\ op'[o].reserved = 1 /\ op'[o].state = "WAITING" /\ op'[o].lane = op[o].lane
      /\ op'[o].entries = op[o].entries
      /\ \A p \in Opportunities \ {o} : op'[p] = op[p]
  BY <1>1, <1>2 DEF Reserve, OpRecord
<1>5. /\ run' \in [Opportunities -> RunRecord] /\ run'[o].state = "PENDING"
      /\ \A p \in Opportunities \ {o} : run'[p] = run[p]
  BY <1>1 DEF Reserve, RunRecord
<1>6. RunsAreReserved' /\ OneReservationPerCandidate'
  BY <1>4, <1>5 DEF Inv, Ledger, RunsAreReserved, OneReservationPerCandidate
<1>7. OneCandidatePerLane'
  <2>1. \A p \in Opportunities : op'[p].state = op[p].state /\ op'[p].lane = op[p].lane
    BY <1>2, <1>4
  <2>2. QED
    BY <2>1 DEF Inv, Ledger, OneCandidatePerLane, Waiting
<1>8. LimitKept'
  <2>1. o \notin Reserved /\ Reserved' = Reserved \cup {o}
    BY <1>2, <1>4 DEF Reserved
  <2>2. IsFiniteSet(Reserved) /\ Cardinality(Reserved) < experiment.settings.limit
    BY DEF Reserve, ReviewsLeft, Inv, Ledger, LimitKept
  <2>3. IsFiniteSet(Reserved') /\ Cardinality(Reserved') = Cardinality(Reserved) + 1
    BY <2>1, <2>2, FS_AddElement
  <2>4. Cardinality(Reserved) \in Nat /\ experiment.settings.limit \in Nat
    BY <2>2, FS_CardinalityType, SettingsAssumption DEF Inv, TypeOK
  <2>5. QED
    BY <2>2, <2>3, <2>4 DEF LimitKept
<1>9. EntriesWereApproved'
  <2>1. ~(op[o].entries > 0)
    BY <1>3 DEF Inv, Ledger, EntriesWereApproved
  <2>2. QED
    BY <1>4, <1>5, <2>1 DEF Inv, Ledger, EntriesWereApproved
<1>10. OneOpenReview'
  <2>1. ActiveRuns' \subseteq {o} /\ ~manual
    BY <1>5 DEF Reserve, QueueFree, ActiveRuns
  <2>2. QED
    BY <2>1 DEF OneOpenReview
<1>11. QED
  BY <1>3, <1>4, <1>5, <1>6, <1>7, <1>8, <1>9, <1>10 DEF Ledger

LEMMA ScheduleInv ==
    ASSUME Inv, NEW w \in Workers, NEW o \in Opportunities, ScheduleOne(w, o) PROVE Inv'
<1> DEFINE r == [paper[w] EXCEPT !.todo = @ \ {o}]
<1>1. paper[w] \in PaperRecord /\ op \in [Opportunities -> OpRecord]
      /\ op[o] \in OpRecord /\ paper \in [Workers -> PaperRecord]
  BY DEF Inv, TypeOK
<1>2. r \in PaperRecord /\ r.pc = "schedule"
  BY <1>1 DEF PaperRecord, ScheduleOne
<1>3. Goes(w, r) /\ paper[w].pc = "schedule"
  BY <1>1, <1>2 DEF ScheduleOne, Goes
<1> HIDE DEF r
<1>4. CASE UNCHANGED <<op, run>>
  BY <1>2, <1>3, <1>4, MoveInv DEF ScheduleOne
<1>5. LockHeld'
  BY <1>2, <1>3, LockKept DEF ScheduleOne
<1>6. Processing'
  BY <1>2, <1>3, ProcessingKept DEF ScheduleOne
<1>7. CASE op' = [op EXCEPT ![o].state = "INVALIDATED"] /\ StillOpen(o) /\ UNCHANGED run
  <2>1. op' \in [Opportunities -> OpRecord] /\ Kept(op') /\ NoneOpened(op')
    <3>1. /\ op' \in [Opportunities -> OpRecord]
          /\ op'[o].state = "INVALIDATED" /\ op'[o].lane = op[o].lane
          /\ op'[o].reserved = op[o].reserved /\ op'[o].entries = op[o].entries
          /\ \A p \in Opportunities \ {o} : op'[p] = op[p]
      BY <1>1, <1>7 DEF OpRecord
    <3>2. QED
      BY <3>1 DEF Kept, NoneOpened
  <2>2. TypeOK'
    BY <1>3, <1>7, <2>1, WorkerGoes DEF Inv, TypeOK, ScheduleOne, outside
  <2>3. Ledger' /\ ActiveRuns' = ActiveRuns /\ Waiting' \subseteq Waiting
    BY <1>7, <2>1, <2>2, ClosesLedger DEF ScheduleOne, outside
  <2>4. PausedIsQuiet'
    BY <2>3, PausedKept DEF ScheduleOne
  <2>5. AgentHolds'
    BY <1>7 DEF ScheduleOne, Inv, AgentHolds
  <2>6. QED
    BY <1>5, <1>6, <2>2, <2>3, <2>4, <2>5 DEF Inv
<1>8. CASE Reserve(o)
  <2>1. /\ op' \in [Opportunities -> OpRecord] /\ run' \in [Opportunities -> RunRecord]
        /\ Ledger' /\ \A p \in Opportunities \ {o} : run'[p] = run[p]
    BY <1>8, ReserveLedger DEF ScheduleOne, outside
  <2>2. TypeOK'
    BY <1>3, <2>1, WorkerGoes DEF Inv, TypeOK, ScheduleOne, outside
  <2>3. PausedIsQuiet'
    BY <1>8 DEF Reserve, StillOpen, ScheduleOne, PausedIsQuiet
  <2>4. AgentHolds'
    BY DEF ScheduleOne, OrgFree, Inv, AgentHolds
  <2>5. QED
    BY <1>5, <1>6, <2>1, <2>2, <2>3, <2>4 DEF Inv
<1>9. QED
  BY <1>4, <1>7, <1>8 DEF ScheduleOne, Reserve

----------------------------------------------------------------------------
(* The agent worker and whoever stops its runs. *)

LEMMA AgentInv ==
    ASSUME Inv, RunsForward, run' \in [Opportunities -> RunRecord],
           agent' \in [pc : {"idle", "open", "call", "publish", "stamped"},
                       op : Opportunities \cup {None}, verdict : Verdicts],
           AgentHolds', revision' \in Nat, manual' \in BOOLEAN,
           manual' => manual \/ ActiveRuns = {},
           UNCHANGED <<experiment, lock, op, paper, account, signal>>
    PROVE  Inv'
<1>1. TypeOK'
  BY DEF Inv, TypeOK
<1>2. Ledger' /\ ActiveRuns' \subseteq ActiveRuns /\ Waiting' = Waiting
  BY <1>1, RunsLedger
<1>3. PausedIsQuiet'
  BY <1>2, PausedKept
<1>4. LockHeld' /\ Processing'
  BY DEF Inv, LockHeld, Processing
<1>5. QED
  BY <1>1, <1>2, <1>3, <1>4 DEF Inv

\* One run that is open moves on or ends.
LEMMA OneRun ==
    ASSUME Inv, NEW o \in Opportunities, run[o].state \in Active,
           NEW row \in RunRecord, row.state \in Active \cup Ended,
           run' = [run EXCEPT ![o] = row]
    PROVE  RunsForward /\ run' \in [Opportunities -> RunRecord] /\ run'[o] = row
  BY DEF Inv, TypeOK, RunsForward

LEMMA IdleType ==
    /\ IdleAgent.pc = "idle"
    /\ IdleAgent \in [pc : {"idle", "open", "call", "publish", "stamped"},
                      op : Opportunities \cup {None}, verdict : Verdicts]
  BY DEF IdleAgent

LEMMA AbandonInv ==
    ASSUME Inv, NEW o \in Opportunities, Abandon(o),
           UNCHANGED <<experiment, lock, op, paper, account, outside>>
    PROVE  Inv'
<1>1. run \in [Opportunities -> RunRecord] /\ run[o] \in RunRecord
  BY DEF Inv, TypeOK
<1>2. RunsForward /\ run' \in [Opportunities -> RunRecord]
  <2>1. CASE run[o].state = "RUNNING"
    <3> DEFINE s == IF Current(o) /\ ~LiveReview(o) THEN "CANCELLED" ELSE "FAILED"
               row == [run[o] EXCEPT !.state = s]
    <3>1. s \in Ended
      OBVIOUS
    <3>2. run' = [run EXCEPT ![o] = [run[o] EXCEPT !.state = s]]
      BY <2>1, <1>1 DEF Abandon
    <3> HIDE DEF s
    <3>3. row \in RunRecord /\ row.state \in Ended
      BY <1>1, <3>1 DEF RunRecord
    <3>4. QED
      BY <2>1, <3>2, <3>3, OneRun
  <2>2. CASE run[o].state # "RUNNING"
    BY <1>1, <2>2 DEF Abandon, RunsForward
  <2>3. QED
    BY <2>1, <2>2
<1>3. agent' = IdleAgent
  BY DEF Abandon
<1>4. AgentHolds'
  BY <1>3, IdleType DEF AgentHolds
<1>5. QED
  BY <1>2, <1>3, <1>4, IdleType, AgentInv DEF outside, Inv, TypeOK

LEMMA ClaimInv == ASSUME Inv, NEW o \in Opportunities, Claim(o) PROVE Inv'
<1> DEFINE row == [run[o] EXCEPT !.state = "RUNNING"]
           a == [IdleAgent EXCEPT !.pc = "open", !.op = o]
<1>1. run \in [Opportunities -> RunRecord] /\ run[o] \in RunRecord
  BY DEF Inv, TypeOK
<1>2. row \in RunRecord /\ row.state = "RUNNING" /\ run' = [run EXCEPT ![o] = row]
  BY <1>1 DEF RunRecord, Claim
<1>3. /\ a.pc = "open" /\ a.op = o /\ agent' = a
      /\ a \in [pc : {"idle", "open", "call", "publish", "stamped"},
                op : Opportunities \cup {None}, verdict : Verdicts]
  BY DEF IdleAgent, Claim
<1> HIDE DEF row, a
<1>4. RunsForward /\ run' \in [Opportunities -> RunRecord]
  BY <1>2, OneRun DEF Claim
<1>5. AgentHolds'
  BY <1>3 DEF AgentHolds
<1>6. QED
  BY <1>3, <1>4, <1>5, AgentInv DEF Claim, outside, Inv, TypeOK

\* The worker goes on and leaves the runs alone.
LEMMA AgentGoes ==
    ASSUME Inv, UNCHANGED <<experiment, lock, op, run, paper, account, outside>>,
           agent' \in [pc : {"idle", "open", "call", "publish", "stamped"},
                       op : Opportunities \cup {None}, verdict : Verdicts],
           AgentHolds'
    PROVE  Inv'
<1>1. RunsForward
  BY DEF RunsForward
<1>2. QED
  BY <1>1, AgentInv DEF outside, Inv, TypeOK

LEMMA AgentStepInv == ASSUME Inv, AgentStep PROVE Inv'
<1>1. agent \in [pc : {"idle", "open", "call", "publish", "stamped"},
                 op : Opportunities \cup {None}, verdict : Verdicts]
  BY DEF Inv, TypeOK
<1>2. agent.pc # "idle" => agent.op \in Opportunities
  BY DEF Inv, AgentHolds
<1>3. CASE OpenReview
  <2>1. CASE Abandon(agent.op)
    BY <1>2, <1>3, <2>1, AbandonInv DEF OpenReview
  <2>2. CASE agent' = [agent EXCEPT !.pc = "call"] /\ UNCHANGED run
    <3>1. AgentHolds'
      BY <1>1, <1>2, <1>3, <2>2 DEF OpenReview, AgentHolds
    <3>2. QED
      BY <1>1, <1>3, <2>2, <3>1, AgentGoes DEF OpenReview
  <2>3. QED
    BY <1>3, <2>1, <2>2 DEF OpenReview
<1>4. CASE Answer
  <2>1. CASE Abandon(agent.op)
    BY <1>2, <1>4, <2>1, AbandonInv DEF Answer
  <2>2. CASE UNCHANGED run /\ \E v \in Verdicts :
               agent' = [agent EXCEPT !.pc = "publish", !.verdict = v]
    <3>1. AgentHolds'
      BY <1>1, <1>2, <1>4, <2>2 DEF Answer, AgentHolds
    <3>2. QED
      BY <1>1, <1>4, <2>2, <3>1, AgentGoes DEF Answer
  <2>3. QED
    BY <1>4, <2>1, <2>2 DEF Answer
<1>5. CASE Publish
  <2>1. CASE Abandon(agent.op)
    BY <1>2, <1>5, <2>1, AbandonInv DEF Publish
  <2>2. CASE /\ agent' = [agent EXCEPT !.pc = "stamped"] /\ UNCHANGED run
             /\ run[agent.op].state = "RUNNING"
    <3>1. AgentHolds'
      BY <1>1, <1>2, <1>5, <2>2 DEF Publish, AgentHolds
    <3>2. QED
      BY <1>1, <1>5, <2>2, <3>1, AgentGoes DEF Publish
  <2>3. QED
    BY <1>5, <2>1, <2>2 DEF Publish
<1>6. CASE Commit
  <2> DEFINE row == [run[agent.op] EXCEPT !.state = "SUCCEEDED", !.verdict = agent.verdict]
  <2>1. agent.op \in Opportunities /\ run[agent.op].state = "RUNNING"
    BY <1>2, <1>6 DEF Commit, Inv, AgentHolds
  <2>2. run[agent.op] \in RunRecord /\ agent.verdict \in Verdicts
    BY <1>1, <2>1 DEF Inv, TypeOK
  <2>3. row \in RunRecord /\ row.state = "SUCCEEDED"
    BY <2>2 DEF RunRecord
  <2>4. run' = [run EXCEPT ![agent.op] = row]
    BY <1>6 DEF Commit
  <2>5. RunsForward /\ run' \in [Opportunities -> RunRecord]
    <3> HIDE DEF row
    <3>1. QED
      BY <2>1, <2>3, <2>4, OneRun
  <2>6. agent' = IdleAgent
    BY <1>6 DEF Commit
  <2>7. AgentHolds'
    BY <2>6, IdleType DEF AgentHolds
  <2>8. QED
    BY <1>6, <2>5, <2>6, <2>7, IdleType, AgentInv DEF Commit, outside, Inv, TypeOK
<1>7. CASE Die
  <2>1. AgentHolds'
    BY <1>7, IdleType DEF Die, AgentHolds
  <2>2. QED
    BY <1>7, <2>1, IdleType, AgentGoes DEF Die
<1>8. CASE \E o \in Opportunities : Claim(o)
  BY <1>8, ClaimInv
<1>9. QED
  BY <1>3, <1>4, <1>5, <1>6, <1>7, <1>8 DEF AgentStep

LEMMA StopInv ==
    ASSUME Inv, NEW o \in Opportunities, NEW s \in {"FAILED", "CANCELLED"}, StopRun(o, s)
    PROVE  Inv'
<1>1. run' \in [Opportunities -> RunRecord] /\ RunsForward
  BY StoppedRuns DEF StopRun, Inv, TypeOK, RunsForward
<1>2. AgentHolds'
  BY StoppedRuns DEF StopRun, Inv, TypeOK, AgentHolds, Unlocked
<1>3. QED
  BY <1>1, <1>2, AgentInv DEF StopRun, outside, Inv, TypeOK

LEMMA SaveInv == ASSUME Inv, SaveConfiguration PROVE Inv'
<1>1. run' \in [Opportunities -> RunRecord] /\ RunsForward
  BY StoppedRuns DEF SaveConfiguration, Inv, TypeOK, RunsForward
<1>2. AgentHolds'
  BY DEF SaveConfiguration, Inv, AgentHolds, OrgFree
<1>3. revision' \in Nat /\ manual' = FALSE
  BY DEF SaveConfiguration, Inv, TypeOK
<1>4. QED
  BY <1>1, <1>2, <1>3, AgentInv DEF SaveConfiguration, Inv, TypeOK

LEMMA ResearchInv == ASSUME Inv, Research PROVE Inv'
<1>1. RunsForward /\ AgentHolds'
  BY DEF Research, RunsForward, Inv, AgentHolds
<1>2. manual' \in BOOLEAN /\ (manual' => manual \/ ActiveRuns = {})
  BY DEF Research
<1>3. QED
  BY <1>1, <1>2, AgentInv DEF Research, Inv, TypeOK

----------------------------------------------------------------------------
(* The operator, the market and the clock. *)

LEMMA PauseInv == ASSUME Inv, NEW b \in BOOLEAN, Pause(b) PROVE Inv'
<1>1. run' \in [Opportunities -> RunRecord] /\ RunsForward /\ ActiveRuns' = {}
  <2>1. run' \in [Opportunities -> RunRecord] /\ RunsForward
    BY StoppedRuns DEF Pause, Inv, TypeOK, RunsForward
  <2>2. \A o \in Opportunities : run'[o].state \notin Active
    BY StoppedRuns DEF Pause, Inv, TypeOK
  <2>3. QED
    BY <2>1, <2>2 DEF ActiveRuns
<1>2. /\ op' \in [Opportunities -> OpRecord] /\ Kept(op') /\ NoneOpened(op')
      /\ \A o \in Opportunities : op'[o].state # "WAITING"
  <2>1. op \in [Opportunities -> OpRecord] /\ op' = Marked(Opportunities, "PAUSED")
    BY DEF Pause, Inv, TypeOK
  <2>2. \A o \in Opportunities :
          op'[o].state = IF op[o].state = "WAITING" THEN "PAUSED" ELSE op[o].state
    BY <2>1, MarkedRows
  <2>3. op' \in [Opportunities -> OpRecord] /\ Kept(op') /\ NoneOpened(op')
    BY <2>1, MarkedRows
  <2>4. QED
    BY <2>2, <2>3
<1>3. Waiting' = {}
  BY <1>2 DEF Waiting
<1>4. account' \in [Lanes -> AccountRecord] /\ \A l \in Lanes : account'[l].pending = "NONE"
  BY DEF Pause, Inv, TypeOK, AccountRecord
<1>5. experiment' \in [running : BOOLEAN, retired : BOOLEAN, settings : Settings]
      /\ experiment'.settings = experiment.settings
  BY DEF Pause, Inv, TypeOK
<1>6. TypeOK'
  BY <1>1, <1>2, <1>4, <1>5 DEF Pause, outside, Inv, TypeOK
<1>7. PausedIsQuiet'
  BY <1>1, <1>3, <1>4 DEF PausedIsQuiet
<1>8. \A w \in Workers : paper[w].pc \notin {"read", "decide"}
  BY SentinelAssumption DEF Pause, Inv, LockHeld
<1>9. LockHeld' /\ Processing'
  BY <1>8 DEF Pause, Inv, LockHeld, Processing
<1>10. Ledger'
  BY <1>1, <1>2, <1>5, <1>6, LanesKept, LedgerKept DEF Pause, outside
<1>11. AgentHolds'
  BY DEF Pause, OrgFree, Inv, AgentHolds
<1>12. QED
  BY <1>6, <1>7, <1>9, <1>10, <1>11 DEF Inv

LEMMA ResumeInv == ASSUME Inv, Resume PROVE Inv'
<1>1. /\ experiment' \in [running : BOOLEAN, retired : BOOLEAN, settings : Settings]
      /\ experiment'.settings = experiment.settings /\ experiment'.running = TRUE
  BY DEF Resume, Inv, TypeOK
<1>2. TypeOK'
  BY <1>1 DEF Resume, outside, Inv, TypeOK
<1>3. Ledger'
  BY <1>1, <1>2, LedgerSame DEF Resume, outside
<1>4. \A w \in Workers : paper[w].pc \notin {"read", "decide"}
  BY SentinelAssumption DEF Resume, Inv, LockHeld
<1>5. LockHeld' /\ Processing' /\ AgentHolds'
  BY <1>4 DEF Resume, Inv, LockHeld, Processing, AgentHolds
<1>6. PausedIsQuiet'
  BY <1>1 DEF PausedIsQuiet
<1>7. QED
  BY <1>2, <1>3, <1>5, <1>6 DEF Inv

\* Steps that concern the accounts only.
LEMMA AccountInv ==
    ASSUME Inv, UNCHANGED <<experiment, lock, op, run, agent, paper, revision, manual>>,
           signal' \subseteq Lanes, account' \in [Lanes -> AccountRecord],
           \A l \in Lanes : account'[l].pending = account[l].pending
    PROVE  Inv'
<1>1. TypeOK'
  BY DEF Inv, TypeOK
<1>2. Ledger' /\ ActiveRuns' = ActiveRuns /\ Waiting' = Waiting
  BY <1>1, LedgerSame
<1>3. PausedIsQuiet'
  BY <1>2, PausedKept
<1>4. LockHeld' /\ Processing' /\ AgentHolds'
  BY DEF Inv, LockHeld, Processing, AgentHolds
<1>5. QED
  BY <1>1, <1>2, <1>3, <1>4 DEF Inv

LEMMA ObserveInv == ASSUME Inv, NEW l \in Lanes, NEW b \in BOOLEAN, Observe(l, b) PROVE Inv'
<1>1. account' \in [Lanes -> AccountRecord]
      /\ \A k \in Lanes : account'[k].pending = account[k].pending
  <2> DEFINE row == [account[l] EXCEPT !.fresh = TRUE]
  <2>1. account \in [Lanes -> AccountRecord] /\ account[l] \in AccountRecord
    BY DEF Inv, TypeOK
  <2>2. row \in AccountRecord /\ row.pending = account[l].pending
    BY <2>1 DEF AccountRecord
  <2>3. account' = [account EXCEPT ![l] = row]
    BY <2>1 DEF Observe
  <2> HIDE DEF row
  <2>4. QED
    BY <2>1, <2>2, <2>3
<1>2. signal' \subseteq Lanes
  BY DEF Observe, Inv, TypeOK
<1>3. QED
  BY <1>1, <1>2, AccountInv DEF Observe

LEMMA ThrottleInv == ASSUME Inv, NEW l \in Lanes, Throttle(l) PROVE Inv'
<1>1. account' \in [Lanes -> AccountRecord]
      /\ \A k \in Lanes : account'[k].pending = account[k].pending
  <2> DEFINE row == [account[l] EXCEPT !.recent = FALSE]
  <2>1. account \in [Lanes -> AccountRecord] /\ account[l] \in AccountRecord
    BY DEF Inv, TypeOK
  <2>2. row \in AccountRecord /\ row.pending = account[l].pending
    BY <2>1 DEF AccountRecord
  <2>3. account' = [account EXCEPT ![l] = row]
    BY <2>1 DEF Throttle
  <2> HIDE DEF row
  <2>4. QED
    BY <2>1, <2>2, <2>3
<1>2. QED
  BY <1>1, AccountInv DEF Throttle, outside, Inv, TypeOK

LEMMA AgeInv == ASSUME Inv, NEW o \in Opportunities, Age(o) PROVE Inv'
<1>1. op \in [Opportunities -> OpRecord] /\ op[o] \in OpRecord
  BY DEF Inv, TypeOK
<1>2. op[o].age + 1 \in 0..2
  BY <1>1 DEF OpRecord, Age
<1>3. op' \in [Opportunities -> OpRecord] /\ Kept(op') /\ NoneOpened(op')
  <2>1. /\ op' \in [Opportunities -> OpRecord]
        /\ op'[o].state = op[o].state /\ op'[o].lane = op[o].lane
        /\ op'[o].reserved = op[o].reserved /\ op'[o].entries = op[o].entries
        /\ \A p \in Opportunities \ {o} : op'[p] = op[p]
    BY <1>1, <1>2 DEF Age, OpRecord
  <2>2. QED
    BY <2>1 DEF Kept, NoneOpened
<1>4. TypeOK'
  BY <1>3 DEF Age, outside, Inv, TypeOK
<1>5. Ledger' /\ ActiveRuns' = ActiveRuns /\ Waiting' \subseteq Waiting
  BY <1>3, <1>4, ClosesLedger DEF Age, outside
<1>6. PausedIsQuiet'
  BY <1>5, PausedKept DEF Age
<1>7. LockHeld' /\ Processing' /\ AgentHolds'
  BY DEF Age, Inv, LockHeld, Processing, AgentHolds
<1>8. QED
  BY <1>4, <1>5, <1>6, <1>7 DEF Inv

----------------------------------------------------------------------------
(* The theorems. *)

LEMMA PaperStepInv == ASSUME Inv, NEW w \in Workers, PaperStep(w) PROVE Inv'
  BY BeginInv, SkipInv, EndInv, DecideInv, SweepInv, MarkInv, ReturnInv, ReadInv,
     BenchmarkInv, ScheduleInv DEF PaperStep

LEMMA StepInv == Inv /\ [Next]_vars => Inv'
<1> SUFFICES ASSUME Inv, [Next]_vars PROVE Inv'
  OBVIOUS
<1>1. CASE \E w \in Workers : PaperStep(w)
  BY <1>1, PaperStepInv
<1>2. CASE AgentStep
  BY <1>2, AgentStepInv
<1>3. CASE \E o \in Opportunities, s \in {"FAILED", "CANCELLED"} : StopRun(o, s)
  BY <1>3, StopInv
<1>4. CASE SaveConfiguration \/ Research \/ Resume
  BY <1>4, SaveInv, ResearchInv, ResumeInv
<1>5. CASE \E b \in BOOLEAN : Pause(b)
  BY <1>5, PauseInv
<1>6. CASE \E l \in Lanes, b \in BOOLEAN : Observe(l, b)
  BY <1>6, ObserveInv
<1>7. CASE \E l \in Lanes : Throttle(l)
  BY <1>7, ThrottleInv
<1>8. CASE \E o \in Opportunities : Age(o)
  BY <1>8, AgeInv
<1>9. CASE UNCHANGED vars
  BY <1>9, AccountInv DEF vars, Inv, TypeOK
<1>10. QED
  BY <1>1, <1>2, <1>3, <1>4, <1>5, <1>6, <1>7, <1>8, <1>9 DEF Next

LEMMA Invariance == Spec => []Inv
<1>1. QED
  BY InitInv, StepInv, PTL DEF Spec

\* Whatever workers, operators and the agent do at once: a candidate has one
\* request at most, a lane one open candidate, the experiment no more requests
\* than its daily limit, and nothing is open while it is paused.
THEOREM CandidatesStaySound == Spec => []CandidatesAreSound
<1>1. Inv => CandidatesAreSound
  BY DEF Inv, Ledger, LimitKept, ReviewsWithinLimit, CandidatesAreSound
<1>2. QED
  BY <1>1, Invariance, PTL

\* Every entry order follows an approval that was published, and reviews and
\* manual research never hold more than the one slot of the organization.
THEOREM ReviewsStaySound == Spec => []ReviewsAreSound
<1>1. Inv => ReviewsAreSound
  <2> SUFFICES ASSUME Inv PROVE ReviewsAreSound
    OBVIOUS
  <2>1. ActiveRuns = {} \/ \E o \in Opportunities : ActiveRuns = {o}
    BY DEF Inv, Ledger, OneOpenReview, ActiveRuns
  <2>2. Cardinality(ActiveRuns) \in {0, 1}
    BY <2>1, FS_EmptySet, FS_Singleton
  <2>3. QED
    BY <2>2 DEF Inv, Ledger, OneOpenReview, QueueIsShared, ReviewsAreSound
<1>2. QED
  BY <1>1, Invariance, PTL

----------------------------------------------------------------------------
(* Outcomes, with one paper worker. *)

\* The candidate under review is still open: its worker alone could close it.
FoundOpen ==
    \A w \in Workers :
        paper[w].pc = "decide" /\ paper[w].found # None =>
            op[paper[w].found].state = "WAITING"

ClosedStays(rows) ==
    \A o \in Opportunities : op[o].state \in Closed => rows[o].state = op[o].state

LEMMA MarkedStays ==
    ASSUME Inv, NEW S, NEW state \in Closed
    PROVE  ClosedStays(Marked(S, state))
<1>1. \A o \in Opportunities : Marked(S, state)[o].state =
                IF o \in S /\ op[o].state = "WAITING" THEN state ELSE op[o].state
  BY MarkedRows DEF Inv, TypeOK
<1>2. QED
  BY <1>1 DEF ClosedStays

LEMMA OpportunityStays ==
    ASSUME Inv, NEW w \in Workers, NEW l \in Lanes, NEW c \in OpportunityFor(w, l)
    PROVE  ClosedStays(c[2])
<1> DEFINE closing == Closing(w, l)
<1>1. ClosedStays(closing) /\ ClosedStays(op)
  BY MarkedStays DEF Closing, ClosedStays
<1>2. closing \in [Opportunities -> OpRecord]
  BY MarkedRows DEF Closing, Inv, TypeOK
<1> HIDE DEF closing
<1>3. ASSUME NEW o \in Opportunities, op[o].state = "NONE"
      PROVE  ClosedStays([closing EXCEPT ![o] = Opened(l)])
  BY <1>1, <1>2, <1>3 DEF ClosedStays
<1>4. QED
  BY <1>1, <1>3 DEF OpportunityFor, closing

\* A decision closes the candidate under review, or none.
LEMMA DecideStays ==
    ASSUME Inv, FoundOpen, NEW w \in Workers, Decide(w) PROVE ClosedStays(op')
<1> DEFINE found == paper[w].found
           l == paper[w].lane
<1>1. l \in Lanes /\ (found # None => op[found].state = "WAITING")
  BY DEF Decide, Inv, Processing, FoundOpen
<1>2. ASSUME NEW o \in Opportunities \cup {None}, NEW rows, Rows(rows), ClosedStays(rows),
             NEW result \in Closed, NEW order, Conclude(w, o, rows, result, order),
             found # None => o = found
      PROVE  ClosedStays(op')
  <2>1. CASE o = None
    BY <1>2, <2>1 DEF Conclude
  <2>2. CASE o \in Opportunities /\ o # None
    <3> DEFINE bought == IF order = "BUY" THEN 1 ELSE 0
               s == IF found # None THEN result ELSE rows[o].state
               n == rows[o].entries + bought
    <3>1. op' = [rows EXCEPT ![o] = [rows[o] EXCEPT !.state = s, !.entries = n]]
      BY <1>2, <2>2 DEF Conclude
    <3>2. found # None => op[o].state = "WAITING"
      BY <1>1, <1>2
    <3> HIDE DEF n
    <3>3. rows \in [Opportunities -> OpRecord] /\ rows[o] \in OpRecord
      BY <1>2, <2>2 DEF Rows
    <3>4. op'[o].state = s /\ \A p \in Opportunities \ {o} : op'[p] = rows[p]
      BY <2>2, <3>1, <3>3 DEF OpRecord
    <3>5. QED
      BY <1>2, <2>2, <3>2, <3>4 DEF ClosedStays
  <2>3. QED
    BY <2>1, <2>2
<1>3. Rows(op) /\ ClosedStays(op)
  BY DEF Inv, TypeOK, Ledger, OneCandidatePerLane, Waiting, Rows, Kept, Apart, ClosedStays
<1>4. found \in Opportunities \cup {None}
  BY DEF Inv, TypeOK, PaperRecord
<1>5. CASE UNCHANGED op
  BY <1>5 DEF ClosedStays
<1>6. CASE \/ Conclude(w, found, op, "INVALIDATED", "NONE")
           \/ Conclude(w, found, op, "INVALIDATED", "SELL")
  BY <1>2, <1>3, <1>4, <1>6
<1>7. CASE \E c \in IF found = None THEN OpportunityFor(w, l) ELSE {<<found, op>>} :
             \E result \in {Checked(l, Gate(w, c[1])), "INVALIDATED"} :
                Conclude(w, c[1], c[2], result, IF result = "ALLOWED" THEN "BUY" ELSE "NONE")
  <2>1. PICK c \in IF found = None THEN OpportunityFor(w, l) ELSE {<<found, op>>} :
             \E result \in {Checked(l, Gate(w, c[1])), "INVALIDATED"} :
                Conclude(w, c[1], c[2], result, IF result = "ALLOWED" THEN "BUY" ELSE "NONE")
    BY <1>7
  <2>2. PICK result \in {Checked(l, Gate(w, c[1])), "INVALIDATED"} :
             Conclude(w, c[1], c[2], result, IF result = "ALLOWED" THEN "BUY" ELSE "NONE")
    BY <2>1
  <2>3. Rows(c[2]) /\ ClosedStays(c[2]) /\ c[1] \in Opportunities \cup {None}
    BY <1>1, <1>3, <1>4, OpportunityRows, OpportunityStays
  <2>4. result \in Closed
    BY <2>3, GateApproves
  <2>5. found # None => c[1] = found
    OBVIOUS
  <2>6. QED
    BY <1>2, <2>2, <2>3, <2>4, <2>5
<1>8. QED
  BY <1>5, <1>6, <1>7 DEF Decide

LEMMA OutcomeStep ==
    ASSUME Inv, FoundOpen, [Next]_vars, \A v, w \in Workers : v = w
    PROVE  FoundOpen' /\ ClosedStays(op')
<1>1. CASE UNCHANGED <<op, paper>>
  BY <1>1 DEF FoundOpen, ClosedStays
<1>2. ASSUME NEW w \in Workers, PaperStep(w)
      PROVE  FoundOpen' /\ ClosedStays(op')
  <2> USE <1>2
  <2>1. paper \in [Workers -> PaperRecord] /\ paper[w] \in PaperRecord
        /\ op \in [Opportunities -> OpRecord] /\ ClosedStays(op)
        /\ \A v \in Workers : v = w
    BY DEF Inv, TypeOK, ClosedStays
  <2>2. CASE paper'[w].pc # "decide" /\ ClosedStays(op')
    BY <2>1, <2>2 DEF FoundOpen
  <2>3. CASE Begin(w) \/ Skip(w) \/ End(w) \/ Return(w)
    <3>1. paper'[w].pc # "decide" /\ UNCHANGED op
      <4>1. CASE Begin(w)
        <5>1. PICK r : Goes(w, r) /\ r.pc = "read"
          BY <4>1, BeginGoes
        <5>2. paper'[w] = r
          BY <5>1, WorkerGoes
        <5>3. QED
          BY <4>1, <5>1, <5>2 DEF Begin
      <4>2. CASE Skip(w) \/ End(w)
        BY <2>1, <4>2 DEF Skip, End, IdlePaper
      <4>3. CASE Return(w)
        BY <2>1, <4>3 DEF Return, IdlePaper
      <4>4. QED
        BY <2>3, <4>1, <4>2, <4>3
    <3>2. QED
      BY <2>1, <2>2, <3>1
  <2>4. CASE Decide(w)
    <3>1. paper'[w].pc = "read"
      BY <2>1, <2>4 DEF Decide, PaperRecord
    <3>2. QED
      BY <2>2, <2>4, <3>1, DecideStays
  <2>5. CASE Sweep(w)
    <3>1. paper'[w].pc = "mark" /\ UNCHANGED op
      BY <2>1, <2>5 DEF Sweep, PaperRecord
    <3>2. QED
      BY <2>1, <2>2, <3>1
  <2>6. CASE Mark(w)
    <3>1. paper'[w].pc = "schedule"
      BY <2>1, <2>6 DEF Mark, PaperRecord
    <3>2. ClosedStays(op')
      BY <2>6, MarkedStays DEF Mark
    <3>3. QED
      BY <2>2, <3>1, <3>2
  <2>7. ASSUME NEW l \in Lanes, Read(w, l) PROVE FoundOpen' /\ ClosedStays(op')
    <3>1. PICK o \in Resumable(l) \cup {None} :
             paper' = [paper EXCEPT ![w] = [@ EXCEPT !.pc = "decide", !.lane = l, !.found = o]]
      BY <2>7 DEF Read
    <3>2. paper'[w].found = o /\ UNCHANGED op
      BY <2>1, <2>7, <3>1 DEF Read, PaperRecord
    <3>3. o # None => op[o].state = "WAITING"
      BY DEF Resumable, Waiting
    <3>4. QED
      BY <2>1, <3>2, <3>3 DEF FoundOpen, ClosedStays
  <2>8. ASSUME NEW l \in Lanes, Benchmark(w, l) PROVE FoundOpen' /\ ClosedStays(op')
    <3>1. ClosedStays(op')
      BY <2>8, OpportunityStays DEF Benchmark
    <3>2. paper'[w].pc # "decide"
      BY <2>8 DEF Benchmark
    <3>3. QED
      BY <2>2, <3>1, <3>2
  <2>9. ASSUME NEW o \in Opportunities, ScheduleOne(w, o) PROVE FoundOpen' /\ ClosedStays(op')
    <3>1. paper'[w].pc # "decide"
      BY <2>1, <2>9 DEF ScheduleOne, PaperRecord
    <3>2. \/ op' = op
          \/ /\ op[o].state = "WAITING"
             /\ \A p \in Opportunities \ {o} : op'[p] = op[p]
      BY <2>1, <2>9 DEF ScheduleOne, StillOpen, Waiting
    <3>3. ClosedStays(op')
      BY <2>1, <3>2 DEF ClosedStays
    <3>4. QED
      BY <2>2, <3>1, <3>3
  <2>10. QED
    BY <2>3, <2>4, <2>5, <2>6, <2>7, <2>8, <2>9 DEF PaperStep
<1>3. ASSUME NEW b \in BOOLEAN, Pause(b) PROVE FoundOpen' /\ ClosedStays(op')
  <2>1. \A w \in Workers : paper'[w].pc # "decide"
    BY <1>3, SentinelAssumption DEF Pause, Inv, LockHeld
  <2>2. ClosedStays(op')
    BY <1>3, MarkedStays DEF Pause
  <2>3. QED
    BY <2>1, <2>2 DEF FoundOpen
<1>4. ASSUME NEW o \in Opportunities, Age(o) PROVE FoundOpen' /\ ClosedStays(op')
  <2>1. op \in [Opportunities -> OpRecord] /\ op[o] \in OpRecord
    BY DEF Inv, TypeOK
  <2>2. \A p \in Opportunities : op'[p].state = op[p].state
    BY <1>4, <2>1 DEF Age, OpRecord
  <2>3. \A w \in Workers : paper[w].found \in Opportunities \cup {None}
    BY DEF Inv, TypeOK, PaperRecord
  <2>4. QED
    BY <1>4, <2>2, <2>3 DEF Age, FoundOpen, ClosedStays
<1>5. CASE AgentStep \/ SaveConfiguration \/ Research \/ Resume
           \/ (\E o \in Opportunities, s \in {"FAILED", "CANCELLED"} : StopRun(o, s))
           \/ (\E l \in Lanes, b \in BOOLEAN : Observe(l, b))
           \/ (\E l \in Lanes : Throttle(l)) \/ UNCHANGED vars
  <2>1. UNCHANGED <<op, paper>>
    BY <1>5 DEF AgentStep, OpenReview, Answer, Publish, Commit, Die, Claim, SaveConfiguration,
       Research, Resume, StopRun, Observe, Throttle, vars
  <2>2. QED
    BY <1>1, <2>1
<1>6. QED
  BY <1>2, <1>3, <1>4, <1>5 DEF Next

\* With one paper worker the outcome of a candidate is final: the review that is
\* applied was open when it was read, and nobody else closes it meanwhile.
THEOREM OutcomesStay ==
    ASSUME \A v, w \in Workers : v = w
    PROVE  Spec => OutcomesAreFinal
<1>1. Init => FoundOpen
  BY DEF Init, FoundOpen, IdlePaper
<1>2. Inv /\ FoundOpen /\ [Next]_vars => FoundOpen' /\ ClosedStays(op')
  BY OutcomeStep
<1>3. ClosedStays(op') =>
        \A o \in Opportunities : op[o].state \in Closed => op'[o].state = op[o].state
  BY DEF ClosedStays
<1>4. QED
  BY <1>1, <1>2, <1>3, Invariance, PTL DEF Spec, OutcomesAreFinal
=============================================================================
