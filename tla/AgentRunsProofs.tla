------------------------- MODULE AgentRunsProofs --------------------------
(***************************************************************************)
(* Theorems about AgentRuns for every number of organizations, users,      *)
(* requests and workers, and for every length of a run: types, and what    *)
(* holds of the rows and of the workers that hold them.                    *)
(***************************************************************************)
EXTENDS AgentRuns, Sums, TLAPS

USE DEF States, Active, Ended, AllKinds, MultiStage

----------------------------------------------------------------------------
(* The two bulk updates, row by row. *)

LEMMA ExpiredRows ==
    ASSUME run \in [Requests -> RunRecord]
    PROVE  /\ Expired(run) \in [Requests -> RunRecord]
           /\ \A r \in Requests :
                Expired(run)[r] = IF run[r].state \in Active /\ run[r].lapsed
                                  THEN [run[r] EXCEPT !.state = "FAILED"]
                                  ELSE run[r]
  BY DEF Expired, RunRecord

LEMMA CancelledRows ==
    ASSUME run \in [Requests -> RunRecord], NEW S
    PROVE  /\ Cancelled(S) \in [Requests -> RunRecord]
           /\ \A r \in Requests :
                Cancelled(S)[r] = IF r \in S /\ IsActive(r)
                                  THEN [run[r] EXCEPT !.state = "CANCELLED"]
                                  ELSE run[r]
  BY DEF Cancelled, RunRecord, IsActive

----------------------------------------------------------------------------
(* Type correctness. *)

LEMMA InitTypeOK == Init => TypeOK
<1> SUFFICES ASSUME Init PROVE TypeOK
  OBVIOUS
<1>1. run \in [Requests -> RunRecord]
  BY DEF Init, RunRecord
<1>2. config \in [Orgs -> ConfigRecord]
  <2>1. \A n \in Limits : n \in Nat
    BY LimitsAssumption
  <2>2. \A x \in [revision : {0}, enabled : {FALSE}, limit : Limits] :
          x \in ConfigRecord
    <3> TAKE x \in [revision : {0}, enabled : {FALSE}, limit : Limits]
    <3>1. x = [revision |-> x.revision, enabled |-> x.enabled,
               limit |-> x.limit]
      OBVIOUS
    <3>2. x.revision \in Nat
      OBVIOUS
    <3>3. x.enabled \in BOOLEAN
      OBVIOUS
    <3>4. x.limit \in Nat
      BY <2>1
    <3>5. QED
      BY <3>1, <3>2, <3>3, <3>4, Zenon DEF ConfigRecord
  <2>3. QED
    BY <2>2 DEF Init
<1>3. worker \in [Workers -> WorkerRecord]
  BY DEF Init, Idle, WorkerRecord, Points
<1>4. provider \in [Requests -> ProviderRecord]
  BY DEF Init, ProviderRecord
<1>5. QED
  BY <1>1, <1>2, <1>3, <1>4 DEF Init, TypeOK

Rows == [Requests -> RunRecord]
Processes == [Workers -> WorkerRecord]

LEMMA RowUpdate ==
    ASSUME NEW rows \in Rows, NEW r, NEW row, r \in Requests => row \in RunRecord
    PROVE  [rows EXCEPT ![r] = row] \in Rows
  BY DEF Rows

LEMMA RowEdits ==
    ASSUME NEW row \in RunRecord, NEW n \in Nat, NEW m \in Nat, NEW s \in States
    PROVE  /\ [row EXCEPT !.usage = n] \in RunRecord
           /\ [row EXCEPT !.attempts = n] \in RunRecord
           /\ [row EXCEPT !.state = s, !.usage = n] \in RunRecord
           /\ [row EXCEPT !.state = s, !.usage = n, !.attempts = m]
                \in RunRecord
           /\ [row EXCEPT !.state = s, !.token = n, !.lapsed = FALSE]
                \in RunRecord
           /\ [row EXCEPT !.state = s] \in RunRecord
           /\ [row EXCEPT !.usage = n, !.attempts = m] \in RunRecord
  BY DEF RunRecord

LEMMA ProviderEdits ==
    ASSUME NEW x \in ProviderRecord, NEW n \in Nat, NEW m \in Nat
    PROVE  /\ [x EXCEPT !.replies = n] \in ProviderRecord
           /\ [x EXCEPT !.requests = n, !.late = m] \in ProviderRecord
  BY DEF ProviderRecord

LEMMA ProcessUpdate ==
    ASSUME worker \in Processes, NEW w, NEW p \in WorkerRecord,
           worker' = [worker EXCEPT ![w] = p]
    PROVE  worker' \in Processes
  BY DEF Processes

LEMMA IdleType == Idle \in WorkerRecord
  BY DEF Idle, WorkerRecord, Points

LEMMA GoType ==
    ASSUME worker \in Processes, NEW w \in Workers, NEW p \in Points, Go(w, p)
    PROVE  worker' \in Processes
  BY DEF Go, Processes, WorkerRecord

LEMMA ReturnType ==
    ASSUME worker \in Processes, NEW w \in Workers, Return(w)
    PROVE  worker' \in Processes
  BY IdleType, ProcessUpdate DEF Return

LEMMA HandlerCases == \A w : Handler(w) \in {"fail", "nodefail"}
  BY DEF Handler

LEMMA RaiseType ==
    ASSUME worker \in Processes, NEW w \in Workers,
           NEW out \in {"FAILED", "CANCELLED"}, Raise(w, out)
    PROVE  worker' \in Processes
<1>1. Handler(w) \in Points
  BY HandlerCases DEF Points
<1>2. [worker[w] EXCEPT !.pc = Handler(w), !.outcome = out] \in WorkerRecord
  BY <1>1 DEF Processes, WorkerRecord
<1>3. QED
  BY <1>2, ProcessUpdate DEF Raise

LEMMA AuthorizeType ==
    ASSUME worker \in Processes, NEW w \in Workers, NEW p \in Points,
           Authorize(w, p)
    PROVE  worker' \in Processes
  BY RaiseType, GoType DEF Authorize

LEMMA LeaveType ==
    ASSUME worker \in Processes, NEW w \in Workers, Leave(w)
    PROVE  worker' \in Processes
  BY RaiseType, ReturnType DEF Leave

LEMMA StepTypeOK == TypeOK /\ [Next]_vars => TypeOK'
<1> SUFFICES ASSUME TypeOK, [Next]_vars PROVE TypeOK'
  OBVIOUS
<1>a. run \in Rows /\ worker \in Processes
  BY DEF TypeOK, Rows, Processes
<1>b. ASSUME run' \in Rows, UNCHANGED <<tenancy, lock, worker, provider, bounds>>
      PROVE  TypeOK'
  BY <1>b DEF TypeOK, Rows, tenancy, bounds
<1>c. ASSUME run' \in Rows, worker' \in Processes,
             UNCHANGED <<tenancy, lock, provider, bounds>>
      PROVE  TypeOK'
  BY <1>c DEF TypeOK, Rows, Processes, tenancy, bounds
<1>d. Expired(run) \in Rows
  BY <1>a, ExpiredRows DEF Rows
<1>e. \A S : Cancelled(S) \in Rows
  BY <1>a, CancelledRows DEF Rows
<1>1. ASSUME NEW u \in Users, NEW o \in Orgs, NEW r \in Requests,
             NEW k \in Kinds, Enqueue(u, o, r, k)
      PROVE  TypeOK'
  <2>1. config[o].revision \in Nat
    BY DEF TypeOK, ConfigRecord
  <2>2. [state |-> "PENDING", org |-> o, user |-> u, kind |-> k,
         revision |-> config[o].revision, token |-> 0, lapsed |-> FALSE,
         today |-> TRUE, attempts |-> 0, usage |-> 0] \in RunRecord
    BY <2>1, KindsAssumption DEF RunRecord
  <2>3. run' \in Rows
    BY <1>1, <1>d, <2>2 DEF Enqueue, Rows
  <2>4. QED
    BY <1>1, <1>b, <2>3 DEF Enqueue
<1>2. ASSUME NEW u \in Users, NEW r \in Requests, CancelRun(u, r)
      PROVE  TypeOK'
  BY <1>2, <1>b, <1>e DEF CancelRun
<1>3. ASSUME NEW u \in Users, NEW o \in Orgs, ReadRuns(u, o)
      PROVE  TypeOK'
  BY <1>3, <1>b, <1>d DEF ReadRuns
<1>4. ASSUME NEW u \in Users, NEW o \in Orgs, NEW b \in BOOLEAN,
             NEW n \in Limits, SaveConfiguration(u, o, b, n)
      PROVE  TypeOK'
  <2>1. n \in Nat
    BY LimitsAssumption
  <2>2. config' \in [Orgs -> ConfigRecord]
    BY <1>4, <2>1 DEF SaveConfiguration, ConfigRecord, TypeOK
  <2>3. run' \in Rows
    BY <1>4, <1>e DEF SaveConfiguration
  <2>4. QED
    BY <1>4, <2>2, <2>3 DEF SaveConfiguration, TypeOK, Rows, bounds
<1>5. ASSUME NEW u \in Users, NEW o \in Orgs, NEW new \in Roles,
             ChangeRole(u, o, new)
      PROVE  TypeOK'
  <2>1. role' \in [Orgs -> [Users -> Roles]]
    BY <1>5 DEF ChangeRole, TypeOK
  <2>2. QED
    BY <1>5, <2>1 DEF ChangeRole, TypeOK, bounds
<1>6. ASSUME NEW u \in Users, Deactivate(u)
      PROVE  TypeOK'
  <2>1. run' \in Rows
    BY <1>6, <1>e DEF Deactivate
  <2>2. active' \in [Users -> BOOLEAN]
    BY <1>6 DEF Deactivate, TypeOK
  <2>3. QED
    BY <1>6, <2>1, <2>2 DEF Deactivate, TypeOK, Rows, bounds
<1>7. ASSUME NEW u \in Users, Activate(u)
      PROVE  TypeOK'
  <2>1. active' \in [Users -> BOOLEAN]
    BY <1>7 DEF Activate, TypeOK
  <2>2. QED
    BY <1>7, <2>1 DEF Activate, TypeOK, bounds
<1>8. ASSUME NEW r \in Requests, Lapse(r)
      PROVE  TypeOK'
  <2>1. run' \in Rows
    <3>1. [run[r] EXCEPT !.lapsed = TRUE] \in RunRecord
      BY <1>a DEF Rows, RunRecord
    <3>2. run' = [run EXCEPT ![r] = [run[r] EXCEPT !.lapsed = TRUE]]
      BY <1>8 DEF Lapse
    <3>3. QED
      BY <1>a, <3>1, <3>2, RowUpdate
  <2>2. QED
    BY <1>8, <1>b, <2>1 DEF Lapse
<1>9. CASE Midnight
  <2>1. run' \in Rows
    <3>1. \A r \in Requests : [run[r] EXCEPT !.today = FALSE] \in RunRecord
      BY <1>a DEF Rows, RunRecord
    <3>2. run' = [r \in Requests |-> [run[r] EXCEPT !.today = FALSE]]
      BY <1>9 DEF Midnight
    <3>3. QED
      BY <3>1, <3>2 DEF Rows
  <2>2. QED
    BY <1>9, <2>1 DEF Midnight, TypeOK, Rows, tenancy
<1>10. ASSUME NEW w \in Workers, Claim(w)
       PROVE  TypeOK'
  <2>1. CASE UNCHANGED worker /\ run' = Expired(run)
    BY <1>10, <1>b, <1>d, <2>1 DEF Claim
  <2>2. ASSUME NEW r \in Requests,
               run' = [Expired(run) EXCEPT ![r] = [Expired(run)[r] EXCEPT
                         !.state = "RUNNING", !.token = Expired(run)[r].token + 1,
                         !.lapsed = FALSE]],
               worker' = [worker EXCEPT ![w] = [Idle EXCEPT
                            !.pc = "open", !.run = r,
                            !.token = Expired(run)[r].token + 1]]
        PROVE  TypeOK'
    <3>1. Expired(run)[r] \in RunRecord /\ Expired(run)[r].token + 1 \in Nat
      BY <1>d DEF Rows, RunRecord
    <3>2. [Expired(run)[r] EXCEPT !.state = "RUNNING",
             !.token = Expired(run)[r].token + 1, !.lapsed = FALSE] \in RunRecord
      BY <3>1, RowEdits
    <3>3. [Idle EXCEPT !.pc = "open", !.run = r,
             !.token = Expired(run)[r].token + 1] \in WorkerRecord
      BY <3>1 DEF Idle, WorkerRecord, Points
    <3>4. run' \in Rows
      BY <1>d, <2>2, <3>2 DEF Rows
    <3>5. QED
      BY <1>10, <1>a, <1>c, <2>2, <3>3, <3>4, ProcessUpdate DEF Claim
  <2>3. QED
    BY <1>10, <2>1, <2>2 DEF Claim
<1>11. ASSUME NEW w \in Workers, WorkerStep(w)
       PROVE  TypeOK'
  <2>a. \A n \in {worker[w].sent, worker[w].got, worker[w].sent + 1,
                  worker[w].got + 1, 0} : n \in Nat
    BY <1>a DEF Processes, WorkerRecord
  <2>b. \A p \in {"context", "round", "reserve", "wait", "recheck", "accept",
                  "publish", "commit", "send", "save", "fail"} : p \in Points
    BY DEF Points
  <2>c. ASSUME R(w) \in Requests
        PROVE  \A n, m \in Nat, s \in States :
                 [run[R(w)] EXCEPT !.state = s, !.usage = n, !.attempts = m]
                    \in RunRecord
    BY <1>a, <2>c DEF Rows, RunRecord
  <2>1. CASE Open(w)
    BY <1>a, <1>c, <2>1, <2>b, RaiseType, AuthorizeType DEF Open
  <2>2. CASE Context(w)
    BY <1>a, <1>c, <2>2, <2>b, GoType, ReturnType DEF Context
  <2>3. CASE Round(w)
    BY <1>a, <1>c, <2>3, <2>b, LeaveType, AuthorizeType DEF Round
  <2>4. CASE Reserve(w)
    <3>1. [worker[w] EXCEPT !.pc = "send", !.sent = worker[w].sent + 1]
            \in WorkerRecord
      BY <1>a, <2>a, <2>b DEF Processes, WorkerRecord
    <3>2. worker' \in Processes
      BY <1>a, <2>4, <3>1, LeaveType, ProcessUpdate DEF Reserve
    <3>3. run' \in Rows
      BY <1>a, <2>4, <2>a DEF Reserve, CallsReserved, Rows, RunRecord
    <3>4. QED
      BY <1>c, <2>4, <3>2, <3>3 DEF Reserve
  <2>5. CASE Send(w)
    <3>1. worker' \in Processes
      BY <1>a, <2>5, <2>b, GoType DEF Send
    <3>2. Overdue(w) \in Nat
      BY DEF Overdue
    <3>3. \A x \in ProviderRecord :
             [x EXCEPT !.requests = x.requests + 1, !.late = x.late + Overdue(w)]
                \in ProviderRecord
      <4> TAKE x \in ProviderRecord
      <4>1. x.requests + 1 \in Nat /\ x.late + Overdue(w) \in Nat
        BY <3>2 DEF ProviderRecord
      <4>2. QED
        BY <4>1, ProviderEdits
    <3>5. provider' \in [Requests -> ProviderRecord]
      <4>1. provider \in [Requests -> ProviderRecord]
        BY DEF TypeOK
      <4>2. provider' = [provider EXCEPT ![R(w)] =
               [provider[R(w)] EXCEPT
                  !.requests = provider[R(w)].requests + 1,
                  !.late = provider[R(w)].late + Overdue(w)]]
        BY <2>5 DEF Send
      <4>3. QED
        BY <3>3, <4>1, <4>2
    <3>4. QED
      BY <2>5, <3>1, <3>5 DEF Send, TypeOK, Processes, tenancy, bounds
  <2>6. CASE Answer(w)
    <3>1. [worker[w] EXCEPT !.pc = "save", !.got = worker[w].got + 1]
            \in WorkerRecord
      BY <1>a, <2>a, <2>b DEF Processes, WorkerRecord
    <3>2. worker' \in Processes
      <4>1. CASE Raise(w, "FAILED")
        BY <1>a, <4>1, RaiseType
      <4>2. CASE worker' = [worker EXCEPT ![w] =
                   [worker[w] EXCEPT !.pc = "save", !.got = worker[w].got + 1]]
        BY <1>a, <3>1, <4>2 DEF Processes
      <4>3. QED
        BY <2>6, <4>1, <4>2 DEF Answer
    <3>3. provider' \in [Requests -> ProviderRecord]
      <4>1. \A x \in ProviderRecord :
              [x EXCEPT !.replies = x.replies + 1] \in ProviderRecord
        BY DEF ProviderRecord
      <4>2. QED
        BY <2>6, <4>1 DEF Answer, TypeOK
    <3>4. QED
      BY <2>6, <3>2, <3>3 DEF Answer, TypeOK, Processes, tenancy, bounds
  <2>7. CASE SaveUsage(w)
    <3>1. worker' \in Processes
      BY <1>a, <2>7, <2>b, GoType DEF SaveUsage
    <3>2. run' \in Rows
      <4>1. R(w) \in Requests => [run[R(w)] EXCEPT !.usage = worker[w].got]
                                    \in RunRecord
        BY <1>a, <2>a, RowEdits DEF Rows
      <4>2. QED
        BY <1>a, <2>7, <4>1, RowUpdate DEF SaveUsage
    <3>3. QED
      BY <1>c, <2>7, <3>1, <3>2 DEF SaveUsage
  <2>8. CASE Recheck(w)
    <3>1. worker' \in Processes
      BY <1>a, <2>8, <2>b, LeaveType, RaiseType, AuthorizeType, GoType,
         ReturnType DEF Recheck
    <3>2. QED
      BY <1>a, <1>c, <2>8, <3>1 DEF Recheck
  <2>9. CASE Accept(w)
    <3>1. [worker[w] EXCEPT !.pc = "fail", !.outcome = "CANCELLED"]
            \in WorkerRecord
      BY <1>a, <2>b DEF Processes, WorkerRecord
    <3>2. worker' \in Processes
      BY <1>a, <2>9, <2>b, <3>1, LeaveType, GoType, ProcessUpdate DEF Accept
    <3>3. run' \in Rows
      BY <1>a, <2>9, <2>a DEF Accept, Rows, RunRecord
    <3>4. QED
      BY <1>c, <2>9, <3>2, <3>3 DEF Accept
  <2>10. CASE Publish(w)
    <3>1. worker' \in Processes
      BY <1>a, <2>10, <2>b, RaiseType, AuthorizeType DEF Publish
    <3>2. lock' \in [Orgs -> Workers \cup {NoWorker}]
      BY <2>10 DEF Publish, Locked, TypeOK
    <3>3. QED
      BY <2>10, <3>1, <3>2 DEF Publish, TypeOK, Processes, tenancy, bounds
  <2>11. CASE Commit(w)
    <3>1. worker' \in Processes
      BY <1>a, <2>11, ReturnType DEF Commit
    <3>2. run' \in Rows
      <4>1. R(w) \in Requests =>
              [run[R(w)] EXCEPT !.state = "SUCCEEDED", !.usage = worker[w].got]
                 \in RunRecord
        BY <1>a, <2>a, RowEdits DEF Rows
      <4>2. QED
        BY <1>a, <2>11, <4>1, RowUpdate DEF Commit
    <3>3. lock' \in [Orgs -> Workers \cup {NoWorker}]
      BY <2>11 DEF Commit, TypeOK
    <3>4. QED
      BY <2>11, <3>1, <3>2, <3>3
      DEF Commit, TypeOK, Rows, Processes, tenancy, bounds
  <2>12. CASE Fail(w)
    <3>1. worker' \in Processes
      BY <1>a, <2>12, ReturnType DEF Fail
    <3>2. worker[w].outcome \in States
      BY <1>a DEF Processes, WorkerRecord
    <3> DEFINE ended == [run[R(w)] EXCEPT !.state = worker[w].outcome]
               known == IF Kind(w) = "ASSISTANT" THEN 0 ELSE worker[w].got
               tried == IF Kind(w) = "TEAM" THEN worker[w].sent ELSE 0
    <3>3. known \in Nat /\ tried \in Nat
      BY <2>a
    <3>4. R(w) \in Requests => ended \in RunRecord
      BY <1>a, <3>2, RowEdits DEF Rows
    <3> HIDE DEF known, tried
    <3>5. R(w) \in Requests =>
            [ended EXCEPT !.usage = known, !.attempts = tried] \in RunRecord
      BY <3>3, <3>4, RowEdits
    <3> HIDE DEF ended
    <3>6. run' \in {run, [run EXCEPT ![R(w)] = ended],
                   [run EXCEPT ![R(w)] =
                      [ended EXCEPT !.usage = known, !.attempts = tried]]}
      BY <2>12 DEF Fail, ended, known, tried
    <3>7. run' \in Rows
      <4>1. [run EXCEPT ![R(w)] = ended] \in Rows
        BY <1>a, <3>4, RowUpdate
      <4>2. [run EXCEPT ![R(w)] =
               [ended EXCEPT !.usage = known, !.attempts = tried]] \in Rows
        BY <1>a, <3>5, RowUpdate
      <4>3. QED
        BY <1>a, <3>6, <4>1, <4>2
    <3>8. QED
      BY <1>c, <2>12, <3>1, <3>7 DEF Fail
  <2>13. CASE NodeFail(w)
    <3>1. worker' \in Processes
      BY <1>a, <2>13, ReturnType DEF NodeFail
    <3>2. worker[w].outcome \in States
      BY <1>a DEF Processes, WorkerRecord
    <3> DEFINE counted == [run[R(w)] EXCEPT !.usage = worker[w].got,
                                            !.attempts = worker[w].sent]
    <3>3. R(w) \in Requests => counted \in RunRecord
      BY <1>a, <2>a, RowEdits DEF Rows
    <3>4. run' \in {run, [run EXCEPT ![R(w)] = counted],
                   [run EXCEPT ![R(w)] =
                      [counted EXCEPT !.state = worker[w].outcome]]}
      BY <2>13 DEF NodeFail
    <3> HIDE DEF counted
    <3>5. R(w) \in Requests =>
            [counted EXCEPT !.state = worker[w].outcome] \in RunRecord
      BY <3>2, <3>3, RowEdits
    <3>6. run' \in Rows
      BY <1>a, <3>3, <3>4, <3>5, RowUpdate
    <3>7. QED
      BY <1>c, <2>13, <3>1, <3>6 DEF NodeFail
  <2>14. QED
    BY <1>11, <2>1, <2>2, <2>3, <2>4, <2>5, <2>6, <2>7, <2>8, <2>9, <2>10,
       <2>11, <2>12, <2>13 DEF WorkerStep
<1>12. ASSUME NEW w \in Workers, Stop(w)
       PROVE  TypeOK'
  <2>1. worker' \in Processes
    BY <1>12, <1>a DEF Stop, Processes, WorkerRecord
  <2>2. QED
    BY <1>12, <2>1 DEF Stop, TypeOK, Processes, tenancy
<1>13. ASSUME NEW w \in Workers, Kill(w)
       PROVE  TypeOK'
  <2>1. worker' \in Processes
    BY <1>13, <1>a, ReturnType DEF Kill
  <2>2. lock' \in [Orgs -> Workers \cup {NoWorker}]
    BY <1>13 DEF Kill, TypeOK
  <2>3. QED
    BY <1>13, <2>1, <2>2 DEF Kill, TypeOK, Processes, tenancy
<1>14. CASE UNCHANGED vars
  BY <1>14 DEF vars, TypeOK
<1>15. QED
  BY <1>1, <1>2, <1>3, <1>4, <1>5, <1>6, <1>7, <1>8, <1>9, <1>10, <1>11,
     <1>12, <1>13, <1>14 DEF Next

\* Every variable keeps its type: rows, leases, counters and worker states.
THEOREM TypeCorrect == Spec => []TypeOK
  BY InitTypeOK, StepTypeOK, PTL DEF Spec

----------------------------------------------------------------------------
(* Safety: rows only move forward, and a run is held by at most one worker. *)

(* How one row may change in a step. *)

Same(x, y) == /\ y.org = x.org /\ y.user = x.user
              /\ y.kind = x.kind /\ y.revision = x.revision

Forward(x, y) ==
    \/ y.state = x.state
    \/ x.state = "PENDING" /\ y.state \in {"RUNNING", "FAILED", "CANCELLED"}
    \/ x.state = "RUNNING" /\ y.state \in {"SUCCEEDED", "FAILED", "CANCELLED"}

Moves(x, y) ==
    /\ Same(x, y)
    /\ Forward(x, y)
    /\ x.state # "PENDING" /\ x.lapsed => y.lapsed
    /\ y.today => x.today

\* A row is created alone in its organization, under the current settings.
Admitted(r) ==
    /\ run[r].state = "NONE" /\ run'[r].state = "PENDING"
    /\ \A s \in Requests \ {r} :
         run'[s].state \in Active => run'[s].org # run'[r].org
    /\ run'[r].revision = config[run'[r].org].revision
    /\ run'[r].kind # "TEST" => config[run'[r].org].enabled
    /\ UNCHANGED <<config, worker, provider>>

LEMMA MovesReflexive == \A x : Moves(x, x)
  BY DEF Moves, Same, Forward

LEMMA StateEdit ==
    ASSUME NEW x \in RunRecord, NEW s
    PROVE  LET y == [x EXCEPT !.state = s] IN
           /\ Same(x, y) /\ y.state = s
           /\ y.attempts = x.attempts /\ y.lapsed = x.lapsed
           /\ y.today = x.today
  BY DEF RunRecord, Same

LEMMA ExpiredMoves ==
    ASSUME run \in Rows
    PROVE  \A r \in Requests : /\ Moves(run[r], Expired(run)[r])
                               /\ Expired(run)[r].attempts = run[r].attempts
                               /\ Expired(run)[r].lapsed = run[r].lapsed
                               /\ Expired(run)[r].today = run[r].today
                               /\ Expired(run)[r].state \in
                                    {run[r].state, "FAILED"}
<1> SUFFICES ASSUME NEW r \in Requests
             PROVE  /\ Moves(run[r], Expired(run)[r])
                    /\ Expired(run)[r].attempts = run[r].attempts
                    /\ Expired(run)[r].lapsed = run[r].lapsed
                    /\ Expired(run)[r].today = run[r].today
                    /\ Expired(run)[r].state \in {run[r].state, "FAILED"}
  OBVIOUS
<1>1. run[r] \in RunRecord
  BY DEF Rows
<1>2. CASE run[r].state \in Active /\ run[r].lapsed
  <2>1. Expired(run)[r] = [run[r] EXCEPT !.state = "FAILED"]
    BY <1>2, ExpiredRows DEF Rows
  <2>2. /\ Same(run[r], Expired(run)[r])
        /\ Expired(run)[r].state = "FAILED"
        /\ Expired(run)[r].attempts = run[r].attempts
        /\ Expired(run)[r].lapsed = run[r].lapsed
        /\ Expired(run)[r].today = run[r].today
    BY <1>1, <2>1, StateEdit
  <2>3. QED
    BY <1>2, <2>2 DEF Moves, Forward
<1>3. CASE ~(run[r].state \in Active /\ run[r].lapsed)
  BY <1>3, ExpiredRows, MovesReflexive DEF Rows
<1>4. QED
  BY <1>2, <1>3

LEMMA CancelledMoves ==
    ASSUME run \in Rows, NEW S
    PROVE  \A r \in Requests : /\ Moves(run[r], Cancelled(S)[r])
                               /\ Cancelled(S)[r].attempts = run[r].attempts
<1> SUFFICES ASSUME NEW r \in Requests
             PROVE  /\ Moves(run[r], Cancelled(S)[r])
                    /\ Cancelled(S)[r].attempts = run[r].attempts
  OBVIOUS
<1>1. run[r] \in RunRecord
  BY DEF Rows
<1>2. CASE r \in S /\ IsActive(r)
  <2>1. Cancelled(S)[r] = [run[r] EXCEPT !.state = "CANCELLED"]
    BY <1>2, CancelledRows DEF Rows
  <2>2. /\ Same(run[r], Cancelled(S)[r])
        /\ Cancelled(S)[r].state = "CANCELLED"
        /\ Cancelled(S)[r].attempts = run[r].attempts
        /\ Cancelled(S)[r].lapsed = run[r].lapsed
        /\ Cancelled(S)[r].today = run[r].today
    BY <1>1, <2>1, StateEdit
  <2>3. QED
    BY <1>2, <2>2 DEF Moves, Forward, IsActive
<1>3. CASE ~(r \in S /\ IsActive(r))
  BY <1>3, CancelledRows, MovesReflexive DEF Rows
<1>4. QED
  BY <1>2, <1>3

\* What anybody but a worker does to the rows.
Outside ==
    \/ \E u \in Users, o \in Orgs, r \in Requests, k \in Kinds :
          Enqueue(u, o, r, k)
    \/ \E u \in Users, r \in Requests : CancelRun(u, r)
    \/ \E u \in Users, o \in Orgs : ReadRuns(u, o)
    \/ \E u \in Users, o \in Orgs, b \in BOOLEAN, n \in Limits :
          SaveConfiguration(u, o, b, n)
    \/ \E u \in Users, o \in Orgs, new \in Roles : ChangeRole(u, o, new)
    \/ \E u \in Users : Deactivate(u) \/ Activate(u)
    \/ \E r \in Requests : Lapse(r)
    \/ Midnight
    \/ UNCHANGED vars

LEMMA EnqueueMoves ==
    ASSUME run \in Rows, NEW u \in Users, NEW o \in Orgs, NEW r \in Requests,
           NEW k \in Kinds, Enqueue(u, o, r, k)
    PROVE  /\ Admitted(r)
           /\ \A s \in Requests \ {r} : /\ Moves(run[s], run'[s])
                                        /\ run'[s].attempts = run[s].attempts
<1> DEFINE rows == Expired(run)
<1>1. rows \in Rows
  BY ExpiredRows DEF Rows
<1>2. /\ run'[r].state = "PENDING" /\ run'[r].org = o
      /\ run'[r].revision = config[o].revision /\ run'[r].kind = k
      /\ \A s \in Requests \ {r} : run'[s] = rows[s]
  BY <1>1 DEF Enqueue, Rows
<1>3. \A s \in Requests : rows[s].state \in Active /\ rows[s].org = o
                            => s \notin RunsOf(o)
  BY DEF Enqueue, SlotFree
<1>4. \A s \in Requests : rows[s].state \in Active => /\ run[s].state # "NONE"
                                                      /\ rows[s].org = run[s].org
  <2> TAKE s \in Requests
  <2>1. run[s].state \in States
    BY DEF Rows, RunRecord
  <2>2. Same(run[s], rows[s]) /\ rows[s].state \in {run[s].state, "FAILED"}
    BY ExpiredMoves DEF Moves
  <2>3. QED
    BY <2>1, <2>2 DEF Same
<1>5. \A s \in Requests : ~(rows[s].state \in Active /\ rows[s].org = o)
  BY <1>3, <1>4 DEF RunsOf
<1>6. Admitted(r)
  <2>1. run[r].state = "NONE" /\ (k # "TEST" => config[o].enabled)
    BY DEF Enqueue
  <2>2. UNCHANGED <<config, worker, provider>>
    BY DEF Enqueue, tenancy
  <2>3. QED
    BY <1>2, <1>5, <2>1, <2>2 DEF Admitted
<1>7. QED
  BY <1>2, <1>6, ExpiredMoves

LEMMA OutsideMoves ==
    ASSUME TypeOK, Outside
    PROVE  /\ UNCHANGED <<lock, worker, provider>>
           /\ \A r \in Requests :
                \/ Admitted(r)
                \/ /\ Moves(run[r], run'[r])
                   /\ run'[r].attempts = run[r].attempts
<1>0. run \in Rows
  BY DEF TypeOK, Rows
<1> USE DEF tenancy, bounds
<1>1. ASSUME NEW u \in Users, NEW o \in Orgs, NEW r \in Requests,
             NEW k \in Kinds, Enqueue(u, o, r, k)
      PROVE  UNCHANGED <<lock, worker, provider>>
  BY <1>1 DEF Enqueue
<1>2. CASE \E u \in Users, r \in Requests : CancelRun(u, r)
  BY <1>0, <1>2, CancelledMoves DEF CancelRun
<1>3. CASE \E u \in Users, o \in Orgs : ReadRuns(u, o)
  BY <1>0, <1>3, ExpiredMoves DEF ReadRuns
<1>4. CASE \E u \in Users, o \in Orgs, b \in BOOLEAN, n \in Limits :
             SaveConfiguration(u, o, b, n)
  BY <1>0, <1>4, CancelledMoves DEF SaveConfiguration
<1>5. CASE \E u \in Users, o \in Orgs, new \in Roles : ChangeRole(u, o, new)
  BY <1>5, MovesReflexive DEF ChangeRole
<1>6. CASE \E u \in Users : Deactivate(u) \/ Activate(u)
  BY <1>0, <1>6, CancelledMoves, MovesReflexive DEF Deactivate, Activate
<1>7. CASE \E r \in Requests : Lapse(r)
  BY <1>0, <1>7 DEF Lapse, Rows, RunRecord, Moves, Same, Forward
<1>8. CASE Midnight
  BY <1>0, <1>8 DEF Midnight, Rows, RunRecord, Moves, Same, Forward
<1>9. CASE UNCHANGED vars
  BY <1>9, MovesReflexive DEF vars
<1>10. QED
  BY <1>0, <1>1, <1>2, <1>3, <1>4, <1>5, <1>6, <1>7, <1>8, <1>9, EnqueueMoves
  DEF Outside

LEMMA ClaimMoves ==
    ASSUME TypeOK, NEW w \in Workers, Claim(w)
    PROVE  /\ UNCHANGED <<config, role, active, lock, provider>>
           /\ \A r \in Requests : /\ Moves(run[r], run'[r])
                                  /\ run'[r].attempts = run[r].attempts
           /\ \/ UNCHANGED worker
              \/ \E r \in Requests :
                   /\ run[r].state = "PENDING" /\ run'[r].state = "RUNNING"
                   /\ worker[w].pc = "idle"
                   /\ \E n \in Nat : worker' = [worker EXCEPT ![w] =
                        [Idle EXCEPT !.pc = "open", !.run = r, !.token = n]]
<1> DEFINE rows == Expired(run)
<1>0. run \in Rows /\ rows \in Rows
  BY ExpiredRows DEF TypeOK, Rows
<1>1. UNCHANGED <<config, role, active, lock, provider>>
  BY DEF Claim, tenancy
<1>2. CASE run' = rows /\ UNCHANGED worker
  BY <1>0, <1>1, <1>2, ExpiredMoves
<1>3. ASSUME NEW r \in Requests, rows[r].state = "PENDING", At(w, "idle"),
             run' = [rows EXCEPT ![r] = [rows[r] EXCEPT !.state = "RUNNING",
                       !.token = rows[r].token + 1, !.lapsed = FALSE]],
             worker' = [worker EXCEPT ![w] = [Idle EXCEPT !.pc = "open",
                          !.run = r, !.token = rows[r].token + 1]]
      PROVE  /\ \A s \in Requests : /\ Moves(run[s], run'[s])
                                    /\ run'[s].attempts = run[s].attempts
             /\ run[r].state = "PENDING" /\ run'[r].state = "RUNNING"
             /\ worker[w].pc = "idle"
             /\ \E n \in Nat : worker' = [worker EXCEPT ![w] =
                    [Idle EXCEPT !.pc = "open", !.run = r, !.token = n]]
  <2>1. rows[r] \in RunRecord /\ rows[r].token + 1 \in Nat
    BY <1>0 DEF Rows, RunRecord
  <2>2. run'[r] = [rows[r] EXCEPT !.state = "RUNNING",
                     !.token = rows[r].token + 1, !.lapsed = FALSE]
    BY <1>0, <1>3 DEF Rows
  <2>3. /\ Same(rows[r], run'[r]) /\ run'[r].state = "RUNNING"
        /\ run'[r].attempts = rows[r].attempts
        /\ run'[r].today = rows[r].today
    BY <2>1, <2>2 DEF RunRecord, Same
  <2>4. \A s \in Requests \ {r} : run'[s] = rows[s]
    BY <1>0, <1>3 DEF Rows
  <2>5. run[r].state = "PENDING" /\ Same(run[r], rows[r])
        /\ rows[r].attempts = run[r].attempts
        /\ rows[r].today = run[r].today
    BY <1>0, <1>3, ExpiredMoves DEF Moves
  <2>6. Moves(run[r], run'[r])
    BY <2>3, <2>5 DEF Moves, Same, Forward
  <2>7. \A s \in Requests \ {r} : /\ Moves(run[s], run'[s])
                                  /\ run'[s].attempts = run[s].attempts
    BY <1>0, <2>4, ExpiredMoves
  <2>8. QED
    BY <1>3, <2>1, <2>3, <2>5, <2>6, <2>7 DEF At
<1>4. QED
  BY <1>1, <1>2, <1>3 DEF Claim

\* A worker writes to a run it holds, and moves it out of RUNNING at most.
LEMMA WorkerMoves ==
    ASSUME TypeOK, NEW w \in Workers, WorkerStep(w)
    PROVE  /\ UNCHANGED <<config, role, active>>
           /\ \A r \in Requests : Moves(run[r], run'[r])
           /\ \A r \in Requests : r # R(w) => run'[r] = run[r]
<1>0. run \in Rows /\ worker \in Processes
  BY DEF TypeOK, Rows, Processes
<1> DEFINE Goal == /\ UNCHANGED <<config, role, active>>
                   /\ \A r \in Requests : Moves(run[r], run'[r])
                   /\ \A r \in Requests : r # R(w) => run'[r] = run[r]
<1> SUFFICES Goal
  OBVIOUS
<1>1. ASSUME UNCHANGED run, UNCHANGED tenancy
      PROVE  Goal
  BY <1>1, MovesReflexive DEF tenancy
<1>2. ASSUME NEW row, UNCHANGED tenancy, run' = [run EXCEPT ![R(w)] = row],
             R(w) \in Requests => Moves(run[R(w)], row)
      PROVE  Goal
  BY <1>0, <1>2, MovesReflexive DEF tenancy, Rows
<1> HIDE DEF Goal
<1>3. CASE Open(w) \/ Context(w) \/ Round(w) \/ Send(w) \/ Answer(w)
           \/ Recheck(w) \/ Publish(w)
  BY <1>1, <1>3 DEF Open, Context, Round, Send, Answer, Recheck, Publish
<1>4. ASSUME NEW n, R(w) \in Requests
      PROVE  /\ Moves(run[R(w)], [run[R(w)] EXCEPT !.usage = n])
             /\ Moves(run[R(w)], [run[R(w)] EXCEPT !.attempts = n])
  BY <1>0, <1>4 DEF Rows, RunRecord, Moves, Same, Forward
<1>5. CASE Reserve(w)
  BY <1>1, <1>2, <1>4, <1>5 DEF Reserve
<1>6. CASE SaveUsage(w) \/ Accept(w)
  BY <1>1, <1>2, <1>4, <1>6 DEF SaveUsage, Accept
<1>7. CASE Commit(w)
  <2>1. ASSUME Live(w), R(w) \in Requests
        PROVE  Moves(run[R(w)], [run[R(w)] EXCEPT !.state = "SUCCEEDED",
                                                  !.usage = worker[w].got])
    BY <1>0, <2>1 DEF Live, Rows, RunRecord, Moves, Same, Forward
  <2>2. QED
    BY <1>1, <1>2, <1>7, <2>1 DEF Commit
<1>8. ASSUME R(w) \in Requests, Live(w)
      PROVE  \A n, m :
               /\ Moves(run[R(w)], [run[R(w)] EXCEPT !.state = worker[w].outcome])
               /\ Moves(run[R(w)], [[run[R(w)] EXCEPT !.state = worker[w].outcome]
                                       EXCEPT !.usage = n, !.attempts = m])
               /\ Moves(run[R(w)], [[run[R(w)] EXCEPT !.usage = n, !.attempts = m]
                                       EXCEPT !.state = worker[w].outcome])
  <2>1. worker[w].outcome \in {"FAILED", "CANCELLED"}
    BY <1>0 DEF Processes, WorkerRecord
  <2>2. QED
    BY <1>0, <1>8, <2>1 DEF Live, Rows, RunRecord, Moves, Same, Forward
<1>9. CASE Fail(w)
  BY <1>1, <1>2, <1>8, <1>9 DEF Fail
<1>10. CASE NodeFail(w)
  <2>1. ASSUME R(w) \in Requests
        PROVE  \A n, m : Moves(run[R(w)], [run[R(w)] EXCEPT !.usage = n,
                                                            !.attempts = m])
    BY <1>0, <2>1 DEF Rows, RunRecord, Moves, Same, Forward
  <2>2. QED
    BY <1>1, <1>2, <1>8, <1>10, <2>1 DEF NodeFail
<1>11. QED
  BY <1>3, <1>5, <1>6, <1>7, <1>9, <1>10 DEF WorkerStep

LEMMA RowsMove ==
    ASSUME TypeOK, [Next]_vars
    PROVE  \A r \in Requests : Admitted(r) \/ Moves(run[r], run'[r])
<1>1. CASE Outside
  BY <1>1, OutsideMoves
<1>2. CASE \E w \in Workers : Claim(w) \/ WorkerStep(w)
  BY <1>2, ClaimMoves, WorkerMoves
<1>3. CASE \E w \in Workers : Stop(w) \/ Kill(w)
  BY <1>3, MovesReflexive DEF Stop, Kill
<1>4. QED
  BY <1>1, <1>2, <1>3 DEF Next, Outside

\* A run that has ended keeps its outcome (the live_run filter).
THEOREM RunsStayEnded == Spec => EndedRunsAreFinal
<1>1. TypeOK /\ [Next]_vars =>
        [\A r \in Requests : run[r].state \in Ended
                               => run'[r].state = run[r].state]_vars
  BY RowsMove DEF Admitted, Moves, Forward
<1>2. QED
  BY <1>1, TypeCorrect, PTL DEF Spec, EndedRunsAreFinal

\* One queued or running run per organization (agent_one_active_per_org).
THEOREM SlotExclusive == Spec => []OneActiveRunPerOrg
<1>1. Init => OneActiveRunPerOrg
  BY DEF Init, OneActiveRunPerOrg, IsActive
<1>2. TypeOK /\ OneActiveRunPerOrg /\ [Next]_vars => OneActiveRunPerOrg'
  <2> SUFFICES ASSUME TypeOK, OneActiveRunPerOrg, [Next]_vars,
                      NEW r \in Requests, NEW s \in Requests,
                      run'[r].state \in Active, run'[s].state \in Active,
                      run'[r].org = run'[s].org
               PROVE  r = s
    BY DEF OneActiveRunPerOrg, IsActive
  <2>1. CASE Admitted(r) \/ Admitted(s)
    BY <2>1 DEF Admitted
  <2>2. CASE Moves(run[r], run'[r]) /\ Moves(run[s], run'[s])
    BY <2>2 DEF Moves, Same, Forward, OneActiveRunPerOrg, IsActive
  <2>3. QED
    BY <2>1, <2>2, RowsMove
<1>3. QED
  BY <1>1, <1>2, TypeCorrect, PTL DEF Spec

----------------------------------------------------------------------------
(* The configuration a run was admitted under. *)

\* Settings change only together with the end of every run of the workspace.
LEMMA ConfigurationSteps ==
    ASSUME TypeOK, [Next]_vars
    PROVE  \A o \in Orgs : \/ config'[o] = config[o]
                           \/ \A r \in RunsOf(o) : run'[r].state \notin Active
<1>0. run \in Rows
  BY DEF TypeOK, Rows
<1>1. ASSUME NEW u \in Users, NEW o \in Orgs, NEW b \in BOOLEAN,
             NEW n \in Limits, SaveConfiguration(u, o, b, n), NEW p \in Orgs
      PROVE  \/ config'[p] = config[p]
             \/ \A r \in RunsOf(p) : run'[r].state \notin Active
  <2>1. CASE p # o
    BY <1>1, <2>1 DEF SaveConfiguration, TypeOK
  <2>2. ASSUME p = o, NEW r \in RunsOf(o)
        PROVE  run'[r].state \notin Active
    <3>1. r \in Requests /\ run'[r] = Cancelled(RunsOf(o))[r]
      BY <1>1, <2>2 DEF SaveConfiguration, RunsOf
    <3>2. CASE IsActive(r)
      <4>1. run'[r] = [run[r] EXCEPT !.state = "CANCELLED"]
        BY <1>0, <2>2, <3>1, <3>2, CancelledRows DEF Rows
      <4>2. QED
        BY <1>0, <3>1, <4>1 DEF Rows, RunRecord
    <3>3. CASE ~IsActive(r)
      BY <1>0, <3>1, <3>3, CancelledRows DEF Rows, IsActive
    <3>4. QED
      BY <3>2, <3>3
  <2>3. QED
    BY <2>1, <2>2
<1>2. CASE \E w \in Workers : Claim(w) \/ WorkerStep(w)
  BY <1>2, ClaimMoves, WorkerMoves
<1>3. CASE UNCHANGED config
  BY <1>3
<1>4. QED
  BY <1>1, <1>2, <1>3
  DEF Next, vars, Enqueue, CancelRun, ReadRuns, ChangeRole, Deactivate,
      Activate, Lapse, Midnight, Stop, Kill, tenancy

\* A run that may still call the provider was admitted under the settings in
\* force (save_configuration cancels the others).
THEOREM SettingsCurrent == Spec => []ActiveRunsUseCurrentConfiguration
<1>1. Init => ActiveRunsUseCurrentConfiguration
  BY DEF Init, ActiveRunsUseCurrentConfiguration, IsActive
<1>2. TypeOK /\ ActiveRunsUseCurrentConfiguration /\ [Next]_vars
        => ActiveRunsUseCurrentConfiguration'
  <2> SUFFICES ASSUME TypeOK, ActiveRunsUseCurrentConfiguration, [Next]_vars,
                      NEW r \in Requests, run'[r].state \in Active
               PROVE  /\ config'[run'[r].org].revision = run'[r].revision
                      /\ run'[r].kind # "TEST" => config'[run'[r].org].enabled
    BY DEF ActiveRunsUseCurrentConfiguration, IsActive, Changed
  <2>1. CASE Admitted(r)
    BY <2>1 DEF Admitted
  <2>2. CASE Moves(run[r], run'[r])
    <3>1. Same(run[r], run'[r]) /\ run[r].state \in Active
      BY <2>2 DEF Moves, Forward
    <3>2. r \in RunsOf(run[r].org) /\ run[r].org \in Orgs
      BY <3>1 DEF RunsOf, TypeOK, RunRecord
    <3>3. config'[run[r].org] = config[run[r].org]
      BY <3>2, ConfigurationSteps
    <3>4. ~Changed(r)
      BY <3>1 DEF ActiveRunsUseCurrentConfiguration, IsActive
    <3>5. QED
      BY <3>1, <3>3, <3>4 DEF Same, Changed
  <2>3. QED
    BY <2>1, <2>2, RowsMove
<1>3. QED
  BY <1>1, <1>2, TypeCorrect, PTL DEF Spec

----------------------------------------------------------------------------
(* Who holds a run. *)

Busy(w) == worker[w].pc # "idle"

Holds ==
    /\ \A w \in Workers : Busy(w) =>
         R(w) \in Requests /\ run[R(w)].state \notin {"NONE", "PENDING"}
    /\ \A v, w \in Workers : Busy(v) /\ Busy(w) /\ R(v) = R(w) => v = w

\* What a step does to the local state of one worker.
LEMMA WorkerSteps ==
    ASSUME TypeOK, NEW w \in Workers, WorkerStep(w)
    PROVE  /\ Busy(w)
           /\ \A v \in Workers \ {w} : worker'[v] = worker[v]
           /\ \/ worker'[w] = Idle
              \/ worker'[w].run = R(w) /\ worker'[w].pc # "idle"
<1>0. worker \in Processes /\ worker[w] \in WorkerRecord
  BY DEF TypeOK, Processes
<1> DEFINE Goal == /\ \A v \in Workers \ {w} : worker'[v] = worker[v]
                   /\ \/ worker'[w] = Idle
                      \/ worker'[w].run = R(w) /\ worker'[w].pc # "idle"
<1>1. ASSUME NEW p, Go(w, p), p # "idle"
      PROVE  Goal
  BY <1>0, <1>1 DEF Go, R, Processes, WorkerRecord
<1>2. ASSUME NEW out, Raise(w, out)
      PROVE  Goal
  BY <1>0, <1>2, HandlerCases DEF Raise, R, Processes, WorkerRecord
<1>3. ASSUME Return(w)
      PROVE  Goal
  BY <1>0, <1>3 DEF Return, Processes
<1>4. ASSUME NEW p, NEW n, p # "idle",
             \E x \in {[worker[w] EXCEPT !.pc = p, !.sent = n],
                       [worker[w] EXCEPT !.pc = p, !.got = n],
                       [worker[w] EXCEPT !.pc = p, !.outcome = n]} :
                worker' = [worker EXCEPT ![w] = x]
      PROVE  Goal
  <2>1. \A x \in {[worker[w] EXCEPT !.pc = p, !.sent = n],
                  [worker[w] EXCEPT !.pc = p, !.got = n],
                  [worker[w] EXCEPT !.pc = p, !.outcome = n]} :
           x.run = worker[w].run /\ x.pc = p
    BY <1>0 DEF WorkerRecord
  <2>2. QED
    BY <1>0, <1>4, <2>1 DEF R, Processes
<1> HIDE DEF Goal
<1>5. Busy(w)
  BY DEF WorkerStep, Busy, At, Open, Context, Round, Reserve, Send, Answer,
         SaveUsage, Recheck, Accept, Publish, Commit, Fail, NodeFail
<1>6. ASSUME Leave(w)
      PROVE  Goal
  BY <1>2, <1>3, <1>6 DEF Leave
<1>7. ASSUME NEW p, p # "idle", Authorize(w, p)
      PROVE  Goal
  BY <1>1, <1>2, <1>7 DEF Authorize
<1>8. Goal
  BY <1>1, <1>2, <1>3, <1>4, <1>6, <1>7
  DEF WorkerStep, Open, Context, Round, Reserve, Send, Answer,
      SaveUsage, Recheck, Accept, Publish, Commit, Fail, NodeFail
<1>9. QED
  BY <1>5, <1>8 DEF Goal

LEMMA HoldsStep ==
    ASSUME TypeOK, Holds, [Next]_vars
    PROVE  Holds'
<1> SUFFICES /\ \A w \in Workers : worker'[w].pc # "idle" =>
                  /\ worker'[w].run \in Requests
                  /\ run'[worker'[w].run].state \notin {"NONE", "PENDING"}
             /\ \A v, w \in Workers :
                  worker'[v].pc # "idle" /\ worker'[w].pc # "idle"
                    /\ worker'[v].run = worker'[w].run => v = w
  BY DEF Holds, Busy, R
<1>0. \A r \in Requests : run[r].state \notin {"NONE", "PENDING"}
                            => run'[r].state \notin {"NONE", "PENDING"}
  BY RowsMove DEF Admitted, Moves, Forward
<1> DEFINE Goal ==
      /\ \A w \in Workers : worker'[w].pc # "idle" =>
           /\ worker'[w].run \in Requests
           /\ run'[worker'[w].run].state \notin {"NONE", "PENDING"}
      /\ \A v, w \in Workers :
           worker'[v].pc # "idle" /\ worker'[w].pc # "idle"
             /\ worker'[v].run = worker'[w].run => v = w
<1>1. ASSUME \A w \in Workers : worker'[w].pc = "idle"
                \/ (worker'[w].run = R(w) /\ Busy(w))
      PROVE  Goal
  BY <1>0, <1>1 DEF Holds
<1>2. CASE UNCHANGED worker
  BY <1>1, <1>2 DEF Busy, R
<1>3. CASE \E w \in Workers : WorkerStep(w) \/ Stop(w) \/ Kill(w)
  <2> PICK w \in Workers : WorkerStep(w) \/ Stop(w) \/ Kill(w)
    BY <1>3
  <2>1. CASE WorkerStep(w)
    BY <1>1, <2>1, WorkerSteps DEF Idle, Busy, R
  <2>2. CASE Stop(w)
    BY <1>1, <2>2 DEF Stop, Busy, R, TypeOK, WorkerRecord
  <2>3. CASE Kill(w)
    BY <1>1, <2>3 DEF Kill, Return, Idle, Busy, R, TypeOK
  <2>4. QED
    BY <2>1, <2>2, <2>3
<1>4. ASSUME NEW w \in Workers, Claim(w), worker' # worker
      PROVE  Goal
  <2>1. PICK r \in Requests, n \in Nat :
          /\ run[r].state = "PENDING" /\ run'[r].state = "RUNNING"
          /\ worker' = [worker EXCEPT ![w] =
               [Idle EXCEPT !.pc = "open", !.run = r, !.token = n]]
    <3>1. \E r \in Requests :
            /\ run[r].state = "PENDING" /\ run'[r].state = "RUNNING"
            /\ \E n \in Nat : worker' = [worker EXCEPT ![w] =
                 [Idle EXCEPT !.pc = "open", !.run = r, !.token = n]]
      BY <1>4, ClaimMoves
    <3>2. QED
      BY <3>1
  <2>2. worker'[w].run = r /\ \A v \in Workers \ {w} : worker'[v] = worker[v]
    <3>1. worker = [v \in Workers |-> worker[v]]
      BY DEF TypeOK
    <3> DEFINE held == [Idle EXCEPT !.pc = "open", !.run = r, !.token = n]
    <3>2. held.run = r
      BY DEF Idle
    <3> HIDE DEF held
    <3>3. worker' = [worker EXCEPT ![w] = held]
      BY <2>1 DEF held
    <3>4. QED
      BY <3>1, <3>2, <3>3
  <2>3. \A v \in Workers \ {w} : Busy(v) => R(v) # r
    BY <2>1 DEF Holds
  <2>4. QED
    BY <1>0, <2>1, <2>2, <2>3 DEF Holds, Busy, R
<1>5. QED
  BY <1>2, <1>3, <1>4, OutsideMoves DEF Next, Outside

----------------------------------------------------------------------------
(* What comes of a run: the requests the provider sees of it, its result,  *)
(* and the proof that the whole queue implements RunSlots.                 *)

(* How many requests the provider can see of a run.  The invariant ties    *)
(* the counters of a worker to its program point, the row of the run and   *)
(* the history of the provider.                                            *)

\* The counters of a worker at each program point.
Progress(w) ==
    LET k == worker[w] IN
    /\ k.pc \in {"open", "context"} => k.sent = 0 /\ k.got = 0
    /\ k.pc \in {"round", "reserve", "send", "wait"} => k.got < Calls[Kind(w)]
    /\ k.pc \in {"round", "reserve", "save", "recheck", "accept"} =>
         k.sent = k.got
    /\ k.pc \in {"send", "wait"} => k.sent = k.got + 1
    /\ k.pc # "idle" => k.sent <= Calls[Kind(w)]

\* The worker has counted what the provider saw, and counts it beforehand.
Counted(w) ==
    /\ Busy(w) => provider[R(w)].requests <= worker[w].sent
    /\ At(w, "send") =>
         /\ provider[R(w)].requests < worker[w].sent
         /\ provider[R(w)].late = 0
         /\ Kind(w) = "TEAM" =>
              provider[R(w)].requests < run[R(w)].attempts

\* The history of a run: nothing before it is claimed, nothing beyond its
\* reservation or its attempts, and one late request if its lease is gone.
History(r) ==
    LET p == provider[r] IN
    /\ run[r].state \in {"NONE", "PENDING"} => p.requests = 0 /\ p.late = 0
    /\ p.requests <= Calls[run[r].kind]
    /\ run[r].kind = "TEAM" => p.requests <= run[r].attempts
    /\ p.late <= 1
    /\ p.late > 0 => run[r].state # "RUNNING" \/ run[r].lapsed

CallsInv ==
    /\ Holds
    /\ \A w \in Workers : Progress(w) /\ Counted(w)
    /\ \A r \in Requests : History(r)

----------------------------------------------------------------------------
(* Where a step takes the local state of the worker that makes it. *)

Local(w, p) ==
    /\ worker'[w].pc = p /\ worker'[w].run = R(w)
    /\ worker'[w].sent = worker[w].sent /\ worker'[w].got = worker[w].got

\* The worker is done with the run, or about to write how it ended.
Over(w) == worker'[w] = Idle \/ Local(w, "fail") \/ Local(w, "nodefail")

LEMMA GoLocal ==
    ASSUME worker \in Processes, NEW w \in Workers, NEW p, Go(w, p)
    PROVE  Local(w, p)
  BY DEF Go, Local, R, Processes, WorkerRecord

LEMMA RaiseOver ==
    ASSUME worker \in Processes, NEW w \in Workers, NEW out, Raise(w, out)
    PROVE  Over(w)
<1>1. worker'[w] = [worker[w] EXCEPT !.pc = Handler(w), !.outcome = out]
  BY DEF Raise, Processes
<1>2. Local(w, Handler(w))
  BY <1>1 DEF Local, R, Processes, WorkerRecord
<1>3. QED
  BY <1>2, HandlerCases DEF Over

LEMMA ReturnOver ==
    ASSUME worker \in Processes, NEW w \in Workers, Return(w)
    PROVE  worker'[w] = Idle /\ Over(w)
  BY DEF Return, Over, Processes

LEMMA LeaveOver ==
    ASSUME worker \in Processes, NEW w \in Workers, Leave(w)
    PROVE  Over(w)
  BY RaiseOver, ReturnOver DEF Leave

LEMMA AuthorizeLocal ==
    ASSUME worker \in Processes, NEW w \in Workers, NEW p, Authorize(w, p)
    PROVE  Over(w) \/ Local(w, p)
  BY RaiseOver, GoLocal DEF Authorize

LEMMA ProviderSteps ==
    ASSUME TypeOK, NEW w \in Workers, WorkerStep(w)
    PROVE  /\ \A r \in Requests \ {R(w)} : provider'[r] = provider[r]
           /\ ~Send(w) => \A r \in Requests :
                /\ provider'[r].requests = provider[r].requests
                /\ provider'[r].late = provider[r].late
<1>1. CASE UNCHANGED provider
  BY <1>1
<1>2. CASE Send(w)
  BY <1>2 DEF Send, TypeOK
<1>3. CASE Answer(w)
  <2>1. CASE provider' = [provider EXCEPT ![R(w)].replies = @ + 1]
    BY <2>1 DEF TypeOK, ProviderRecord
  <2>2. QED
    BY <1>1, <1>3, <2>1 DEF Answer
<1>4. QED
  BY <1>1, <1>2, <1>3
  DEF WorkerStep, Open, Context, Round, Reserve, SaveUsage, Recheck, Accept,
      Publish, Commit, Fail, NodeFail

----------------------------------------------------------------------------
(* Steps of anybody but a busy worker. *)

LEMMA InitCalls == Init => CallsInv
<1> SUFFICES ASSUME Init PROVE CallsInv
  OBVIOUS
<1>1. \A w \in Workers : worker[w] = Idle
  BY DEF Init
<1>2. \A r \in Requests : /\ run[r].state = "NONE" /\ run[r].kind = "TEST"
                          /\ run[r].attempts = 0
                          /\ provider[r].requests = 0 /\ provider[r].late = 0
  BY DEF Init
<1>3. Holds
  BY <1>1 DEF Holds, Busy, Idle
<1>4. \A w \in Workers : Progress(w) /\ Counted(w)
  BY <1>1 DEF Progress, Counted, Busy, At, Idle
<1>5. \A r \in Requests : History(r)
  BY <1>2, CallsAssumption DEF History
<1>6. QED
  BY <1>3, <1>4, <1>5 DEF CallsInv

LEMMA HistoryMoves ==
    ASSUME TypeOK, NEW r \in Requests, History(r),
           provider'[r].requests = provider[r].requests,
           provider'[r].late = provider[r].late,
           \/ Admitted(r) /\ run'[r].kind \in AllKinds
              /\ run'[r].attempts \in Nat
           \/ /\ Moves(run[r], run'[r])
              /\ run[r].kind = "TEAM" =>
                   provider[r].requests <= run'[r].attempts
    PROVE  History(r)'
<1>1. provider[r].requests \in Nat /\ provider[r].late \in Nat
      /\ run[r].kind \in AllKinds
  BY DEF TypeOK, ProviderRecord, RunRecord
<1>2. CASE Admitted(r) /\ run'[r].kind \in AllKinds /\ run'[r].attempts \in Nat
  BY <1>1, <1>2, CallsAssumption DEF History, Admitted
<1>3. CASE Moves(run[r], run'[r])
  BY <1>1, <1>3 DEF History, Moves, Same, Forward, Admitted
<1>4. QED
  BY <1>2, <1>3

\* Held runs keep their kind and their attempts while nobody works on them.
LEMMA HeldKeep ==
    ASSUME TypeOK, CallsInv, NEW v \in Workers, Busy(v),
           worker'[v].run = R(v), worker'[v].pc = worker[v].pc,
           worker'[v].sent = worker[v].sent, worker'[v].got = worker[v].got,
           Moves(run[R(v)], run'[R(v)]),
           run'[R(v)].attempts = run[R(v)].attempts,
           provider'[R(v)] = provider[R(v)]
    PROVE  Progress(v)' /\ Counted(v)'
<1>1. Kind(v)' = Kind(v) /\ R(v)' = R(v)
  BY DEF Kind, R, Moves, Same
<1>2. Progress(v) /\ Counted(v)
  BY DEF CallsInv
<1>3. Progress(v)'
  BY <1>1, <1>2 DEF Progress
<1>4. Counted(v)'
  BY <1>1, <1>2 DEF Counted, Busy, At, R
<1>5. QED
  BY <1>3, <1>4

LEMMA CallsOutside ==
    ASSUME TypeOK, TypeOK', CallsInv, Outside
    PROVE  CallsInv'
<1>1. /\ UNCHANGED <<lock, worker, provider>>
      /\ \A r \in Requests : \/ Admitted(r)
                             \/ /\ Moves(run[r], run'[r])
                                /\ run'[r].attempts = run[r].attempts
  BY OutsideMoves
<1>2. Holds'
  BY HoldsStep DEF CallsInv, Outside, Next
<1>3. ASSUME NEW r \in Requests
      PROVE  History(r)'
  <2>1. History(r)
    BY DEF CallsInv
  <2>2. run'[r].kind \in AllKinds /\ run'[r].attempts \in Nat
    BY DEF TypeOK, RunRecord
  <2>3. QED
    BY <1>1, <2>1, <2>2, HistoryMoves DEF History
<1>4. ASSUME NEW v \in Workers
      PROVE  Progress(v)' /\ Counted(v)'
  <2>1. CASE Busy(v)
    <3>1. R(v) \in Requests /\ ~Admitted(R(v))
      BY <2>1 DEF CallsInv, Holds, Admitted
    <3>2. QED
      BY <1>1, <2>1, <3>1, HeldKeep DEF R
  <2>2. CASE ~Busy(v)
    BY <1>1, <2>2 DEF Progress, Counted, Busy, At
  <2>3. QED
    BY <2>1, <2>2
<1>5. QED
  BY <1>2, <1>3, <1>4 DEF CallsInv

LEMMA CallsClaim ==
    ASSUME TypeOK, TypeOK', CallsInv, NEW w \in Workers, Claim(w)
    PROVE  CallsInv'
<1>1. /\ UNCHANGED provider
      /\ \A r \in Requests : /\ Moves(run[r], run'[r])
                             /\ run'[r].attempts = run[r].attempts
      /\ \/ UNCHANGED worker
         \/ \E r \in Requests :
              /\ run[r].state = "PENDING" /\ run'[r].state = "RUNNING"
              /\ worker[w].pc = "idle"
              /\ \E n \in Nat : worker' = [worker EXCEPT ![w] =
                   [Idle EXCEPT !.pc = "open", !.run = r, !.token = n]]
  BY ClaimMoves
<1>2. Holds'
  BY HoldsStep DEF CallsInv, Next
<1>3. ASSUME NEW r \in Requests
      PROVE  History(r)'
  <2>1. History(r)
    BY DEF CallsInv
  <2>2. QED
    BY <1>1, <2>1, HistoryMoves DEF History
<1>4. ASSUME NEW v \in Workers, worker'[v] = worker[v]
      PROVE  Progress(v)' /\ Counted(v)'
  <2>1. CASE Busy(v)
    <3>1. R(v) \in Requests
      BY <2>1 DEF CallsInv, Holds
    <3>2. QED
      BY <1>1, <1>4, <2>1, <3>1, HeldKeep DEF R
  <2>2. CASE ~Busy(v)
    BY <1>4, <2>2 DEF Progress, Counted, Busy, At
  <2>3. QED
    BY <2>1, <2>2
<1>5. ASSUME NEW r \in Requests, run[r].state = "PENDING", NEW n \in Nat,
             worker' = [worker EXCEPT ![w] =
                 [Idle EXCEPT !.pc = "open", !.run = r, !.token = n]]
      PROVE  Progress(w)' /\ Counted(w)'
  <2>1. /\ worker'[w].pc = "open" /\ worker'[w].run = r
        /\ worker'[w].sent = 0 /\ worker'[w].got = 0
    BY <1>5 DEF Idle, TypeOK
  <2>2. provider'[r].requests = 0
    BY <1>1, <1>5 DEF CallsInv, History
  <2>3. Kind(w)' \in AllKinds
    BY <2>1 DEF TypeOK, RunRecord, Kind, R
  <2>4. QED
    BY <2>1, <2>2, <2>3, CallsAssumption DEF Progress, Counted, Busy, At, R
<1>6. ASSUME NEW v \in Workers
      PROVE  Progress(v)' /\ Counted(v)'
  BY <1>1, <1>4, <1>5 DEF TypeOK
<1>7. QED
  BY <1>2, <1>3, <1>6 DEF CallsInv

LEMMA CallsStopped ==
    ASSUME TypeOK, CallsInv, NEW w \in Workers, Stop(w) \/ Kill(w)
    PROVE  CallsInv'
<1>1. UNCHANGED <<run, provider>>
  BY DEF Stop, Kill
<1>2. \A v \in Workers : \/ worker'[v] = Idle
                         \/ /\ worker'[v].pc = worker[v].pc
                            /\ worker'[v].run = worker[v].run
                            /\ worker'[v].sent = worker[v].sent
                            /\ worker'[v].got = worker[v].got
  BY DEF Stop, Kill, Return, TypeOK, WorkerRecord
<1>3. Holds'
  BY HoldsStep DEF CallsInv, Next
<1>4. ASSUME NEW r \in Requests
      PROVE  History(r)'
  BY <1>1 DEF CallsInv, History
<1>5. ASSUME NEW v \in Workers
      PROVE  Progress(v)' /\ Counted(v)'
  <2>1. Progress(v) /\ Counted(v)
    BY DEF CallsInv
  <2>2. CASE worker'[v] = Idle
    BY <2>2 DEF Progress, Counted, Busy, At, Idle
  <2>3. CASE /\ worker'[v].pc = worker[v].pc /\ worker'[v].run = worker[v].run
             /\ worker'[v].sent = worker[v].sent
             /\ worker'[v].got = worker[v].got
    BY <1>1, <2>1, <2>3 DEF Progress, Counted, Busy, At, Kind, R
  <2>4. QED
    BY <1>2, <2>2, <2>3
<1>6. QED
  BY <1>3, <1>4, <1>5 DEF CallsInv

----------------------------------------------------------------------------
(* Steps of a busy worker. *)

LEMMA CallsWorkerStep ==
    ASSUME TypeOK, TypeOK', CallsInv, NEW w \in Workers, WorkerStep(w)
    PROVE  CallsInv'
<1>0. R(w) \in Requests
  BY WorkerSteps DEF CallsInv, Holds
<1> PICK r \in Requests : r = R(w)
  BY <1>0
<1>1. /\ worker \in Processes /\ Busy(w)
      /\ \A v \in Workers \ {w} : worker'[v] = worker[v]
  BY WorkerSteps DEF TypeOK, Processes
<1>2. /\ run[r].state \notin {"NONE", "PENDING"}
      /\ \A v \in Workers \ {w} : Busy(v) => R(v) # r
  BY <1>1 DEF CallsInv, Holds
<1>3. \A s \in Requests : Moves(run[s], run'[s])
  BY WorkerMoves
<1>4. \A s \in Requests \ {r} : run'[s] = run[s] /\ provider'[s] = provider[s]
  BY WorkerMoves, ProviderSteps
<1>5. Holds'
  BY HoldsStep DEF CallsInv, Next
<1>6. ASSUME NEW v \in Workers \ {w}
      PROVE  Progress(v)' /\ Counted(v)'
  <2>1. CASE Busy(v)
    <3>1. R(v) \in Requests \ {r}
      BY <1>2, <2>1 DEF CallsInv, Holds
    <3>2. QED
      BY <1>1, <1>3, <1>4, <2>1, <3>1, HeldKeep DEF R
  <2>2. CASE ~Busy(v)
    BY <1>1, <2>2 DEF Progress, Counted, Busy, At
  <2>3. QED
    BY <2>1, <2>2
<1>7. ASSUME NEW s \in Requests \ {r}
      PROVE  History(s)'
  BY <1>4, <1>7 DEF CallsInv, History
<1>8. /\ worker[w].sent \in Nat /\ worker[w].got \in Nat
      /\ provider[r].requests \in Nat /\ provider[r].late \in Nat
      /\ run[r].kind \in AllKinds /\ Calls[run[r].kind] \in Nat \ {0} /\ Kind(w) = run[r].kind
      /\ run[r].attempts \in Nat
  <2>1. run[r].kind \in AllKinds /\ run[r].attempts \in Nat
    BY <1>2 DEF TypeOK, RunRecord
  <2>2. QED
    BY <1>1, <1>2, <2>1, CallsAssumption
    DEF TypeOK, Processes, WorkerRecord, ProviderRecord, Kind
<1>9. Progress(w) /\ Counted(w) /\ History(r)
  BY <1>2 DEF CallsInv
<1>10. run'[r].kind = run[r].kind
  BY <1>2, <1>3 DEF Moves, Same
<1>11. worker'[w].run = r => Kind(w)' = Kind(w) /\ R(w)' = r
  BY <1>10 DEF Kind, R
\* It is enough to look at the worker and its run.
<1>12. ASSUME Progress(w)', Counted(w)', History(r)'
       PROVE  CallsInv'
  BY <1>5, <1>6, <1>7, <1>12 DEF CallsInv
<1>13. ASSUME ~Send(w),
              run[r].kind = "TEAM" => provider[r].requests <= run'[r].attempts
       PROVE  /\ History(r)'
              /\ provider'[r].requests = provider[r].requests
  <2>1. /\ provider'[r].requests = provider[r].requests
        /\ provider'[r].late = provider[r].late
    BY <1>2, <1>13, ProviderSteps
  <2>2. QED
    BY <1>2, <1>3, <1>9, <1>13, <2>1, HistoryMoves
<1>14. ASSUME Over(w), provider'[r].requests = provider[r].requests
       PROVE  Progress(w)' /\ Counted(w)'
  <2>1. CASE worker'[w] = Idle
    BY <2>1 DEF Idle, Progress, Counted, Busy, At
  <2>2. CASE Local(w, "fail") \/ Local(w, "nodefail")
    BY <1>1, <1>9, <1>11, <1>14, <2>2
    DEF Local, Progress, Counted, Busy, At
  <2>3. QED
    BY <1>14, <2>1, <2>2 DEF Over
<1>15. ASSUME ~Send(w), UNCHANGED run
       PROVE  History(r)' /\ provider'[r].requests = provider[r].requests
  BY <1>9, <1>13, <1>15 DEF History
<1>16. ASSUME NEW p, NEW q, At(w, q), Local(w, p),
              provider'[r].requests = provider[r].requests,
              <<q, p>> \in {<<"open", "context">>, <<"context", "round">>,
                            <<"round", "reserve">>, <<"save", "recheck">>,
                            <<"recheck", "accept">>, <<"recheck", "publish">>,
                            <<"accept", "publish">>, <<"publish", "commit">>}
       PROVE  Progress(w)' /\ Counted(w)'
  BY <1>1, <1>8, <1>9, <1>11, <1>16
  DEF Local, Progress, Counted, Busy, At
<1>17. CASE Open(w)
  <2>1. ~Send(w) /\ UNCHANGED run /\ At(w, "open")
    BY <1>17 DEF Open, Send, At
  <2>2. Over(w) \/ Local(w, "context")
    BY <1>1, <1>17, AuthorizeLocal, RaiseOver DEF Open
  <2>3. QED
    BY <1>12, <1>14, <1>15, <1>16, <2>1, <2>2
<1>18. CASE Context(w)
  <2>1. ~Send(w) /\ UNCHANGED run /\ At(w, "context")
    BY <1>18 DEF Context, Send, At
  <2>2. Over(w) \/ Local(w, "round")
    BY <1>1, <1>18, GoLocal, ReturnOver DEF Context
  <2>3. QED
    BY <1>12, <1>14, <1>15, <1>16, <2>1, <2>2
<1>19. CASE Round(w)
  <2>1. ~Send(w) /\ UNCHANGED run /\ At(w, "round")
    BY <1>19 DEF Round, Send, At
  <2>2. Over(w) \/ Local(w, "reserve")
    BY <1>1, <1>19, AuthorizeLocal, LeaveOver DEF Round
  <2>3. QED
    BY <1>12, <1>14, <1>15, <1>16, <2>1, <2>2
<1>20. CASE Recheck(w)
  <2>1. ~Send(w) /\ UNCHANGED run /\ At(w, "recheck")
    BY <1>20 DEF Recheck, Send, At
  <2>2. Over(w) \/ Local(w, "accept") \/ Local(w, "publish")
    BY <1>1, <1>20, AuthorizeLocal, LeaveOver, GoLocal, ReturnOver, RaiseOver
    DEF Recheck
  <2>3. QED
    BY <1>12, <1>14, <1>15, <1>16, <2>1, <2>2
<1>21. CASE Publish(w)
  <2>1. ~Send(w) /\ UNCHANGED run /\ At(w, "publish")
    BY <1>21 DEF Publish, Send, At
  <2>2. Over(w) \/ Local(w, "commit")
    BY <1>1, <1>21, AuthorizeLocal, RaiseOver DEF Publish
  <2>3. QED
    BY <1>12, <1>14, <1>15, <1>16, <2>1, <2>2
<1>22. CASE Reserve(w)
  <2>1. ~Send(w) /\ At(w, "reserve")
    BY <1>22 DEF Reserve, Send, At
  <2>2. CASE Over(w) /\ UNCHANGED run
    BY <1>12, <1>14, <1>15, <2>1, <2>2
  <2>3. ASSUME Live(w),
               worker' = [worker EXCEPT ![w] = [worker[w] EXCEPT
                            !.pc = "send", !.sent = worker[w].sent + 1]],
               run' = IF run[r].kind \in MultiStage
                      THEN [run EXCEPT ![r].attempts = worker[w].sent + 1]
                      ELSE run
        PROVE  CallsInv'
    <3>1. /\ worker'[w].pc = "send" /\ worker'[w].run = r
          /\ worker'[w].sent = worker[w].sent + 1
          /\ worker'[w].got = worker[w].got
      BY <1>1, <2>3 DEF Processes, WorkerRecord, R
    <3>2. run[r].kind = "TEAM" => run'[r].attempts = worker[w].sent + 1
      BY <2>3 DEF TypeOK, RunRecord
    <3>3. provider[r].late = 0
      BY <1>8, <1>9, <2>3 DEF History, Live
    <3>4. provider[r].requests <= worker[w].sent
      BY <1>1, <1>9 DEF Counted
    <3>5. History(r)' /\ provider'[r].requests = provider[r].requests
      BY <1>8, <1>13, <2>1, <3>2, <3>4
    <3>6. provider'[r].late = 0
      BY <2>1, <3>3, ProviderSteps
    <3>7. Progress(w)'
      BY <1>8, <1>9, <1>11, <2>1, <3>1 DEF Progress, At
    <3>8. Counted(w)'
      BY <1>8, <1>11, <3>1, <3>2, <3>4, <3>5, <3>6 DEF Counted, Busy, At
    <3>9. QED
      BY <1>12, <3>5, <3>7, <3>8
  <2>4. Kind(w) = run[r].kind
    BY <1>8
  <2>5. QED
    BY <1>1, <1>22, <2>2, <2>3, <2>4, LeaveOver DEF Reserve, CallsReserved
<1>23. CASE Send(w)
  <2>1. At(w, "send") /\ UNCHANGED run /\ Local(w, "wait")
    BY <1>1, <1>23, GoLocal DEF Send
  <2>2. /\ provider'[r].requests = provider[r].requests + 1
        /\ provider'[r].late = provider[r].late + Overdue(w)
    BY <1>23 DEF Send, TypeOK, ProviderRecord
  <2>3. /\ provider[r].requests < worker[w].sent /\ provider[r].late = 0
        /\ run[r].kind = "TEAM" => provider[r].requests < run[r].attempts
    BY <1>8, <1>9, <2>1 DEF Counted
  <2>4. Progress(w)'
    BY <1>1, <1>8, <1>9, <1>11, <2>1 DEF Local, Progress, At
  <2>5. Counted(w)'
    BY <1>1, <1>8, <1>11, <2>1, <2>2, <2>3 DEF Local, Counted, Busy, At
  <2>6. provider'[r].requests <= Calls[run[r].kind]
    BY <1>1, <1>8, <1>9, <2>2, <2>3 DEF Progress, Busy
  <2>7. provider'[r].late \in {0, 1}
        /\ (provider'[r].late > 0 => run[r].state # "RUNNING" \/ run[r].lapsed)
    BY <2>2, <2>3 DEF Overdue
  <2>8. History(r)'
    BY <1>2, <1>8, <2>1, <2>2, <2>3, <2>6, <2>7 DEF History
  <2>9. QED
    BY <1>12, <2>4, <2>5, <2>8
<1>24. CASE Answer(w)
  <2>1. ~Send(w) /\ UNCHANGED run /\ At(w, "wait")
    BY <1>24 DEF Answer, Send, At
  <2>2. CASE worker' = [worker EXCEPT ![w] = [worker[w] EXCEPT
                          !.pc = "save", !.got = worker[w].got + 1]]
    <3>1. /\ worker'[w].pc = "save" /\ worker'[w].run = r
          /\ worker'[w].sent = worker[w].sent
          /\ worker'[w].got = worker[w].got + 1
      BY <1>1, <2>2 DEF Processes, WorkerRecord, R
    <3>2. Progress(w)' /\ Counted(w)'
      BY <1>1, <1>8, <1>9, <1>11, <1>15, <2>1, <3>1
      DEF Progress, Counted, Busy, At
    <3>3. QED
      BY <1>12, <1>15, <2>1, <3>2
  <2>3. CASE Over(w)
    BY <1>12, <1>14, <1>15, <2>1, <2>3
  <2>4. QED
    BY <1>1, <1>24, <2>2, <2>3, RaiseOver DEF Answer
<1>25. ASSUME NEW m, run' = [run EXCEPT ![r].usage = m], ~Send(w)
       PROVE  History(r)' /\ provider'[r].requests = provider[r].requests
  <2>1. run'[r].attempts = run[r].attempts
    BY <1>25 DEF TypeOK, RunRecord
  <2>2. QED
    BY <1>9, <1>13, <1>25, <2>1 DEF History
<1>26. CASE SaveUsage(w)
  <2>1. ~Send(w) /\ At(w, "save")
    BY <1>26 DEF SaveUsage, Send, At
  <2>2. History(r)' /\ provider'[r].requests = provider[r].requests
    BY <1>15, <1>25, <1>26, <2>1 DEF SaveUsage
  <2>3. Local(w, "recheck")
    BY <1>1, <1>26, GoLocal DEF SaveUsage
  <2>4. QED
    BY <1>12, <1>16, <2>1, <2>2, <2>3
<1>27. CASE Accept(w)
  <2>1. ~Send(w) /\ At(w, "accept")
    BY <1>27 DEF Accept, Send, At
  <2>2. History(r)' /\ provider'[r].requests = provider[r].requests
    BY <1>15, <1>25, <1>27, <2>1 DEF Accept
  <2>3. CASE Local(w, "round") /\ worker[w].got # Calls[Kind(w)]
    BY <1>1, <1>8, <1>9, <1>11, <1>12, <2>1, <2>2, <2>3
    DEF Local, Progress, Counted, Busy, At
  <2>4. CASE Over(w) \/ Local(w, "publish")
    BY <1>12, <1>14, <1>16, <2>1, <2>2, <2>4
  <2>5. CASE worker' = [worker EXCEPT ![w] = [worker[w] EXCEPT
                          !.pc = "fail", !.outcome = "CANCELLED"]]
    <3>1. Local(w, "fail")
      BY <1>1, <2>5 DEF Processes, WorkerRecord, Local, R
    <3>2. QED
      BY <2>4, <3>1 DEF Over
  <2>6. QED
    BY <1>1, <1>27, <2>3, <2>4, <2>5, GoLocal, LeaveOver DEF Accept
<1>28. CASE Commit(w)
  <2>1. ~Send(w) /\ At(w, "commit") /\ Over(w)
    BY <1>1, <1>28, ReturnOver DEF Commit, Send, At
  <2>2. run'[r].attempts = run[r].attempts
    BY <1>28 DEF Commit, TypeOK, RunRecord
  <2>3. History(r)' /\ provider'[r].requests = provider[r].requests
    BY <1>9, <1>13, <2>1, <2>2 DEF History
  <2>4. QED
    BY <1>12, <1>14, <2>1, <2>3
<1>29. CASE Fail(w)
  <2>1. ~Send(w) /\ At(w, "fail") /\ Over(w)
    BY <1>1, <1>29, ReturnOver DEF Fail, Send, At
  <2>2. run[r].kind = "TEAM" =>
          run'[r].attempts \in {run[r].attempts, worker[w].sent}
    BY <1>8, <1>29 DEF Fail, TypeOK, RunRecord
  <2>3. run[r].kind = "TEAM" => provider[r].requests <= run'[r].attempts
    BY <1>1, <1>9, <2>2 DEF History, Counted
  <2>4. QED
    BY <1>12, <1>13, <1>14, <2>1, <2>3
<1>30. CASE NodeFail(w)
  <2>1. ~Send(w) /\ At(w, "nodefail") /\ Over(w)
    BY <1>1, <1>30, ReturnOver DEF NodeFail, Send, At
  <2> DEFINE counted == [run[r] EXCEPT !.usage = worker[w].got,
                                       !.attempts = worker[w].sent]
  <2>2. counted.attempts = worker[w].sent
        /\ [counted EXCEPT !.state = worker[w].outcome].attempts = worker[w].sent
    BY <1>8 DEF TypeOK, RunRecord
  <2>3. \/ run'[r] = counted
        \/ run'[r] = [counted EXCEPT !.state = worker[w].outcome]
        \/ run'[r] = run[r]
    BY <1>8, <1>30 DEF NodeFail, TypeOK
  <2>4. run'[r].attempts \in {run[r].attempts, worker[w].sent}
    BY <2>2, <2>3
  <2>5. run[r].kind = "TEAM" => provider[r].requests <= run'[r].attempts
    BY <1>1, <1>9, <2>4 DEF History, Counted
  <2>6. QED
    BY <1>12, <1>13, <1>14, <2>1, <2>5
<1>31. QED
  BY <1>17, <1>18, <1>19, <1>20, <1>21, <1>22, <1>23, <1>24, <1>26, <1>27,
     <1>28, <1>29, <1>30 DEF WorkerStep

----------------------------------------------------------------------------
LEMMA CallsInvariant == Spec => []CallsInv
<1>1. TypeOK /\ TypeOK' /\ CallsInv /\ [Next]_vars => CallsInv'
  BY CallsOutside, CallsClaim, CallsWorkerStep, CallsStopped DEF Next, Outside
<1>2. QED
  BY <1>1, InitCalls, TypeCorrect, PTL DEF Spec

\* The provider never sees more requests of a run than it reserved, whatever
\* becomes of its workers and its lease (docs: no automatic replay).
THEOREM ReservationKept == Spec => []RequestsWithinReservation
<1>1. CallsInv => RequestsWithinReservation
  BY DEF CallsInv, History, RequestsWithinReservation
<1>2. QED
  BY <1>1, CallsInvariant, PTL

\* At most one request reaches the provider after a run has ended or lost its
\* lease.
THEOREM OneLateRequest == Spec => []OneRequestAfterTheEnd
<1>1. CallsInv => OneRequestAfterTheEnd
  BY DEF CallsInv, History, OneRequestAfterTheEnd
<1>2. QED
  BY <1>1, CallsInvariant, PTL

\* An attempt of a team run is in its usage before the provider sees it.
THEOREM AttemptsFirst == Spec => []AttemptsRecordedFirst
<1>1. CallsInv => AttemptsRecordedFirst
  BY DEF CallsInv, History, AttemptsRecordedFirst
<1>2. QED
  BY <1>1, CallsInvariant, PTL

\* The invariants of the queue, together (RunsAreSound).
THEOREM RunsStaySound == Spec => []RunsAreSound
<1>1. TypeOK /\ OneActiveRunPerOrg /\ ActiveRunsUseCurrentConfiguration
        /\ OneRequestAfterTheEnd /\ AttemptsRecordedFirst => RunsAreSound
  BY DEF RunsAreSound
<1>2. QED
  BY <1>1, TypeCorrect, SlotExclusive, SettingsCurrent, OneLateRequest, AttemptsFirst, PTL

----------------------------------------------------------------------------
(* The result of a run: when it may appear. *)

\* Between the two halves of publish the worker holds the organization lock
\* and what it checked still holds.
CheckHolds(w) ==
    /\ lock[run[R(w)].org] = w
    /\ ~Changed(R(w))
    /\ ~Revoked(R(w))
PublicationInv == \A w \in Workers : At(w, "commit") => CheckHolds(w)

----------------------------------------------------------------------------
(* What the organization lock protects. *)

LEMMA LockProtects ==
    ASSUME TypeOK, [Next]_vars, NEW o \in Orgs, lock[o] \in Workers,
           NEW u \in Users, role[o][u] # "NONE"
    PROVE  /\ config'[o] = config[o]
           /\ role'[o][u] = role[o][u]
           /\ active[u] => active'[u]
<1>0. lock[o] # NoWorker
  BY SentinelAssumption
<1>1. CASE \E v \in Users, p \in Orgs, b \in BOOLEAN, n \in Limits :
             SaveConfiguration(v, p, b, n)
  <2> PICK v \in Users, p \in Orgs, b \in BOOLEAN, n \in Limits :
        SaveConfiguration(v, p, b, n)
    BY <1>1
  <2>1. p # o
    BY <1>0 DEF SaveConfiguration
  <2>2. QED
    BY <2>1 DEF SaveConfiguration, TypeOK
<1>2. CASE \E v \in Users, p \in Orgs, new \in Roles : ChangeRole(v, p, new)
  <2> PICK v \in Users, p \in Orgs, new \in Roles : ChangeRole(v, p, new)
    BY <1>2
  <2>1. p # o
    BY <1>0 DEF ChangeRole
  <2>2. QED
    BY <2>1 DEF ChangeRole, TypeOK
<1>3. CASE \E v \in Users : Deactivate(v) \/ Activate(v)
  <2> PICK v \in Users : Deactivate(v) \/ Activate(v)
    BY <1>3
  <2>1. Deactivate(v) => v # u
    BY <1>0 DEF Deactivate
  <2>2. QED
    BY <2>1 DEF Deactivate, Activate, TypeOK
<1>4. CASE UNCHANGED tenancy
  BY <1>4 DEF tenancy
<1>5. QED
  BY <1>1, <1>2, <1>3, <1>4, ClaimMoves, WorkerMoves
  DEF Next, vars, Enqueue, CancelRun, ReadRuns, Lapse, Midnight, Stop, Kill,
      tenancy

\* Only publish reaches the commit, after a check that passed.
LEMMA EntersCommit ==
    ASSUME TypeOK, [Next]_vars, NEW w \in Workers, worker'[w].pc = "commit"
    PROVE  \/ At(w, "commit") /\ worker'[w].run = R(w)
           \/ /\ Publish(w) /\ worker'[w].run = R(w)
              /\ ~Changed(R(w)) /\ ~Revoked(R(w))
<1>0. worker \in Processes
  BY DEF TypeOK, Processes
<1>1. ASSUME NEW v \in Workers, v # w,
             WorkerStep(v) \/ Claim(v) \/ Stop(v) \/ Kill(v)
      PROVE  worker'[w] = worker[w]
  BY <1>0, <1>1, WorkerSteps, ClaimMoves DEF Processes, Stop, Kill, Return
<1>2. CASE Claim(w) \/ Stop(w) \/ Kill(w)
  <2>1. CASE Claim(w)
    <3>1. CASE UNCHANGED worker
      BY <3>1 DEF At, R
    <3>2. ASSUME worker' # worker
          PROVE  FALSE
      <4>1. PICK r \in Requests, n \in Nat : worker' = [worker EXCEPT ![w] =
              [Idle EXCEPT !.pc = "open", !.run = r, !.token = n]]
        BY <2>1, <3>2, ClaimMoves
      <4>2. worker'[w] = [Idle EXCEPT !.pc = "open", !.run = r, !.token = n]
        BY <1>0, <4>1 DEF Processes
      <4>3. QED
        BY <4>2 DEF Idle
    <3>3. QED
      BY <3>1, <3>2
  <2>2. CASE Stop(w)
    BY <1>0, <2>2 DEF Processes, WorkerRecord, Stop, At, R
  <2>3. CASE Kill(w)
    BY <1>0, <2>3 DEF Processes, Kill, Return, Idle
  <2>4. QED
    BY <1>2, <2>1, <2>2, <2>3
<1>3. CASE WorkerStep(w)
  <2>1. worker'[w].run = R(w)
    BY <1>3, WorkerSteps DEF Idle
  <2>2. ASSUME NEW p, Go(w, p) PROVE p = "commit"
    BY <1>0, <2>2 DEF Go, Processes, WorkerRecord
  <2>3. ASSUME NEW out, Raise(w, out) PROVE FALSE
    BY <1>0, <2>3, HandlerCases DEF Raise, Processes, WorkerRecord
  <2>4. ~Return(w)
    BY <1>0 DEF Return, Idle, Processes
  <2>5. ~Leave(w)
    BY <2>3, <2>4 DEF Leave
  <2>6. ASSUME NEW p, Authorize(w, p)
        PROVE  p = "commit" /\ ~Changed(R(w)) /\ ~Revoked(R(w))
    BY <2>2, <2>3, <2>6 DEF Authorize
  <2>7. ~Reserve(w)
    BY <1>0, <2>5 DEF Reserve, Processes, WorkerRecord
  <2>8. ~Answer(w)
    <3>1. \A n : [worker[w] EXCEPT !.pc = "save", !.got = n].pc = "save"
      BY <1>0 DEF Processes, WorkerRecord
    <3>2. QED
      BY <1>0, <2>3, <3>1 DEF Answer, Processes
  <2>9. ~Accept(w)
    <3>1. \A x : [worker[w] EXCEPT !.pc = "fail", !.outcome = x].pc = "fail"
      BY <1>0 DEF Processes, WorkerRecord
    <3>2. QED
      BY <1>0, <2>2, <2>5, <3>1 DEF Accept, Processes
  <2>10. ~Open(w) /\ ~Context(w) /\ ~Round(w) /\ ~Send(w) /\ ~SaveUsage(w)
         /\ ~Recheck(w) /\ ~Commit(w) /\ ~Fail(w) /\ ~NodeFail(w)
    BY <2>2, <2>3, <2>4, <2>5, <2>6
    DEF Open, Context, Round, Send, SaveUsage, Recheck, Commit, Fail, NodeFail
  <2>11. Publish(w)
    BY <1>3, <2>7, <2>8, <2>9, <2>10 DEF WorkerStep
  <2>12. QED
    BY <2>1, <2>3, <2>6, <2>11 DEF Publish
<1>4. CASE Outside
  BY <1>4, OutsideMoves DEF At, R
<1>5. CASE \E v \in Workers : Claim(v) \/ WorkerStep(v) \/ Stop(v) \/ Kill(v)
  BY <1>1, <1>2, <1>3, <1>5 DEF At, R
<1>6. QED
  BY <1>4, <1>5 DEF Next, Outside

\* Nobody takes the lock from a worker that is about to commit.
LEMMA LockStays ==
    ASSUME TypeOK, Holds, PublicationInv, [Next]_vars, NEW w \in Workers,
           At(w, "commit"), worker'[w].pc = "commit"
    PROVE  lock'[run[R(w)].org] = w
<1> PICK o \in Orgs : o = run[R(w)].org
  BY DEF Holds, Busy, At, TypeOK, RunRecord
<1>1. lock[o] = w
  BY DEF PublicationInv, CheckHolds
<1>2. CASE UNCHANGED lock
  BY <1>1, <1>2
<1>3. ASSUME NEW v \in Workers, Publish(v)
      PROVE  lock'[o] = w
  <2>1. run[R(v)].org # o \/ UNCHANGED lock
    BY <1>1, <1>3, SentinelAssumption DEF Publish
  <2>2. QED
    BY <1>1, <1>3, <2>1 DEF Publish, Locked, TypeOK
<1>4. ASSUME NEW v \in Workers, Commit(v)
      PROVE  lock'[o] = w
  <2>1. v # w
    BY <1>4 DEF Commit, Return, Idle, TypeOK
  <2>2. lock[run[R(v)].org] = v
    BY <1>4 DEF Commit, PublicationInv, CheckHolds
  <2>3. QED
    BY <1>1, <1>4, <2>1, <2>2 DEF Commit, TypeOK
<1>5. ASSUME NEW v \in Workers, Kill(v)
      PROVE  lock'[o] = w
  <2>1. v # w
    BY <1>5 DEF Kill, Return, Idle, TypeOK
  <2>2. QED
    BY <1>1, <1>5, <2>1 DEF Kill
<1>6. CASE Outside
  BY <1>2, <1>6, OutsideMoves
<1>7. ASSUME NEW v \in Workers,
             Claim(v) \/ Stop(v) \/ (WorkerStep(v) /\ ~Publish(v) /\ ~Commit(v))
      PROVE  UNCHANGED lock
  BY <1>7, ClaimMoves
  DEF WorkerStep, Stop, Open, Context, Round, Reserve, Send, Answer, SaveUsage,
      Recheck, Accept, Fail, NodeFail
<1>8. QED
  BY <1>2, <1>3, <1>4, <1>5, <1>6, <1>7 DEF Next, Outside

LEMMA PublicationStep ==
    ASSUME TypeOK, Holds, PublicationInv, [Next]_vars
    PROVE  PublicationInv'
<1> SUFFICES ASSUME NEW w \in Workers, worker'[w].pc = "commit"
             PROVE  CheckHolds(w)'
  BY DEF PublicationInv, At
<1> PICK r : r = R(w)
  OBVIOUS
<1>1. worker'[w].run = r /\ Busy(w)
  BY EntersCommit DEF At, Busy, Publish
<1>2. r \in Requests /\ run[r].state # "NONE" /\ run[r] \in RunRecord
  BY <1>1 DEF Holds, TypeOK
<1>3. Same(run[r], run'[r])
  BY <1>2, RowsMove DEF Admitted, Moves
<1> PICK o \in Orgs, u \in Users : o = run[r].org /\ u = run[r].user
  BY <1>2 DEF RunRecord
<1>4. ~Changed(r) /\ ~Revoked(r)
  BY EntersCommit DEF PublicationInv, CheckHolds
<1>5. /\ lock'[o] = w
      /\ config'[o] = config[o]
      /\ role'[o][u] = role[o][u]
      /\ active'[u]
  <2>0. active[u] /\ role[o][u] # "NONE"
    BY <1>4 DEF Revoked, Permitted, RolesFor, RunRoles
  <2>1. CASE At(w, "commit")
    <3>1. lock[o] = w /\ lock'[o] = w
      BY <2>1, LockStays DEF PublicationInv, CheckHolds
    <3>2. QED
      BY <2>0, <3>1, LockProtects
  <2>2. CASE Publish(w)
    BY <1>2, <2>0, <2>2 DEF Publish, Locked, TypeOK, tenancy
  <2>3. QED
    BY <2>1, <2>2, EntersCommit
<1>6. ~Changed(r)'
  BY <1>3, <1>4, <1>5 DEF Changed, Same
<1>7. ~Revoked(r)'
  BY <1>3, <1>4, <1>5 DEF Revoked, Permitted, Same
<1>8. QED
  BY <1>1, <1>3, <1>5, <1>6, <1>7 DEF CheckHolds, R, Same, Changed, Revoked,
     Permitted

LEMMA HoldsInvariant == Spec => [](Holds /\ PublicationInv)
<1>1. Init => Holds /\ PublicationInv
  BY DEF Init, Holds, PublicationInv, Busy, At, Idle
<1>2. TypeOK /\ Holds /\ PublicationInv /\ [Next]_vars
        => (Holds /\ PublicationInv)'
  BY HoldsStep, PublicationStep
<1>3. QED
  BY <1>1, <1>2, TypeCorrect, PTL DEF Spec

----------------------------------------------------------------------------
(* Who writes a result. *)

LEMMA OutsideOutcomes ==
    ASSUME TypeOK, Outside, NEW r \in Requests, run'[r].state = "SUCCEEDED"
    PROVE  run[r].state = "SUCCEEDED"
<1>0. run \in Rows
  BY DEF TypeOK, Rows
<1>1. ASSUME NEW u \in Users, NEW o \in Orgs, NEW s \in Requests,
             NEW k \in Kinds, Enqueue(u, o, s, k)
      PROVE  run[r].state = "SUCCEEDED"
  <2>1. s # r
    BY <1>0, <1>1, EnqueueMoves DEF Admitted
  <2>2. run'[r] = Expired(run)[r]
    BY <1>0, <1>1, <2>1, ExpiredRows DEF Enqueue, Rows
  <2>3. QED
    BY <1>0, <2>2, ExpiredMoves
<1>2. CASE run' = Expired(run)
  BY <1>0, <1>2, ExpiredMoves
<1>3. ASSUME NEW S, run' = Cancelled(S)
      PROVE  run[r].state = "SUCCEEDED"
  <2>1. run'[r] = run[r] \/ run'[r] = [run[r] EXCEPT !.state = "CANCELLED"]
    BY <1>0, <1>3, CancelledRows DEF Rows
  <2>2. QED
    BY <1>0, <2>1 DEF Rows, RunRecord
<1>4. CASE (\E s \in Requests : Lapse(s)) \/ Midnight
  BY <1>0, <1>4 DEF Lapse, Midnight, Rows, RunRecord
<1>5. CASE UNCHANGED run
  BY <1>5
<1>6. QED
  BY <1>1, <1>2, <1>3, <1>4, <1>5
  DEF Outside, vars, CancelRun, ReadRuns, SaveConfiguration, ChangeRole,
      Deactivate, Activate

LEMMA WorkerOutcomes ==
    ASSUME TypeOK, NEW w \in Workers, WorkerStep(w), ~Commit(w),
           NEW r \in Requests, run'[r].state = "SUCCEEDED"
    PROVE  run[r].state = "SUCCEEDED"
<1>0. run[r] \in RunRecord /\ run \in Rows /\ worker[w] \in WorkerRecord
  BY DEF TypeOK, Rows
<1>1. ASSUME NEW row, run' = [run EXCEPT ![R(w)] = row],
             row.state \in {run[R(w)].state, "FAILED", "CANCELLED"}
      PROVE  run[r].state = "SUCCEEDED"
  BY <1>0, <1>1 DEF Rows
<1>2. CASE UNCHANGED run
  BY <1>2
<1>3. ASSUME R(w) \in Requests
      PROVE  /\ run[R(w)] \in RunRecord
             /\ \A n, m :
                  /\ [run[R(w)] EXCEPT !.usage = n].state = run[R(w)].state
                  /\ [run[R(w)] EXCEPT !.attempts = n].state = run[R(w)].state
                  /\ [run[R(w)] EXCEPT !.usage = n, !.attempts = m].state
                       = run[R(w)].state
  BY <1>0, <1>3 DEF Rows, RunRecord
<1>4. R(w) \notin Requests => \A row : [run EXCEPT ![R(w)] = row] = run
  BY <1>0 DEF Rows
<1>5. CASE Reserve(w) \/ SaveUsage(w) \/ Accept(w)
  BY <1>1, <1>2, <1>3, <1>4, <1>5 DEF Reserve, SaveUsage, Accept
<1>6. worker[w].outcome \in {"FAILED", "CANCELLED"}
  BY <1>0 DEF WorkerRecord
<1>7. ASSUME R(w) \in Requests
      PROVE  \A n, m :
               LET x == worker[w].outcome IN
               /\ [run[R(w)] EXCEPT !.state = x].state = x
               /\ [[run[R(w)] EXCEPT !.state = x]
                      EXCEPT !.usage = n, !.attempts = m].state = x
               /\ [[run[R(w)] EXCEPT !.usage = n, !.attempts = m]
                      EXCEPT !.state = x].state = x
  BY <1>3, <1>7 DEF RunRecord
<1>8. CASE Fail(w)
  BY <1>1, <1>2, <1>4, <1>6, <1>7, <1>8 DEF Fail
<1>9. CASE NodeFail(w)
  <2> DEFINE counted == [run[R(w)] EXCEPT !.usage = worker[w].got,
                                          !.attempts = worker[w].sent]
  <2>1. CASE R(w) \in Requests
    <3>1. run' \in {run, [run EXCEPT ![R(w)] = counted],
                   [run EXCEPT ![R(w)] =
                      [counted EXCEPT !.state = worker[w].outcome]]}
      BY <1>9 DEF NodeFail
    <3>2. /\ counted.state = run[R(w)].state
          /\ [counted EXCEPT !.state = worker[w].outcome].state
               = worker[w].outcome
      BY <1>3, <1>7, <2>1
    <3>3. QED
      BY <1>1, <1>2, <1>6, <3>1, <3>2
  <2>2. CASE R(w) \notin Requests
    BY <1>2, <1>4, <1>9, <2>2 DEF NodeFail
  <2>3. QED
    BY <2>1, <2>2
<1>10. QED
  BY <1>2, <1>5, <1>8, <1>9
  DEF WorkerStep, Open, Context, Round, Send, Answer, Recheck, Publish

\* A result is written by the commit of a worker whose lease holds.
LEMMA OnlyCommitSucceeds ==
    ASSUME TypeOK, [Next]_vars, NEW r \in Requests,
           run[r].state # "SUCCEEDED", run'[r].state = "SUCCEEDED"
    PROVE  \E w \in Workers : Commit(w) /\ R(w) = r /\ Live(w)
<1>0. run \in Rows
  BY DEF TypeOK, Rows
<1>1. ASSUME NEW w \in Workers, Claim(w)
      PROVE  FALSE
  <2>1. Moves(run[r], run'[r])
    BY <1>1, ClaimMoves
  <2>2. run[r].state = "RUNNING"
    BY <2>1 DEF Moves, Forward
  <2>3. Expired(run)[r].state \in {"RUNNING", "FAILED"}
    BY <1>0, <2>2, ExpiredMoves
  <2>4. run'[r] = Expired(run)[r]
    BY <1>0, <1>1, <2>3, ExpiredRows DEF Claim, Rows
  <2>5. QED
    BY <2>3, <2>4
<1>2. ~Outside
  BY OutsideOutcomes
<1>3. ~(\E w \in Workers : Stop(w) \/ Kill(w))
  BY DEF Stop, Kill
<1>4. PICK w \in Workers : WorkerStep(w)
  BY <1>1, <1>2, <1>3 DEF Next, Outside
<1>5. Commit(w)
  BY <1>4, WorkerOutcomes
<1>6. R(w) = r /\ Live(w)
  BY <1>0, <1>5, <1>4, WorkerMoves DEF Commit
<1>7. QED
  BY <1>5, <1>6

\* A result appears only under the settings of the run, on a lease that holds
\* and for a requester who still may run research (publish).
THEOREM PublicationGuarded == Spec => PublishedOnlyWhilePermitted
<1>1. TypeOK /\ Holds /\ PublicationInv /\ [Next]_vars =>
        [\A r \in Requests :
           run[r].state # "SUCCEEDED" /\ run'[r].state = "SUCCEEDED" =>
             run[r].state = "RUNNING" /\ ~run[r].lapsed
             /\ ~Changed(r) /\ ~Revoked(r)]_vars
  <2> SUFFICES ASSUME TypeOK, Holds, PublicationInv, [Next]_vars, NEW r \in Requests,
                      run[r].state # "SUCCEEDED", run'[r].state = "SUCCEEDED"
               PROVE  /\ run[r].state = "RUNNING" /\ ~run[r].lapsed
                      /\ ~Changed(r) /\ ~Revoked(r)
    OBVIOUS
  <2>1. PICK w \in Workers : Commit(w) /\ R(w) = r /\ Live(w)
    BY OnlyCommitSucceeds
  <2>2. At(w, "commit")
    BY <2>1 DEF Commit
  <2>3. QED
    BY <2>1, <2>2 DEF Live, PublicationInv, CheckHolds
<1>2. QED
  BY <1>1, TypeCorrect, HoldsInvariant, PTL
  DEF Spec, PublishedOnlyWhilePermitted

----------------------------------------------------------------------------
(* AgentRuns implements RunSlots: a step of the queue ends some runs,      *)
(* admits one, publishes one, or leaves the slots alone.                   *)

\* The runs a step ends without a result.
Ending == {r \in Requests : IsActive(r) /\ run'[r].state \in Ended}

\* The slots, outcomes and used keys of the mapping, row by row.
SlotOf(o) == {r \in RunsOf(o) : IsActive(r)}
OutcomeOf(r) == IF run[r].state \in Ended THEN run[r].state ELSE "NONE"
UsedKeys == {r \in Requests : run[r].state # "NONE"}

LEMMA SlotSteps ==
    ASSUME TypeOK, TypeOK', NEW r \in Requests, Moves(run[r], run'[r])
    PROVE  /\ \A o \in Orgs : r \in SlotOf(o)' <=> r \in SlotOf(o) \ Ending
           /\ r \in UsedKeys' <=> r \in UsedKeys
           /\ r \notin Ending => OutcomeOf(r)' = OutcomeOf(r)
<1>1. run[r] \in RunRecord /\ run'[r] \in RunRecord
  BY DEF TypeOK
<1>2. Forward(run[r], run'[r]) /\ run'[r].org = run[r].org
  BY DEF Moves, Same
<1>3. QED
  BY <1>1, <1>2
  DEF SlotOf, UsedKeys, OutcomeOf, RunsOf, IsActive, Ending, Forward, RunRecord

LEMMA EndingOpen == ASSUME TypeOK PROVE Ending \in SUBSET Slots!Open
<1> SUFFICES ASSUME NEW r \in Ending PROVE r \in Slots!Open
  OBVIOUS
<1>1. run[r].org \in Orgs /\ r \in SlotOf(run[r].org)
  BY DEF Ending, TypeOK, RunRecord, SlotOf, RunsOf, IsActive
<1>2. QED
  BY <1>1 DEF Slots!Open, SlotOf

LEMMA EndingCloses ==
    ASSUME TypeOK, TypeOK',
           \A r \in Requests :
              \/ Moves(run[r], run'[r])
              \/ r \notin Ending /\ OutcomeOf(r)' = OutcomeOf(r),
           \A r \in Requests : run'[r].state = "SUCCEEDED"
                                 => run[r].state = "SUCCEEDED"
    PROVE  Slots!Closes(Ending)
<1>1. \A r \in Requests : OutcomeOf(r)' \in Slots!Outcomes
  BY DEF OutcomeOf, Slots!Outcomes
<1>2. \A r \in Ending : OutcomeOf(r)' \in {"FAILED", "CANCELLED"}
  BY DEF Ending, OutcomeOf, IsActive
<1>3. \A r \in Requests \ Ending : OutcomeOf(r)' = OutcomeOf(r)
  BY SlotSteps
<1>4. Ending \subseteq Requests
  BY DEF Ending
<1>5. QED
  BY <1>1, <1>2, <1>3, <1>4 DEF Slots!Closes, OutcomeOf

\* Steps that neither admit nor publish.
LEMMA EndStep ==
    ASSUME TypeOK, TypeOK',
           \A r \in Requests : /\ Moves(run[r], run'[r])
                               /\ run'[r].state = "SUCCEEDED"
                                    => run[r].state = "SUCCEEDED"
    PROVE  Slots!Next
<1>1. Slots!Closes(Ending)
  BY EndingCloses
<1>2. \A o \in Orgs : SlotOf(o)' = SlotOf(o) \ Ending
  <2> TAKE o \in Orgs
  <2>1. \A r : r \in SlotOf(o) => r \in Requests
    BY DEF SlotOf, RunsOf
  <2>2. \A r : r \in SlotOf(o)' => r \in Requests
    BY DEF SlotOf, RunsOf
  <2>3. QED
    BY <2>1, <2>2, SlotSteps
<1>3. UsedKeys' = UsedKeys
  BY SlotSteps DEF UsedKeys
<1> PICK E \in SUBSET Slots!Open : E = Ending
  BY EndingOpen
<1>4. Slots!End(E)
  BY <1>1, <1>2, <1>3 DEF Slots!End, Slots!Closes, Slots!Without, SlotOf, UsedKeys
<1>5. QED
  BY <1>4 DEF Slots!Next

LEMMA AdmitStep ==
    ASSUME TypeOK, TypeOK', NEW r \in Requests, Admitted(r),
           \A s \in Requests \ {r} : Moves(run[s], run'[s]),
           \A s \in Requests : run'[s].state = "SUCCEEDED"
                                 => run[s].state = "SUCCEEDED"
    PROVE  Slots!Next
<1> PICK o \in Orgs : o = run'[r].org
  BY DEF TypeOK, RunRecord
<1>1. r \notin Ending /\ OutcomeOf(r)' = OutcomeOf(r) /\ r \notin UsedKeys
  BY DEF Admitted, Ending, OutcomeOf, UsedKeys, IsActive
<1>2. Slots!Closes(Ending)
  BY <1>1, EndingCloses
<1>3. \A p \in Orgs : r \notin SlotOf(p) /\ (r \in SlotOf(p)' <=> p = o)
  BY DEF Admitted, SlotOf, RunsOf, IsActive
<1>4. \A p \in Orgs : \A s : s \in SlotOf(p) \/ s \in SlotOf(p)' => s \in Requests
  BY DEF SlotOf, RunsOf
<1>5. SlotOf(o) \ Ending = {}
  <2> SUFFICES ASSUME NEW s \in SlotOf(o) \ Ending PROVE FALSE
    OBVIOUS
  <2>1. s \in Requests \ {r}
    BY <1>3, <1>4
  <2>2. s \in SlotOf(o)'
    BY <2>1, SlotSteps
  <2>3. QED
    BY <2>1, <2>2 DEF Admitted, SlotOf, RunsOf, IsActive
<1>6. \A p \in Orgs \ {o} : SlotOf(p)' = SlotOf(p) \ Ending
  BY <1>3, <1>4, SlotSteps
<1>7. SlotOf(o)' = {r}
  BY <1>3, <1>4, <1>5, SlotSteps
<1>8. UsedKeys' = UsedKeys \cup {r}
  <2>1. r \in UsedKeys'
    BY DEF Admitted, UsedKeys
  <2>2. \A s : s \in UsedKeys \/ s \in UsedKeys' => s \in Requests
    BY DEF UsedKeys
  <2>3. \A s \in Requests \ {r} : s \in UsedKeys' <=> s \in UsedKeys
    BY SlotSteps
  <2>4. QED
    BY <2>1, <2>2, <2>3
<1>9. Slots!Without(Ending)[o] = {}
  BY <1>5 DEF Slots!Without, SlotOf
<1>10. [p \in Orgs |-> SlotOf(p)'] = [Slots!Without(Ending) EXCEPT ![o] = {r}]
  BY <1>6, <1>7 DEF Slots!Without, SlotOf
<1> PICK E \in SUBSET Slots!Open : E = Ending
  BY EndingOpen
<1>11. Slots!Admit(E, o, r)
  BY <1>1, <1>2, <1>8, <1>9, <1>10
  DEF Slots!Admit, Slots!Closes, Slots!Without, SlotOf, UsedKeys
<1>12. QED
  BY <1>11 DEF Slots!Next

LEMMA PublishStep ==
    ASSUME TypeOK, TypeOK', NEW w \in Workers, Commit(w), Live(w),
           R(w) \in Requests
    PROVE  Slots!Next
<1> PICK r \in Requests : r = R(w)
  OBVIOUS
<1> PICK o \in Orgs : o = run[r].org
  BY DEF TypeOK, RunRecord
<1>1. \A s \in Requests \ {r} : run'[s] = run[s]
  BY DEF Commit, TypeOK
<1>2. run[r].state = "RUNNING" /\ run'[r].state = "SUCCEEDED"
      /\ run'[r].org = o
  BY DEF Commit, Live, TypeOK, RunRecord
<1>3. \A p \in Orgs : SlotOf(p)' = SlotOf(p) \ {r}
  BY <1>1, <1>2 DEF SlotOf, RunsOf, IsActive
<1>4. r \in SlotOf(o)
  BY <1>2 DEF SlotOf, RunsOf, IsActive
<1>5. UsedKeys' = UsedKeys
  BY <1>1, <1>2 DEF UsedKeys
<1>6. [s \in Requests |-> OutcomeOf(s)']
        = [[s \in Requests |-> OutcomeOf(s)] EXCEPT ![r] = "SUCCEEDED"]
  BY <1>1, <1>2 DEF OutcomeOf
<1>7. Slots!Publish(o, r)
  BY <1>3, <1>4, <1>5, <1>6
  DEF Slots!Publish, Slots!Without, SlotOf, UsedKeys, OutcomeOf
<1>8. QED
  BY <1>7 DEF Slots!Next

\* Only enqueue creates a row.
LEMMA AdmittedByEnqueue ==
    ASSUME TypeOK, [Next]_vars, NEW r \in Requests, Admitted(r)
    PROVE  \E u \in Users, o \in Orgs, k \in Kinds : Enqueue(u, o, r, k)
<1>0. run \in Rows /\ ~Moves(run[r], run'[r])
  BY DEF TypeOK, Rows, Admitted, Moves, Forward
<1>1. ~(\E w \in Workers : Claim(w) \/ WorkerStep(w))
  BY <1>0, ClaimMoves, WorkerMoves
<1>2. UNCHANGED run => FALSE
  BY DEF Admitted
<1>3. PICK u \in Users, o \in Orgs, x \in Requests, k \in Kinds :
        Enqueue(u, o, x, k)
  <2>1. \A S : run' # Cancelled(S)
    BY <1>0, CancelledMoves
  <2>2. run' # Expired(run)
    BY <1>0, ExpiredMoves
  <2>3. ~(\E x \in Requests : Lapse(x)) /\ ~Midnight
    BY <1>0 DEF Lapse, Midnight, Rows, RunRecord, Moves, Same, Forward
  <2>4. QED
    BY <1>1, <1>2, <2>1, <2>2, <2>3
    DEF Next, vars, CancelRun, ReadRuns, SaveConfiguration, ChangeRole,
        Deactivate, Activate, Stop, Kill
<1>4. x = r
  BY <1>0, <1>3, EnqueueMoves
<1>5. QED
  BY <1>3, <1>4

\* A step creates at most one row.
LEMMA OneAdmission ==
    ASSUME TypeOK, [Next]_vars, NEW r \in Requests, Admitted(r)
    PROVE  \A s \in Requests \ {r} : Moves(run[s], run'[s])
<1>1. run \in Rows
  BY DEF TypeOK, Rows
<1>2. QED
  BY <1>1, AdmittedByEnqueue, EnqueueMoves

\* Leases, workers, locks and sweeps implement one slot per organization,
\* filled at most once by each request (services.py, worker.py).
THEOREM QueueImplementsSlots == Spec => ImplementsRunSlots
<1>1. Init => Slots!Init
  BY DEF Init, Slots!Init, RunsOf, IsActive
<1>2. TypeOK /\ TypeOK' /\ [Next]_vars => [Slots!Next]_Slots!vars
  <2> SUFFICES ASSUME TypeOK, TypeOK', [Next]_vars PROVE Slots!Next
    OBVIOUS
  <2>1. CASE \E r \in Requests : run[r].state # "SUCCEEDED"
                                   /\ run'[r].state = "SUCCEEDED"
    BY <2>1, OnlyCommitSucceeds, PublishStep
  <2>2. CASE ~(\E r \in Requests : run[r].state # "SUCCEEDED"
                                     /\ run'[r].state = "SUCCEEDED")
    <3>1. CASE \A r \in Requests : Moves(run[r], run'[r])
      BY <2>2, <3>1, EndStep
    <3>2. ASSUME NEW r \in Requests, Admitted(r)
          PROVE  Slots!Next
      <4>1. \A s \in Requests \ {r} : Moves(run[s], run'[s])
        BY <3>2, OneAdmission
      <4>2. QED
        BY <2>2, <3>2, <4>1, AdmitStep
    <3>3. QED
      BY <3>1, <3>2, RowsMove
  <2>3. QED
    BY <2>1, <2>2
<1>3. QED
  BY <1>1, <1>2, TypeCorrect, PTL DEF Spec, ImplementsRunSlots, Slots!Spec


----------------------------------------------------------------------------
(* The daily limit.  The rows in use are finitely many, though there may be *)
(* infinitely many keys: every admission adds one to none.  The reserved    *)
(* calls of the day are then a finite sum, which shrinks when a row leaves  *)
(* the day and grows by the reservation of an admitted run.                 *)

InUse(rows) == {r \in Requests : rows[r].state # "NONE"}
OfToday(rows, o) ==
    {r \in Requests : rows[r].state # "NONE" /\ rows[r].org = o /\ rows[r].today}
Reserved(rows) == [r \in Requests |-> Calls[rows[r].kind]]

FiniteRuns == IsFiniteSet(InUse(run))

LEMMA DayIsASum ==
    ASSUME NEW rows, NEW o
    PROVE  RunsToday(rows, o) = SumFunctionOnSet(Reserved(rows), OfToday(rows, o))
  BY DEF RunsToday, Reserved, OfToday

LEMMA ReservedNat ==
    ASSUME NEW rows \in Rows
    PROVE  \A r \in Requests : /\ Reserved(rows)[r] = Calls[rows[r].kind]
                               /\ Reserved(rows)[r] \in Nat
<1>1. \A r \in Requests : rows[r].kind \in AllKinds
  BY DEF Rows, RunRecord
<1>2. QED
  BY <1>1, CallsAssumption DEF Reserved

LEMMA DayFinite ==
    ASSUME NEW rows \in Rows, IsFiniteSet(InUse(rows)), NEW o
    PROVE  IsFiniteSet(OfToday(rows, o)) /\ RunsToday(rows, o) \in Nat
<1>1. OfToday(rows, o) \in SUBSET InUse(rows)
  BY DEF OfToday, InUse
<1>2. IsFiniteSet(OfToday(rows, o))
  BY <1>1, FS_Subset
<1>3. \A r \in OfToday(rows, o) : Reserved(rows)[r] \in Nat
  BY ReservedNat DEF OfToday
<1>4. QED
  BY <1>2, <1>3, SumNat, DayIsASum

\* Rows that keep their kind and leave the day at most do not reserve more.
LEMMA DayShrinks ==
    ASSUME NEW rows \in Rows, IsFiniteSet(InUse(rows)), NEW rows2 \in Rows, NEW o,
           \A r \in OfToday(rows2, o) :
              r \in OfToday(rows, o) /\ rows2[r].kind = rows[r].kind
    PROVE  RunsToday(rows2, o) <= RunsToday(rows, o)
<1> DEFINE S == OfToday(rows, o)
           T == OfToday(rows2, o)
           f == Reserved(rows)
           g == Reserved(rows2)
           h == [r \in S |-> IF r \in T THEN f[r] ELSE 0]
<1>1. IsFiniteSet(S) /\ T \in SUBSET S /\ IsFiniteSet(T)
  BY DayFinite, FS_Subset
<1>2. \A r \in S : f[r] \in Nat /\ f[r] \in Int
  BY ReservedNat DEF OfToday
<1>3. \A r \in T : f[r] \in Int /\ g[r] = f[r]
  BY ReservedNat DEF OfToday
<1>4. \A r \in S : h[r] \in Nat /\ h[r] <= f[r]
  BY <1>2
<1> HIDE DEF f, g, S, T
<1>5. SumFunctionOnSet(g, T) = SumFunctionOnSet(f, T)
  BY <1>1, <1>3, SumSame
<1>6. SumFunctionOnSet(h, S) = SumFunctionOnSet(f, T)
  BY <1>1, <1>2, SumPart
<1> HIDE DEF h
<1>7. SumFunctionOnSet(h, S) <= SumFunctionOnSet(f, S)
  BY <1>1, <1>2, <1>4, SumLess
<1>8. QED
  BY <1>5, <1>6, <1>7, DayIsASum DEF S, T, f, g

\* A new row of today adds its reservation to its organization.
LEMMA DayGrows ==
    ASSUME NEW rows \in Rows, IsFiniteSet(InUse(rows)), NEW rows2 \in Rows, NEW o,
           NEW r \in Requests, rows[r].state = "NONE",
           rows2[r].state # "NONE", rows2[r].org = o, rows2[r].today,
           \A s \in Requests \ {r} : rows2[s] = rows[s]
    PROVE  RunsToday(rows2, o) = RunsToday(rows, o) + Calls[rows2[r].kind]
<1> DEFINE S == OfToday(rows2, o)
           T == OfToday(rows, o)
           f == Reserved(rows2)
           g == Reserved(rows)
<1>1. r \in S /\ S \ {r} = T
  BY DEF OfToday
<1>2. IsFiniteSet(T)
  BY DayFinite
<1>3. IsFiniteSet(S)
  <2>1. S = T \cup {r}
    BY <1>1
  <2> HIDE DEF S, T
  <2>2. QED
    BY <1>2, <2>1, FS_AddElement
<1>4. \A s \in S : f[s] \in Int
  BY ReservedNat DEF OfToday
<1>5. \A s \in T : g[s] \in Int /\ f[s] = g[s]
  BY ReservedNat DEF OfToday
<1>6. f[r] = Calls[rows2[r].kind] /\ f[r] \in Nat
  BY ReservedNat
<1> HIDE DEF f, g, S, T
<1>7. SumFunctionOnSet(f, S) = f[r] + SumFunctionOnSet(f, T)
  BY <1>1, <1>3, <1>4, SumAdd
<1>8. SumFunctionOnSet(f, T) = SumFunctionOnSet(g, T) /\ SumFunctionOnSet(g, T) \in Int
  BY <1>2, <1>5, SumSame, SumType
<1>9. RunsToday(rows2, o) = SumFunctionOnSet(f, S)
      /\ RunsToday(rows, o) = SumFunctionOnSet(g, T)
  BY DayIsASum DEF f, g, S, T
<1>10. QED
  BY <1>6, <1>7, <1>8, <1>9

LEMMA FiniteRunsStep ==
    ASSUME TypeOK, FiniteRuns, [Next]_vars
    PROVE  FiniteRuns'
<1>1. CASE \A r \in Requests : Moves(run[r], run'[r])
  <2>1. InUse(run') \in SUBSET InUse(run)
    BY <1>1 DEF InUse, Moves, Forward
  <2>2. QED
    BY <2>1, FS_Subset DEF FiniteRuns
<1>2. ASSUME NEW r \in Requests, Admitted(r)
      PROVE  FiniteRuns'
  <2>1. \A s \in Requests \ {r} : Moves(run[s], run'[s])
    BY <1>2, OneAdmission
  <2>2. InUse(run') \in SUBSET (InUse(run) \cup {r})
    BY <2>1 DEF InUse, Moves, Forward
  <2>3. IsFiniteSet(InUse(run) \cup {r})
    BY FS_AddElement DEF FiniteRuns
  <2>4. QED
    BY <2>2, <2>3, FS_Subset DEF FiniteRuns
<1>3. QED
  BY <1>1, <1>2, RowsMove

\* The sweep of an admission leaves the day as it is.
LEMMA DayStep ==
    ASSUME TypeOK, TypeOK', FiniteRuns, [Next]_vars, NEW o \in Orgs,
           RunsToday(run', o) > RunsToday(run, o)
    PROVE  RunsToday(run', o) <= config[o].limit
<1>0. run \in Rows /\ run' \in Rows /\ IsFiniteSet(InUse(run))
  BY DEF TypeOK, Rows, FiniteRuns
<1>1. /\ RunsToday(run, o) \in Nat /\ RunsToday(run', o) \in Nat
      /\ ~(RunsToday(run', o) <= RunsToday(run, o))
  <2>1. FiniteRuns'
    BY FiniteRunsStep
  <2>2. RunsToday(run, o) \in Nat /\ RunsToday(run', o) \in Nat
    BY <1>0, <2>1, DayFinite DEF FiniteRuns
  <2>3. QED
    BY <2>2
<1>2. PICK r \in OfToday(run', o) : ~Moves(run[r], run'[r])
  <2>1. SUFFICES ASSUME \A r \in OfToday(run', o) : Moves(run[r], run'[r])
                 PROVE  FALSE
    OBVIOUS
  <2>2. \A r \in OfToday(run', o) :
           r \in OfToday(run, o) /\ run'[r].kind = run[r].kind
    BY <2>1 DEF OfToday, Moves, Same, Forward
  <2>3. QED
    BY <1>0, <1>1, <2>2, DayShrinks
<1>3. r \in Requests /\ run'[r].org = o /\ run'[r].today /\ run'[r].state # "NONE"
  BY <1>2 DEF OfToday
<1>4. PICK u \in Users, p \in Orgs, k \in Kinds : Enqueue(u, p, r, k)
  BY <1>2, <1>3, RowsMove, AdmittedByEnqueue
<1> DEFINE rows == Expired(run)
<1>5. rows \in Rows /\ rows[r].state = "NONE" /\ InUse(rows) = InUse(run)
  <2>1. rows \in Rows
    BY <1>0, ExpiredRows DEF Rows
  <2>2. \A s \in Requests : rows[s].state = "NONE" <=> run[s].state = "NONE"
    <3> TAKE s \in Requests
    <3>1. CASE run[s].state \in Active /\ run[s].lapsed
      <4>1. rows[s] = [run[s] EXCEPT !.state = "FAILED"]
        BY <1>0, <3>1, ExpiredRows DEF Rows
      <4>2. rows[s].state = "FAILED"
        BY <1>0, <4>1 DEF Rows, RunRecord
      <4>3. QED
        BY <3>1, <4>2
    <3>2. CASE ~(run[s].state \in Active /\ run[s].lapsed)
      BY <1>0, <3>2, ExpiredRows DEF Rows
    <3>3. QED
      BY <3>1, <3>2
  <2>3. run[r].state = "NONE"
    BY <1>4 DEF Enqueue
  <2>4. QED
    BY <1>3, <2>1, <2>2, <2>3 DEF InUse
<1>6. /\ run'[r].org = p /\ run'[r].kind = k
      /\ \A s \in Requests \ {r} : run'[s] = rows[s]
      /\ RunsToday(rows, p) + Calls[k] <= config[p].limit
  BY <1>3, <1>4, <1>5 DEF Enqueue, WithinLimit, Rows
<1> HIDE DEF rows
<1>7. RunsToday(run', o) = RunsToday(rows, o) + Calls[k]
  BY <1>0, <1>3, <1>5, <1>6, DayGrows
<1>8. QED
  BY <1>3, <1>6, <1>7

\* The reserved calls of a day only grow by an admission, which keeps them
\* within the limit in force (the check in services.enqueue).
THEOREM DailyLimitKept == Spec => AdmissionWithinDailyLimit
<1>1. Init => FiniteRuns
  <2> SUFFICES ASSUME Init PROVE InUse(run) = {}
    BY FS_EmptySet DEF FiniteRuns
  <2>1. QED
    BY DEF Init, InUse
<1>2. TypeOK /\ FiniteRuns /\ [Next]_vars => FiniteRuns'
  BY FiniteRunsStep
<1>3. TypeOK /\ TypeOK' /\ FiniteRuns /\ [Next]_vars =>
        [\A o \in Orgs : RunsToday(run', o) > RunsToday(run, o)
                           => RunsToday(run', o) <= config[o].limit]_vars
  BY DayStep
<1>4. QED
  BY <1>1, <1>2, <1>3, TypeCorrect, PTL DEF Spec, AdmissionWithinDailyLimit


----------------------------------------------------------------------------
(* What a run is charged, for the kinds whose usage process_one writes.  A  *)
(* worker has got what the provider returned, and the row says so too       *)
(* except between an answer and its write.                                  *)

\* Nobody works on r.
Unheld(r) == \A w \in Workers : Busy(w) => R(w) # r

Recorded(r) ==
    /\ run[r].state \in {"NONE", "PENDING"} =>
         run[r].usage = 0 /\ provider[r].replies = 0
    /\ Unheld(r) => run[r].usage = provider[r].replies
    /\ run[r].kind # "ASSISTANT"

Charged(w) ==
    /\ run[R(w)].token = worker[w].token
    /\ provider[R(w)].replies = worker[w].got
    /\ ~At(w, "save") => run[R(w)].usage = worker[w].got

UsageInv ==
    /\ Holds
    /\ \A r \in Requests : Recorded(r)
    /\ \A w \in Workers : Busy(w) => Charged(w)

\* The bulk updates touch neither usage nor lease.
Billed(x, y) == y.usage = x.usage /\ y.token = x.token

LEMMA BilledEdit ==
    ASSUME NEW x \in RunRecord, NEW s
    PROVE  Billed(x, [x EXCEPT !.state = s])
  BY DEF RunRecord, Billed

LEMMA ExpiredBilled ==
    ASSUME run \in Rows
    PROVE  \A r \in Requests : Billed(run[r], Expired(run)[r])
<1> TAKE r \in Requests
<1>1. run[r] \in RunRecord
  BY DEF Rows
<1>2. Expired(run)[r] = [run[r] EXCEPT !.state = "FAILED"]
      \/ Expired(run)[r] = run[r]
  BY ExpiredRows DEF Rows
<1>3. Billed(run[r], run[r])
  BY DEF Billed
<1>4. QED
  BY <1>1, <1>2, <1>3, BilledEdit

LEMMA CancelledBilled ==
    ASSUME run \in Rows, NEW S
    PROVE  \A r \in Requests : Billed(run[r], Cancelled(S)[r])
<1> TAKE r \in Requests
<1>1. run[r] \in RunRecord
  BY DEF Rows
<1>2. Cancelled(S)[r] = [run[r] EXCEPT !.state = "CANCELLED"]
      \/ Cancelled(S)[r] = run[r]
  BY CancelledRows DEF Rows
<1>3. Billed(run[r], run[r])
  BY DEF Billed
<1>4. QED
  BY <1>1, <1>2, <1>3, BilledEdit

LEMMA AdmittedRow ==
    ASSUME TypeOK, [Next]_vars, NEW r \in Requests, Admitted(r)
    PROVE  /\ run'[r].kind \in Kinds /\ run'[r].usage = 0
           /\ \A s \in Requests \ {r} : Billed(run[s], run'[s])
<1>1. run \in Rows /\ Expired(run) \in Rows
  BY ExpiredRows DEF TypeOK, Rows
<1>2. PICK u \in Users, o \in Orgs, k \in Kinds : Enqueue(u, o, r, k)
  BY AdmittedByEnqueue
<1>3. /\ run'[r].kind = k /\ run'[r].usage = 0
      /\ \A s \in Requests \ {r} : run'[s] = Expired(run)[s]
  BY <1>1, <1>2 DEF Enqueue, Rows
<1>4. QED
  BY <1>1, <1>3, ExpiredBilled

LEMMA OutsideBilled ==
    ASSUME TypeOK, Outside
    PROVE  \A r \in Requests :
              \/ Admitted(r) /\ run'[r].kind \in Kinds /\ run'[r].usage = 0
              \/ Moves(run[r], run'[r]) /\ Billed(run[r], run'[r])
<1>0. run \in Rows
  BY DEF TypeOK, Rows
<1>1. [Next]_vars
  BY DEF Outside, Next
<1>2. CASE \E r \in Requests : Admitted(r)
  BY <1>1, <1>2, AdmittedRow, OneAdmission
<1>3. CASE \A r \in Requests : ~Admitted(r)
  <2>1. \A r \in Requests : Moves(run[r], run'[r])
    BY <1>3, OutsideMoves
  <2>2. ~(\E u \in Users, o \in Orgs, r \in Requests, k \in Kinds :
             Enqueue(u, o, r, k))
    BY <1>0, <1>3, EnqueueMoves
  <2>3. CASE \E S : run' = Cancelled(S)
    BY <1>0, <2>1, <2>3, CancelledBilled
  <2>4. CASE run' = Expired(run)
    BY <1>0, <2>1, <2>4, ExpiredBilled
  <2>5. CASE (\E x \in Requests : Lapse(x)) \/ Midnight
    BY <1>0, <2>1, <2>5 DEF Lapse, Midnight, Rows, RunRecord, Billed
  <2>6. CASE UNCHANGED run
    BY <2>1, <2>6 DEF Billed
  <2>7. QED
    BY <2>2, <2>3, <2>4, <2>5, <2>6
    DEF Outside, vars, CancelRun, ReadRuns, SaveConfiguration, ChangeRole,
        Deactivate, Activate
<1>4. QED
  BY <1>2, <1>3

LEMMA ClaimBilled ==
    ASSUME TypeOK, NEW w \in Workers, Claim(w)
    PROVE  \/ /\ UNCHANGED worker
              /\ \A r \in Requests : Billed(run[r], run'[r])
           \/ \E r \in Requests :
                /\ run[r].state = "PENDING" /\ run'[r].usage = run[r].usage
                /\ \A s \in Requests \ {r} : Billed(run[s], run'[s])
                /\ ~Busy(w)
                /\ worker'[w].run = r /\ worker'[w].pc = "open"
                /\ worker'[w].got = 0 /\ worker'[w].token = run'[r].token
                /\ \A v \in Workers \ {w} : worker'[v] = worker[v]
<1> DEFINE rows == Expired(run)
<1>0. run \in Rows /\ rows \in Rows /\ worker \in Processes
  BY ExpiredRows DEF TypeOK, Rows, Processes
<1>1. CASE UNCHANGED worker /\ run' = rows
  BY <1>0, <1>1, ExpiredBilled
<1>2. ASSUME NEW r \in Requests, rows[r].state = "PENDING", At(w, "idle"),
             run' = [rows EXCEPT ![r] = [rows[r] EXCEPT !.state = "RUNNING",
                       !.token = rows[r].token + 1, !.lapsed = FALSE]],
             worker' = [worker EXCEPT ![w] = [Idle EXCEPT !.pc = "open",
                          !.run = r, !.token = rows[r].token + 1]]
      PROVE  /\ run[r].state = "PENDING" /\ run'[r].usage = run[r].usage
             /\ \A s \in Requests \ {r} : Billed(run[s], run'[s])
             /\ ~Busy(w)
             /\ worker'[w].run = r /\ worker'[w].pc = "open"
             /\ worker'[w].got = 0 /\ worker'[w].token = run'[r].token
             /\ \A v \in Workers \ {w} : worker'[v] = worker[v]
  <2>1. rows[r] \in RunRecord
    BY <1>0 DEF Rows
  <2>2. run'[r] = [rows[r] EXCEPT !.state = "RUNNING",
                     !.token = rows[r].token + 1, !.lapsed = FALSE]
    BY <1>0, <1>2 DEF Rows
  <2>3. run'[r].usage = rows[r].usage /\ run'[r].token = rows[r].token + 1
    BY <2>1, <2>2 DEF RunRecord
  <2>4. \A s \in Requests \ {r} : run'[s] = rows[s]
    BY <1>0, <1>2 DEF Rows
  <2>5. run[r].state = "PENDING" /\ rows[r].usage = run[r].usage
    BY <1>0, <1>2, ExpiredMoves, ExpiredBilled DEF Billed
  <2>6. \A s \in Requests \ {r} : Billed(run[s], run'[s])
    BY <1>0, <2>4, ExpiredBilled
  <2>7. worker'[w] = [Idle EXCEPT !.pc = "open", !.run = r,
                         !.token = rows[r].token + 1]
        /\ \A v \in Workers \ {w} : worker'[v] = worker[v]
    BY <1>0, <1>2 DEF Processes
  <2>8. /\ worker'[w].run = r /\ worker'[w].pc = "open"
        /\ worker'[w].got = 0 /\ worker'[w].token = rows[r].token + 1
    BY <2>7 DEF Idle
  <2>9. QED
    BY <1>2, <2>3, <2>5, <2>6, <2>7, <2>8 DEF At, Busy
<1>3. QED
  BY <1>1, <1>2 DEF Claim

LEMMA UsageOutside ==
    ASSUME TypeOK, UsageInv, "ASSISTANT" \notin Kinds, Outside
    PROVE  UsageInv'
<1>1. /\ UNCHANGED <<worker, provider>>
      /\ \A r \in Requests :
           \/ Admitted(r) /\ run'[r].kind \in Kinds /\ run'[r].usage = 0
           \/ Moves(run[r], run'[r]) /\ Billed(run[r], run'[r])
  BY OutsideMoves, OutsideBilled
<1>2. Holds'
  BY HoldsStep DEF UsageInv, Outside, Next
<1>3. ASSUME NEW r \in Requests PROVE Recorded(r)'
  <2>1. Recorded(r) /\ Unheld(r)' = Unheld(r)
    BY <1>1 DEF UsageInv, Unheld, Busy, R
  <2>2. CASE Admitted(r) /\ run'[r].kind \in Kinds /\ run'[r].usage = 0
    BY <1>1, <2>1, <2>2 DEF Recorded, Admitted
  <2>3. CASE Moves(run[r], run'[r]) /\ Billed(run[r], run'[r])
    BY <1>1, <2>1, <2>3 DEF Recorded, Moves, Same, Forward, Billed
  <2>4. QED
    BY <1>1, <2>2, <2>3
<1>4. ASSUME NEW w \in Workers, worker'[w].pc # "idle" PROVE Charged(w)'
  <2>1. Charged(w) /\ R(w) \in Requests /\ ~Admitted(R(w))
    BY <1>1, <1>4 DEF UsageInv, Holds, Admitted, Busy
  <2>2. Billed(run[R(w)], run'[R(w)])
    BY <1>1, <2>1
  <2>3. QED
    BY <1>1, <2>1, <2>2 DEF Charged, Billed, R, At
<1>5. QED
  BY <1>2, <1>3, <1>4 DEF UsageInv, Busy

LEMMA UsageClaim ==
    ASSUME TypeOK, UsageInv, NEW w \in Workers, Claim(w)
    PROVE  UsageInv'
<1>1. UNCHANGED provider /\ \A r \in Requests : Moves(run[r], run'[r])
  BY ClaimMoves
<1>2. Holds'
  BY HoldsStep DEF UsageInv, Next
<1>3. ASSUME NEW r \in Requests, run'[r].usage = run[r].usage,
             Unheld(r)' => Unheld(r)
      PROVE  Recorded(r)'
  BY <1>1, <1>3 DEF UsageInv, Recorded, Moves, Same, Forward
<1>4. ASSUME NEW v \in Workers, Busy(v), worker'[v] = worker[v],
             Billed(run[R(v)], run'[R(v)])
      PROVE  Charged(v)'
  BY <1>1, <1>4 DEF UsageInv, Charged, Billed, R, At
<1>5. CASE /\ UNCHANGED worker
           /\ \A r \in Requests : Billed(run[r], run'[r])
  <2>1. ASSUME NEW r \in Requests PROVE Recorded(r)'
    BY <1>3, <1>5 DEF Billed, Unheld, Busy, R
  <2>2. ASSUME NEW v \in Workers, Busy(v) PROVE Charged(v)'
    BY <1>4, <1>5, <2>2 DEF UsageInv, Holds
  <2>3. QED
    BY <1>2, <1>5, <2>1, <2>2 DEF UsageInv, Busy
<1>6. ASSUME NEW r \in Requests,
             run[r].state = "PENDING", run'[r].usage = run[r].usage,
             \A s \in Requests \ {r} : Billed(run[s], run'[s]),
             ~Busy(w), worker'[w].run = r, worker'[w].pc = "open",
             worker'[w].got = 0, worker'[w].token = run'[r].token,
             \A v \in Workers \ {w} : worker'[v] = worker[v]
      PROVE  UsageInv'
  <2>1. \A v \in Workers : Busy(v) => R(v) # r /\ R(v) \in Requests /\ v # w
    BY <1>6 DEF UsageInv, Holds
  <2>2. ASSUME NEW s \in Requests PROVE Recorded(s)'
    <3>1. run'[s].usage = run[s].usage
      BY <1>6 DEF Billed
    <3>2. Unheld(s)' => Unheld(s)
      <4> SUFFICES ASSUME Unheld(s)', NEW v \in Workers, Busy(v) PROVE R(v) # s
        BY DEF Unheld
      <4>1. v # w /\ worker'[v] = worker[v]
        BY <1>6, <2>1
      <4>2. QED
        BY <4>1 DEF Unheld, Busy, R
    <3>3. QED
      BY <1>3, <3>1, <3>2
  <2>3. ASSUME NEW v \in Workers, worker'[v].pc # "idle" PROVE Charged(v)'
    <3>1. CASE v # w
      <4>1. Busy(v) /\ worker'[v] = worker[v]
        BY <1>6, <2>3, <3>1 DEF Busy
      <4>2. QED
        BY <1>4, <1>6, <2>1, <4>1
    <3>2. CASE v = w
      <4>1. run[r].usage = 0 /\ provider[r].replies = 0
        BY <1>6 DEF UsageInv, Recorded
      <4>2. QED
        BY <1>1, <1>6, <3>2, <4>1 DEF Charged, R, At
    <3>3. QED
      BY <3>1, <3>2
  <2>4. QED
    BY <1>2, <2>2, <2>3 DEF UsageInv, Busy
<1>7. QED
  BY <1>5, <1>6, ClaimBilled


\* A worker goes on with what it has got, or lets go of the run.
Keeps(w) ==
    \/ worker'[w] = Idle
    \/ /\ worker'[w].run = R(w) /\ worker'[w].pc \notin {"idle", "save"}
       /\ worker'[w].token = worker[w].token /\ worker'[w].got = worker[w].got

LEMMA GoKeeps ==
    ASSUME worker \in Processes, NEW w \in Workers, NEW p, Go(w, p),
           p \notin {"idle", "save"}
    PROVE  Keeps(w)
  BY DEF Go, Keeps, R, Processes, WorkerRecord

LEMMA RaiseKeeps ==
    ASSUME worker \in Processes, NEW w \in Workers, NEW out, Raise(w, out)
    PROVE  Keeps(w)
<1>1. worker'[w] = [worker[w] EXCEPT !.pc = Handler(w), !.outcome = out]
  BY DEF Raise, Processes
<1>2. /\ worker'[w].pc = Handler(w) /\ worker'[w].run = R(w)
      /\ worker'[w].token = worker[w].token /\ worker'[w].got = worker[w].got
  BY <1>1 DEF R, Processes, WorkerRecord
<1>3. QED
  BY <1>2, HandlerCases DEF Keeps

LEMMA ReturnKeeps ==
    ASSUME worker \in Processes, NEW w \in Workers, Return(w)
    PROVE  Keeps(w)
  BY ReturnOver DEF Keeps

LEMMA LeaveKeeps ==
    ASSUME worker \in Processes, NEW w \in Workers, Leave(w)
    PROVE  Keeps(w)
  BY RaiseKeeps, ReturnKeeps DEF Leave

LEMMA AuthorizeKeeps ==
    ASSUME worker \in Processes, NEW w \in Workers, NEW p, Authorize(w, p),
           p \notin {"idle", "save"}
    PROVE  Keeps(w)
  BY RaiseKeeps, GoKeeps DEF Authorize

\* The row that a worker writes keeps its lease, and says what the worker got
\* unless an answer was just received.
RowPaid(w, row) == row.token = run[R(w)].token /\ row.usage = worker[w].got

Settled(w) ==
    /\ Keeps(w) /\ RowPaid(w, run'[R(w)])
    /\ provider'[R(w)].replies = provider[R(w)].replies

LEMMA WorkerBilled ==
    ASSUME TypeOK, UsageInv, NEW w \in Workers, WorkerStep(w)
    PROVE  \/ Settled(w)
           \/ /\ worker'[w].run = R(w) /\ worker'[w].pc = "save"
              /\ worker'[w].token = worker[w].token
              /\ worker'[w].got = worker[w].got + 1
              /\ run'[R(w)] = run[R(w)]
              /\ provider'[R(w)].replies = provider[R(w)].replies + 1
<1>0. worker \in Processes /\ worker[w] \in WorkerRecord /\ run \in Rows
  BY DEF TypeOK, Processes, Rows
<1>1. R(w) \in Requests /\ Charged(w) /\ Kind(w) # "ASSISTANT"
  <2>1. Busy(w)
    BY WorkerSteps
  <2>2. QED
    BY <2>1 DEF UsageInv, Holds, Recorded, Kind
<1>2. run[R(w)] \in RunRecord
  BY <1>0, <1>1 DEF Rows
<1>3. ~At(w, "save") => RowPaid(w, run[R(w)])
  BY <1>1 DEF Charged, RowPaid
<1>4. ASSUME Keeps(w), UNCHANGED provider,
             \E row : RowPaid(w, row) /\ run' = [run EXCEPT ![R(w)] = row]
      PROVE  Settled(w)
  BY <1>0, <1>1, <1>4 DEF Settled, Rows
<1>5. ASSUME Keeps(w), UNCHANGED <<run, provider>>, ~At(w, "save")
      PROVE  Settled(w)
  BY <1>3, <1>5 DEF Settled
<1>6. ASSUME NEW n, NEW s, NEW m
      PROVE  /\ RowPaid(w, [run[R(w)] EXCEPT !.usage = worker[w].got])
             /\ RowPaid(w, [run[R(w)] EXCEPT !.state = s, !.usage = worker[w].got])
             /\ RowPaid(w, [[run[R(w)] EXCEPT !.state = s]
                              EXCEPT !.usage = worker[w].got, !.attempts = m])
             /\ RowPaid(w, [run[R(w)] EXCEPT !.usage = worker[w].got, !.attempts = m])
             /\ RowPaid(w, [[run[R(w)] EXCEPT !.usage = worker[w].got, !.attempts = m]
                              EXCEPT !.state = s])
  BY <1>2 DEF RunRecord, RowPaid
<1>7. ASSUME NEW n, NEW s, RowPaid(w, run[R(w)])
      PROVE  /\ RowPaid(w, [run[R(w)] EXCEPT !.attempts = n])
             /\ RowPaid(w, [run[R(w)] EXCEPT !.state = s])
  BY <1>2, <1>7 DEF RunRecord, RowPaid
<1>8. CASE Open(w)
  BY <1>0, <1>5, <1>8, AuthorizeKeeps, RaiseKeeps DEF Open, At
<1>9. CASE Context(w)
  BY <1>0, <1>5, <1>9, GoKeeps, ReturnKeeps DEF Context, At
<1>10. CASE Round(w)
  BY <1>0, <1>5, <1>10, AuthorizeKeeps, LeaveKeeps DEF Round, At
<1>11. CASE Recheck(w)
  BY <1>0, <1>5, <1>11, AuthorizeKeeps, LeaveKeeps, RaiseKeeps, ReturnKeeps,
     GoKeeps DEF Recheck, At
<1>12. CASE Publish(w)
  BY <1>0, <1>5, <1>12, AuthorizeKeeps, RaiseKeeps DEF Publish, At
<1>13. CASE Reserve(w)
  <2>1. Keeps(w)
    <3>1. CASE Leave(w)
      BY <1>0, <3>1, LeaveKeeps
    <3>2. CASE worker' = [worker EXCEPT ![w] =
                  [worker[w] EXCEPT !.pc = "send", !.sent = worker[w].sent + 1]]
      <4>1. worker'[w] = [worker[w] EXCEPT !.pc = "send", !.sent = worker[w].sent + 1]
        BY <1>0, <3>2 DEF Processes
      <4>2. QED
        BY <1>0, <4>1 DEF Keeps, R, WorkerRecord
    <3>3. QED
      BY <1>13, <3>1, <3>2 DEF Reserve
  <2>2. ~At(w, "save")
    BY <1>13 DEF Reserve, At
  <2>3. QED
    BY <1>3, <1>4, <1>5, <1>7, <1>13, <2>1, <2>2 DEF Reserve
<1>14. CASE Send(w)
  <2>1. Keeps(w) /\ ~At(w, "save") /\ UNCHANGED run
    BY <1>0, <1>14, GoKeeps DEF Send, At
  <2>2. provider'[R(w)].replies = provider[R(w)].replies
    BY <1>1, <1>14 DEF Send, TypeOK, ProviderRecord
  <2>3. QED
    BY <1>3, <2>1, <2>2 DEF Settled
<1>15. CASE Answer(w)
  <2>1. ~At(w, "save") /\ UNCHANGED run
    BY <1>15 DEF Answer, At
  <2>2. CASE Raise(w, "FAILED") /\ UNCHANGED provider
    BY <1>0, <1>5, <2>1, <2>2, RaiseKeeps
  <2>3. CASE /\ worker' = [worker EXCEPT ![w] =
                   [worker[w] EXCEPT !.pc = "save", !.got = worker[w].got + 1]]
             /\ provider' = [provider EXCEPT ![R(w)].replies = @ + 1]
    <3>1. worker'[w] = [worker[w] EXCEPT !.pc = "save", !.got = worker[w].got + 1]
      BY <1>0, <2>3 DEF Processes
    <3>2. /\ worker'[w].run = R(w) /\ worker'[w].pc = "save"
          /\ worker'[w].token = worker[w].token
          /\ worker'[w].got = worker[w].got + 1
      BY <1>0, <3>1 DEF R, WorkerRecord
    <3>3. provider'[R(w)].replies = provider[R(w)].replies + 1
      BY <1>1, <2>3 DEF TypeOK, ProviderRecord
    <3>4. QED
      BY <2>1, <3>2, <3>3
  <2>4. QED
    BY <1>15, <2>2, <2>3 DEF Answer
<1>16. CASE SaveUsage(w)
  <2>1. Keeps(w)
    BY <1>0, <1>16, GoKeeps DEF SaveUsage
  <2>2. Chargeable(w)
    BY <1>1 DEF Charged, Chargeable
  <2>3. QED
    BY <1>1, <1>4, <1>6, <1>16, <2>1, <2>2 DEF SaveUsage
<1>17. CASE Accept(w)
  <2>1. Keeps(w)
    <3>1. CASE worker' = [worker EXCEPT ![w] =
                  [worker[w] EXCEPT !.pc = "fail", !.outcome = "CANCELLED"]]
      <4>1. worker'[w] = [worker[w] EXCEPT !.pc = "fail", !.outcome = "CANCELLED"]
        BY <1>0, <3>1 DEF Processes
      <4>2. QED
        BY <1>0, <4>1 DEF Keeps, R, WorkerRecord
    <3>2. QED
      BY <1>0, <1>17, <3>1, GoKeeps, LeaveKeeps DEF Accept
  <2>2. ~At(w, "save")
    BY <1>17 DEF Accept, At
  <2>3. QED
    BY <1>4, <1>5, <1>6, <1>17, <2>1, <2>2 DEF Accept
<1>18. CASE Commit(w)
  <2>1. Keeps(w) /\ ~At(w, "save")
    BY <1>0, <1>18, ReturnKeeps DEF Commit, At
  <2>2. CASE Live(w)
    <3>1. run' = [run EXCEPT ![R(w)] = [run[R(w)] EXCEPT !.state = "SUCCEEDED",
                                                 !.usage = worker[w].got]]
      BY <1>18, <2>2 DEF Commit
    <3>2. QED
      BY <1>4, <1>6, <1>18, <2>1, <3>1 DEF Commit
  <2>3. CASE ~Live(w)
    BY <1>5, <1>18, <2>1, <2>3 DEF Commit
  <2>4. QED
    BY <2>2, <2>3
<1>19. CASE Fail(w)
  <2>1. Keeps(w) /\ ~At(w, "save") /\ UNCHANGED provider
    BY <1>0, <1>19, ReturnKeeps DEF Fail, At
  <2>2. RowPaid(w, run[R(w)])
    BY <1>3, <2>1
  <2>3. CASE Live(w)
    <3>1. \E m : run' = [run EXCEPT ![R(w)] =
              IF worker[w].outcome = "CANCELLED"
              THEN [run[R(w)] EXCEPT !.state = worker[w].outcome]
              ELSE [[run[R(w)] EXCEPT !.state = worker[w].outcome]
                       EXCEPT !.usage = worker[w].got, !.attempts = m]]
      BY <1>1, <1>19, <2>3 DEF Fail
    <3>2. QED
      BY <1>4, <1>6, <1>7, <2>1, <2>2, <3>1
  <2>4. CASE ~Live(w)
    BY <1>5, <1>19, <2>1, <2>4 DEF Fail
  <2>5. QED
    BY <2>3, <2>4
<1>20. CASE NodeFail(w)
  <2>1. Keeps(w) /\ ~At(w, "save") /\ UNCHANGED provider
    BY <1>0, <1>20, ReturnKeeps DEF NodeFail, At
  <2>2. \/ UNCHANGED run
        \/ \E m : run' = [run EXCEPT ![R(w)] =
             [run[R(w)] EXCEPT !.usage = worker[w].got, !.attempts = m]]
        \/ \E m, s : run' = [run EXCEPT ![R(w)] =
             [[run[R(w)] EXCEPT !.usage = worker[w].got, !.attempts = m]
                 EXCEPT !.state = s]]
    BY <1>20 DEF NodeFail
  <2>3. QED
    BY <1>4, <1>5, <1>6, <2>1, <2>2
<1>21. QED
  BY <1>8, <1>9, <1>10, <1>11, <1>12, <1>13, <1>14, <1>15, <1>16, <1>17,
     <1>18, <1>19, <1>20 DEF WorkerStep

LEMMA UsageWorkerStep ==
    ASSUME TypeOK, UsageInv, NEW w \in Workers, WorkerStep(w)
    PROVE  UsageInv'
<1>1. Busy(w) /\ \A v \in Workers \ {w} : worker'[v] = worker[v]
  BY WorkerSteps
<1> PICK r : r = R(w)
  OBVIOUS
<1>2. /\ r \in Requests /\ run[r].state \notin {"NONE", "PENDING"}
      /\ \A v \in Workers \ {w} : Busy(v) => R(v) # r
      /\ Charged(w) /\ run[r].kind # "ASSISTANT"
  BY <1>1 DEF UsageInv, Holds, Recorded
<1>3. /\ Moves(run[r], run'[r])
      /\ \A s \in Requests \ {r} : run'[s] = run[s] /\ provider'[s] = provider[s]
  BY <1>2, WorkerMoves, ProviderSteps
<1>4. Holds'
  BY HoldsStep DEF UsageInv, Next
<1>5. run'[r].state \notin {"NONE", "PENDING"} /\ run'[r].kind # "ASSISTANT"
  BY <1>2, <1>3 DEF Moves, Same, Forward
<1>6. ASSUME NEW v \in Workers \ {w}, worker'[v].pc # "idle"
      PROVE  Charged(v)'
  <2>1. Busy(v) /\ worker'[v] = worker[v] /\ Charged(v)
    BY <1>1, <1>6 DEF UsageInv, Busy
  <2>2. R(v) \in Requests \ {r}
    BY <1>2, <2>1 DEF UsageInv, Holds
  <2>3. QED
    BY <1>3, <2>1, <2>2 DEF Charged, R, At
<1>7. /\ worker'[w].pc # "idle" => Charged(w)'
      /\ worker'[w].pc = "idle" => run'[r].usage = provider'[r].replies
  <2>1. CASE Settled(w)
    <3>1. /\ run'[r].token = run[r].token /\ run'[r].usage = worker[w].got
          /\ provider'[r].replies = worker[w].got
          /\ run[r].token = worker[w].token
      BY <1>2, <2>1 DEF Settled, RowPaid, Charged
    <3>2. Keeps(w)
      BY <2>1 DEF Settled
    <3>3. QED
      BY <3>1, <3>2 DEF Keeps, Charged, R, At, Idle
  <2>2. CASE /\ worker'[w].run = R(w) /\ worker'[w].pc = "save"
             /\ worker'[w].token = worker[w].token
             /\ worker'[w].got = worker[w].got + 1
             /\ run'[R(w)] = run[R(w)]
             /\ provider'[R(w)].replies = provider[R(w)].replies + 1
    BY <1>2, <2>2 DEF Charged, R, At
  <2>3. QED
    BY <2>1, <2>2, WorkerBilled
<1>8. ASSUME NEW s \in Requests PROVE Recorded(s)'
  <2>1. CASE s # r
    <3>1. Unheld(s)' => Unheld(s)
      BY <1>1, <2>1 DEF Unheld, Busy, R
    <3>2. QED
      BY <1>3, <2>1, <3>1 DEF UsageInv, Recorded
  <2>2. CASE s = r
    <3>1. Unheld(r)' => worker'[w].pc = "idle"
      <4>1. worker'[w] = Idle \/ worker'[w].run = r
        BY WorkerSteps
      <4>2. QED
        BY <4>1 DEF Unheld, Busy, R, Idle
    <3>2. QED
      BY <1>5, <1>7, <2>2, <3>1 DEF Recorded
  <2>3. QED
    BY <2>1, <2>2
<1>9. QED
  BY <1>4, <1>6, <1>7, <1>8 DEF UsageInv, Busy

\* SIGTERM leaves everything but a flag of the worker.
LEMMA UsageStop ==
    ASSUME TypeOK, UsageInv, NEW w \in Workers, Stop(w)
    PROVE  UsageInv'
<1>1. UNCHANGED <<run, provider>>
  BY DEF Stop
<1>2. \A v \in Workers : /\ worker'[v].pc = worker[v].pc
                         /\ worker'[v].run = worker[v].run
                         /\ worker'[v].token = worker[v].token
                         /\ worker'[v].got = worker[v].got
  BY DEF Stop, TypeOK, WorkerRecord
<1>3. Holds'
  BY HoldsStep DEF UsageInv, Next
<1>4. ASSUME NEW r \in Requests PROVE Recorded(r)'
  BY <1>1, <1>2 DEF UsageInv, Recorded, Unheld, Busy, R
<1>5. ASSUME NEW v \in Workers, worker'[v].pc # "idle" PROVE Charged(v)'
  BY <1>1, <1>2, <1>5 DEF UsageInv, Charged, Busy, R, At
<1>6. QED
  BY <1>3, <1>4, <1>5 DEF UsageInv, Busy

\* A process that dies leaves the row as it wrote it last, which says what it
\* had got unless it was about to write an answer.
LEMMA UsageKill ==
    ASSUME TypeOK, UsageInv, NEW w \in Workers, Kill(w), ~At(w, "save")
    PROVE  UsageInv'
<1>1. UNCHANGED <<run, provider>> /\ worker'[w] = Idle
      /\ \A v \in Workers \ {w} : worker'[v] = worker[v]
  BY DEF Kill, Return, TypeOK
<1>2. Holds'
  BY HoldsStep DEF UsageInv, Next
<1>3. Busy(w) /\ Charged(w)
  BY DEF Kill, At, Busy, UsageInv
<1>4. ASSUME NEW r \in Requests PROVE Recorded(r)'
  <2>1. CASE r = R(w)
    BY <1>1, <1>3, <2>1 DEF UsageInv, Recorded, Charged
  <2>2. CASE r # R(w)
    <3>1. Unheld(r)' => Unheld(r)
      BY <1>1, <2>2 DEF Unheld, Busy, R
    <3>2. QED
      BY <1>1, <3>1 DEF UsageInv, Recorded
  <2>3. QED
    BY <2>1, <2>2
<1>5. ASSUME NEW v \in Workers, worker'[v].pc # "idle" PROVE Charged(v)'
  <2>1. worker'[v] = worker[v] /\ Busy(v)
    BY <1>1, <1>5 DEF Idle, Busy
  <2>2. QED
    BY <1>1, <2>1 DEF UsageInv, Charged, R, At
<1>6. QED
  BY <1>2, <1>4, <1>5 DEF UsageInv, Busy

\* Whatever the provider returned is in the usage of a run that is not an
\* assistant's once its worker has let go of it, also when the run was
\* cancelled or lost its lease meanwhile (the update under the token alone in
\* process_one), and what is reserved in a day stays within the limit: as
\* long as no process dies between an answer and the update.
THEOREM UsageAccounted ==
    ASSUME "ASSISTANT" \notin Kinds
    PROVE  Spec /\ [][\A w \in Workers : At(w, "save") => ~Kill(w)]_vars
              => UsageIsAccounted
<1>1. Init => UsageInv
  <2> SUFFICES ASSUME Init PROVE UsageInv
    OBVIOUS
  <2>1. \A w \in Workers : ~Busy(w)
    BY DEF Init, Busy, Idle
  <2>2. \A r \in Requests : Recorded(r)
    BY DEF Init, Recorded
  <2>3. QED
    BY <2>1, <2>2 DEF UsageInv, Holds
<1>2. TypeOK /\ UsageInv /\ [Next]_vars
        /\ [\A w \in Workers : At(w, "save") => ~Kill(w)]_vars => UsageInv'
  <2> SUFFICES ASSUME TypeOK, UsageInv, [Next]_vars,
                      [\A w \in Workers : At(w, "save") => ~Kill(w)]_vars
               PROVE  UsageInv'
    OBVIOUS
  <2>1. CASE Outside
    BY <2>1, UsageOutside
  <2>2. CASE \E w \in Workers : Claim(w) \/ WorkerStep(w) \/ Stop(w)
    BY <2>2, UsageClaim, UsageWorkerStep, UsageStop
  <2>3. ASSUME NEW w \in Workers, Kill(w)
        PROVE  UsageInv'
    <3>1. ~At(w, "save") \/ UNCHANGED vars
      BY <2>3
    <3>2. CASE UNCHANGED vars
      BY <2>1, <3>2 DEF Outside
    <3>3. QED
      BY <2>3, <3>1, <3>2, UsageKill
  <2>4. QED
    BY <2>1, <2>2, <2>3 DEF Next, Outside
<1>3. UsageInv => ReturnedUsageRecorded
  BY DEF UsageInv, Recorded, Unheld, ReturnedUsageRecorded, R
<1>4. QED
  BY <1>1, <1>2, <1>3, TypeCorrect, DailyLimitKept, PTL
  DEF Spec, UsageIsAccounted
=============================================================================
