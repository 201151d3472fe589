----------------------------- MODULE AgentRuns -----------------------------
(***************************************************************************)
(* The queue of model requests: admission (agents/services.py), the leased *)
(* worker (agents/worker.py, agents/assistant_runtime.py) and the          *)
(* operations that end a run from outside: cancelling it, saving the model *)
(* configuration, disabling the requester's account, changing a role.      *)
(*                                                                         *)
(* Every action is one PostgreSQL statement or one transaction.  The only  *)
(* transaction split in two is the worker's publication, which reads the   *)
(* configuration and the requester's role under the organization lock and  *)
(* then writes the result: the sweep of expired runs takes no lock and may *)
(* fall between the two.                                                   *)
(*                                                                         *)
(* Time is one bit per run: lapsed says that the deadline of the run (ten  *)
(* minutes in the queue, then the worker's lease) is in the past.          *)
(***************************************************************************)
EXTENDS Naturals, FiniteSets, FiniteSetsExt, Functions

CONSTANTS
    Orgs,           \* organizations
    Users,          \* accounts
    Requests,       \* idempotency keys; a run is identified by its key
    Workers,        \* agent worker processes
    Kinds,          \* the kinds of request an instance exercises
    Calls,          \* provider requests a run reserves, by kind
    Limits,         \* values of daily_run_limit an owner may save
    NoWorker,       \* the organization lock is free
    NoRun,          \* the worker holds no run
    MaxRevision,    \* bound: saves of the configuration of an organization
    MaxDays,        \* bound: midnights
    MaxStops        \* bound: SIGTERMs and kills of workers

AllKinds == {"TEST", "RESEARCH", "TEAM", "ASSISTANT"}
MultiStage == {"TEAM", "ASSISTANT"}

ASSUME KindsAssumption == Kinds \subseteq AllKinds
ASSUME CallsAssumption ==
    /\ Calls \in [AllKinds -> Nat \ {0}]
    /\ \A k \in AllKinds \ MultiStage : Calls[k] = 1
ASSUME LimitsAssumption == Limits \subseteq Nat
ASSUME SentinelAssumption == NoWorker \notin Workers /\ NoRun \notin Requests
ASSUME BoundsAssumption ==
    MaxRevision \in Nat /\ MaxDays \in Nat /\ MaxStops \in Nat

VARIABLES
    run,       \* AgentRun rows
    config,    \* ModelConfiguration rows; revision 0: never saved
    role,      \* OrganizationMembership rows; "NONE": no row
    active,    \* User.is_active
    lock,      \* who holds SELECT ... FOR UPDATE on the organization row
    worker,    \* local state of process_one
    provider,  \* what the model provider saw of each run
    day, stops \* counters behind MaxDays and MaxStops

vars == <<run, config, role, active, lock, worker, provider, day, stops>>
bounds == <<day, stops>>
tenancy == <<config, role, active>>

----------------------------------------------------------------------------
States == {"NONE", "PENDING", "RUNNING", "SUCCEEDED", "FAILED", "CANCELLED"}
Active == {"PENDING", "RUNNING"}
Ended == {"SUCCEEDED", "FAILED", "CANCELLED"}
Roles == {"OWNER", "MEMBER", "VIEWER", "NONE"}
RunRoles == {"OWNER", "MEMBER"}

\* The program points of process_one and of the assistant's node function.
Points == {"idle", "open", "context", "round", "reserve", "send", "wait",
           "save", "recheck", "accept", "publish", "commit", "fail",
           "nodefail"}

RunRecord == [state : States, org : Orgs, user : Users, kind : AllKinds,
              revision : Nat, token : Nat, lapsed : BOOLEAN, today : BOOLEAN,
              attempts : Nat, usage : Nat]

WorkerRecord == [pc : Points, run : Requests \cup {NoRun}, token : Nat,
                 sent : Nat, got : Nat, outcome : {"FAILED", "CANCELLED"},
                 stopped : BOOLEAN]

ProviderRecord == [requests : Nat, late : Nat, replies : Nat]

ConfigRecord == [revision : Nat, enabled : BOOLEAN, limit : Nat]

Idle == [pc |-> "idle", run |-> NoRun, token |-> 0, sent |-> 0, got |-> 0,
         outcome |-> "FAILED", stopped |-> FALSE]

TypeOK ==
    /\ run \in [Requests -> RunRecord]
    /\ config \in [Orgs -> ConfigRecord]
    /\ role \in [Orgs -> [Users -> Roles]]
    /\ active \in [Users -> BOOLEAN]
    /\ lock \in [Orgs -> Workers \cup {NoWorker}]
    /\ worker \in [Workers -> WorkerRecord]
    /\ provider \in [Requests -> ProviderRecord]
    /\ day \in Nat /\ stops \in Nat

IsActive(r) == run[r].state \in Active
RunsOf(o) == {r \in Requests : run[r].state # "NONE" /\ run[r].org = o}

\* The reserved calls of the runs of rows created today in organization o:
\* a run counts in full whatever became of it.
RunsToday(rows, o) ==
    SumFunctionOnSet([r \in Requests |-> Calls[rows[r].kind]],
                     {r \in Requests : /\ rows[r].state # "NONE"
                                       /\ rows[r].org = o
                                       /\ rows[r].today})

\* An active account whose role in o is one of allowed.
Permitted(u, o, allowed) == active[u] /\ role[o][u] \in allowed

RolesFor(kind) == IF kind = "TEST" THEN {"OWNER"} ELSE RunRoles

LastActiveOwner(o, u) ==
    /\ role[o][u] = "OWNER"
    /\ \A v \in Users \ {u} : ~(active[v] /\ role[o][v] = "OWNER")

\* expire_runs: one UPDATE per state, over all organizations.
\* (Mutants: the error code written to the state; expired leases queued
\* again; expired leases not swept at all.)
ExpiredInterrupted(rows) ==
    [r \in Requests |->
        IF rows[r].state \in Active /\ rows[r].lapsed
        THEN [rows[r] EXCEPT !.state = "interrupted"] ELSE rows[r]]
ExpiredRequeued(rows) ==
    [r \in Requests |->
        IF rows[r].state = "RUNNING" /\ rows[r].lapsed
        THEN [rows[r] EXCEPT !.state = "PENDING", !.lapsed = FALSE]
        ELSE rows[r]]
ExpiredQueuedOnly(rows) ==
    [r \in Requests |->
        IF rows[r].state = "PENDING" /\ rows[r].lapsed
        THEN [rows[r] EXCEPT !.state = "FAILED"] ELSE rows[r]]
Expired(rows) ==
    [r \in Requests |->
        IF rows[r].state \in Active /\ rows[r].lapsed
        THEN [rows[r] EXCEPT !.state = "FAILED"] ELSE rows[r]]

\* The UPDATE that cancels the active runs of a set of rows.
\* (Mutant: queued runs are forgotten.)
CancelledRunning(S) ==
    [r \in Requests |->
        IF r \in S /\ run[r].state = "RUNNING"
        THEN [run[r] EXCEPT !.state = "CANCELLED"] ELSE run[r]]
Cancelled(S) ==
    [r \in Requests |->
        IF r \in S /\ IsActive(r) THEN [run[r] EXCEPT !.state = "CANCELLED"]
                                  ELSE run[r]]

----------------------------------------------------------------------------
Init ==
    /\ \E o \in Orgs, u \in Users :
         run = [r \in Requests |->
                  [state |-> "NONE", org |-> o, user |-> u, kind |-> "TEST",
                   revision |-> 0, token |-> 0, lapsed |-> FALSE,
                   today |-> FALSE, attempts |-> 0, usage |-> 0]]
    /\ config \in [Orgs -> [revision : {0}, enabled : {FALSE}, limit : Limits]]
    /\ role \in [Orgs -> [Users -> Roles]]
    /\ \A o \in Orgs : \E u \in Users : role[o][u] = "OWNER"
    /\ active = [u \in Users |-> TRUE]
    /\ lock = [o \in Orgs |-> NoWorker]
    /\ worker = [w \in Workers |-> Idle]
    /\ provider = [r \in Requests |->
                     [requests |-> 0, late |-> 0, replies |-> 0]]
    /\ day = 0 /\ stops = 0

\* The two admission checks of enqueue.
\* (Mutants: only queued runs block; a team counts as one request.)
NoneQueued(rows, o) == \A x \in RunsOf(o) : rows[x].state # "PENDING"
SlotFree(rows, o) == \A x \in RunsOf(o) : rows[x].state \notin Active

BelowLimit(rows, o, kind) == RunsToday(rows, o) < config[o].limit
WithinLimit(rows, o, kind) ==
    RunsToday(rows, o) + Calls[kind] <= config[o].limit

\* services.enqueue.  A key that was already used returns the old row.
Enqueue(u, o, r, kind) ==
    LET rows == Expired(run) IN
    /\ lock[o] = NoWorker
    /\ Permitted(u, o, RolesFor(kind))
    /\ run[r].state = "NONE"
    /\ config[o].revision > 0
    /\ kind = "TEST" \/ config[o].enabled
    /\ SlotFree(rows, o)
    /\ WithinLimit(rows, o, kind)
    /\ run' = [rows EXCEPT ![r] =
                 [state |-> "PENDING", org |-> o, user |-> u, kind |-> kind,
                  revision |-> config[o].revision, token |-> 0,
                  lapsed |-> FALSE, today |-> TRUE, attempts |-> 0,
                  usage |-> 0]]
    /\ UNCHANGED <<tenancy, lock, worker, provider, bounds>>

\* services.cancel_run.
CancelRun(u, r) ==
    /\ lock[run[r].org] = NoWorker
    /\ IsActive(r)
    /\ Permitted(u, run[r].org, RolesFor(run[r].kind))
    /\ run' = Cancelled({r})
    /\ UNCHANGED <<tenancy, lock, worker, provider, bounds>>

\* services.list_runs and get_run: a reader sweeps before it reads.
ReadRuns(u, o) ==
    /\ Permitted(u, o, Roles \ {"NONE"})
    /\ run' = Expired(run)
    /\ UNCHANGED <<tenancy, lock, worker, provider, bounds>>

\* configuration.save_configuration.
SaveConfiguration(u, o, enabled, limit) ==
    /\ lock[o] = NoWorker
    /\ Permitted(u, o, {"OWNER"})
    /\ config[o].revision < MaxRevision
    /\ config' = [config EXCEPT ![o] = [revision |-> @.revision + 1,
                                        enabled |-> enabled, limit |-> limit]]
    /\ run' = Cancelled(RunsOf(o))
    /\ UNCHANGED <<role, active, lock, worker, provider, bounds>>

\* organizations.change_member_role and remove_member (new = "NONE").
ChangeRole(u, o, new) ==
    /\ lock[o] = NoWorker
    /\ \E v \in Users : Permitted(v, o, {"OWNER"})
    /\ role[o][u] # "NONE" /\ new # role[o][u]
    /\ ~LastActiveOwner(o, u)
    /\ new = "OWNER" => active[u]
    /\ role' = [role EXCEPT ![o][u] = new]
    /\ UNCHANGED <<run, config, active, lock, worker, provider, bounds>>

\* accounts.set_account_active.
Deactivate(u) ==
    /\ active[u]
    /\ \A o \in Orgs : role[o][u] # "NONE" =>
         lock[o] = NoWorker /\ ~LastActiveOwner(o, u)
    /\ active' = [active EXCEPT ![u] = FALSE]
    /\ run' = Cancelled({r \in Requests : run[r].user = u})
    /\ UNCHANGED <<config, role, lock, worker, provider, bounds>>

Activate(u) ==
    /\ ~active[u]
    /\ active' = [active EXCEPT ![u] = TRUE]
    /\ UNCHANGED <<run, config, role, lock, worker, provider, bounds>>

\* The clock passes the deadline of r.
Lapse(r) ==
    /\ IsActive(r) /\ ~run[r].lapsed
    /\ run' = [run EXCEPT ![r].lapsed = TRUE]
    /\ UNCHANGED <<tenancy, lock, worker, provider, bounds>>

Midnight ==
    /\ day < MaxDays
    /\ day' = day + 1
    /\ run' = [r \in Requests |-> [run[r] EXCEPT !.today = FALSE]]
    /\ UNCHANGED <<tenancy, lock, worker, provider, stops>>

----------------------------------------------------------------------------
\* The worker.  R(w) is the run it holds.
R(w) == worker[w].run
Kind(w) == run[R(w)].kind
At(w, p) == worker[w].pc = p
Go(w, p) == worker' = [worker EXCEPT ![w].pc = p]
Return(w) == worker' = [worker EXCEPT ![w] = Idle]

\* An exception: the assistant's node has its own handler, except in publish.
Handler(w) ==
    IF Kind(w) = "ASSISTANT" /\ worker[w].pc \in
          {"round", "reserve", "wait", "recheck", "accept"}
    THEN "nodefail" ELSE "fail"
Raise(w, outcome) ==
    worker' = [worker EXCEPT ![w] =
                 [@ EXCEPT !.pc = Handler(w), !.outcome = outcome]]

\* live_run: the filter of the worker's writes.
\* (Mutant: the state is not part of the filter.)
LiveByToken(w) == run[R(w)].token = worker[w].token /\ ~run[R(w)].lapsed
Live(w) ==
    /\ run[R(w)].state = "RUNNING"
    /\ run[R(w)].token = worker[w].token
    /\ ~run[R(w)].lapsed

\* connection_for: how a run that may not go on ends.
Changed(r) == LET c == config[run[r].org] IN
    c.revision # run[r].revision \/ (run[r].kind # "TEST" /\ ~c.enabled)
Revoked(r) == ~Permitted(run[r].user, run[r].org, RolesFor(run[r].kind))

Authorize(w, next) ==
    \/ Changed(R(w)) /\ Raise(w, "FAILED")
    \/ ~Changed(R(w)) /\ Revoked(R(w)) /\ Raise(w, "CANCELLED")
    \/ ~Changed(R(w)) /\ ~Revoked(R(w)) /\ Go(w, next)

\* A stop or a lost lease, seen between stages: the team returns and leaves
\* the run to its lease, the assistant's node raises.
Interrupted(w) == Kind(w) \in MultiStage /\ (worker[w].stopped \/ ~Live(w))
Leave(w) == \/ Kind(w) = "ASSISTANT" /\ Raise(w, "CANCELLED")
            \/ Kind(w) # "ASSISTANT" /\ Return(w)

\* claim_run: sweep, then lease a queued run under a fresh token.
Claim(w) ==
    LET rows == Expired(run)
        Queued == {r \in Requests : rows[r].state = "PENDING"} IN
    /\ At(w, "idle")
    /\ \/ /\ Queued = {}
          /\ run' = rows
          /\ UNCHANGED worker
       \/ \E r \in Queued :
          LET token == rows[r].token + 1 IN
          /\ run' = [rows EXCEPT ![r] = [rows[r] EXCEPT
                !.state = "RUNNING", !.token = token, !.lapsed = FALSE]]
          /\ worker' = [worker EXCEPT ![w] = [Idle EXCEPT
                !.pc = "open", !.run = r, !.token = token]]
    /\ UNCHANGED <<tenancy, lock, provider, bounds>>

\* The first connection_for, then the context, which may not be available.
Open(w) ==
    /\ At(w, "open")
    /\ Authorize(w, "context") \/ Raise(w, "FAILED")
    /\ UNCHANGED <<run, tenancy, lock, provider, bounds>>

Context(w) ==
    /\ At(w, "context")
    /\ \/ Live(w) /\ ~worker[w].stopped /\ Go(w, "round")
       \/ (~Live(w) \/ worker[w].stopped) /\ Return(w)
    /\ UNCHANGED <<run, tenancy, lock, provider, bounds>>

\* Before each stage, and before the only call of a single-stage run.
Round(w) ==
    /\ At(w, "round")
    /\ \/ Interrupted(w) /\ Leave(w)
       \/ ~Interrupted(w) /\ Authorize(w, "reserve")
    /\ UNCHANGED <<run, tenancy, lock, provider, bounds>>

\* The provider_calls counter written with the attempt.
\* (Mutant: the counter of the calls made so far.)
CallsMade(w) == worker[w].sent
CallsReserved(w) == worker[w].sent + 1

\* Count the attempt and renew the lease, in one guarded UPDATE.
Reserve(w) ==
    LET sent == worker[w].sent + 1
        exhausted == Kind(w) = "ASSISTANT" /\ sent > Calls[Kind(w)] IN
    /\ At(w, "reserve")
    /\ \/ /\ Live(w) /\ ~exhausted
          /\ worker' = [worker EXCEPT ![w] =
                           [@ EXCEPT !.pc = "send", !.sent = sent]]
          /\ run' = IF Kind(w) \in MultiStage
                    THEN [run EXCEPT ![R(w)].attempts = CallsReserved(w)]
                    ELSE run
       \/ (~Live(w) \/ exhausted) /\ Leave(w) /\ UNCHANGED run
    /\ UNCHANGED <<tenancy, lock, provider, bounds>>

\* The child process sends the request; overdue: the run is over by now.
Overdue(w) ==
    IF run[R(w)].state = "RUNNING" /\ ~run[R(w)].lapsed THEN 0 ELSE 1
Send(w) ==
    LET seen == provider[R(w)] IN
    /\ At(w, "send")
    /\ Go(w, "wait")
    /\ provider' = [provider EXCEPT ![R(w)] =
         [seen EXCEPT !.requests = seen.requests + 1,
                      !.late = seen.late + Overdue(w)]]
    /\ UNCHANGED <<run, tenancy, lock, bounds>>

\* bounded_complete returns, fails, times out or is stopped.
Answer(w) ==
    LET got == worker[w].got + 1 IN
    /\ At(w, "wait")
    /\ \/ /\ worker' = [worker EXCEPT ![w] =
                           [@ EXCEPT !.pc = "save", !.got = got]]
          /\ provider' = [provider EXCEPT ![R(w)].replies = @ + 1]
       \/ Raise(w, "FAILED") /\ UNCHANGED provider
    /\ UNCHANGED <<run, tenancy, lock, bounds>>

\* (Mutant: only a live run is charged.)
ChargeableLive(w) == Live(w)
Chargeable(w) == run[R(w)].token = worker[w].token

\* The usage of a returned call is written under the token alone, so that it
\* survives a cancellation.  The assistant's node does not write it here.
SaveUsage(w) ==
    /\ At(w, "save")
    /\ Go(w, "recheck")
    /\ run' = IF Kind(w) # "ASSISTANT" /\ Chargeable(w)
              THEN [run EXCEPT ![R(w)].usage = worker[w].got] ELSE run
    /\ UNCHANGED <<tenancy, lock, provider, bounds>>

\* After the call: lease, configuration and role again (a single-stage run
\* only its lease), then the validation of the answer.
Recheck(w) ==
    /\ At(w, "recheck")
    /\ \/ Interrupted(w) /\ Leave(w)
       \/ ~Interrupted(w) /\ Kind(w) \in MultiStage /\ Authorize(w, "accept")
       \/ Kind(w) \notin MultiStage /\ ~Live(w) /\ Return(w)
       \/ Kind(w) \notin MultiStage /\ Live(w) /\ Go(w, "publish")
       \/ (Kind(w) \in MultiStage \/ Live(w)) /\ ~Interrupted(w)
          /\ Raise(w, "FAILED")
    /\ UNCHANGED <<run, tenancy, lock, provider, bounds>>

\* A validated stage is saved; the last one is followed by publication, where
\* a stopped assistant raises.
Accept(w) ==
    LET finished == worker[w].got = Calls[Kind(w)] IN
    /\ At(w, "accept")
    /\ \/ /\ Live(w)
          /\ run' = [run EXCEPT ![R(w)].usage = worker[w].got]
          /\ \/ ~finished /\ Go(w, "round")
             \/ finished /\ Go(w, "publish")
             \/ /\ finished /\ Kind(w) = "ASSISTANT" /\ worker[w].stopped
                /\ worker' = [worker EXCEPT ![w] =
                      [@ EXCEPT !.pc = "fail", !.outcome = "CANCELLED"]]
       \/ ~Live(w) /\ Leave(w) /\ UNCHANGED run
    /\ UNCHANGED <<tenancy, lock, provider, bounds>>

\* select_for_update on the organization for the length of the transaction.
\* (Mutant: the lock is dropped after the check.)
Unlocked(w, o) == lock' = [lock EXCEPT ![o] = NoWorker]
Locked(w, o) == lock' = [lock EXCEPT ![o] = w]

\* publish, first half: the organization lock and connection_for.  A refusal
\* or a database error rolls the transaction back and is handled outside it.
Publish(w) ==
    LET o == run[R(w)].org IN
    /\ At(w, "publish")
    /\ lock[o] = NoWorker
    /\ Authorize(w, "commit") \/ Raise(w, "FAILED")
    /\ IF worker'[w].pc = "commit" THEN Locked(w, o) ELSE UNCHANGED lock
    /\ UNCHANGED <<run, tenancy, provider, bounds>>

\* publish, second half: the guarded UPDATE and the commit.
Commit(w) ==
    /\ At(w, "commit")
    /\ run' = IF Live(w)
              THEN [run EXCEPT ![R(w)] = [@ EXCEPT !.state = "SUCCEEDED",
                                                   !.usage = worker[w].got]]
              ELSE run
    /\ lock' = [lock EXCEPT ![run[R(w)].org] = NoWorker]
    /\ Return(w)
    /\ UNCHANGED <<tenancy, provider, bounds>>

\* The handlers of process_one.  Its usage dictionary is empty for an
\* assistant, whose counters live in assistant_runtime.execute.
Fail(w) ==
    LET known == IF Kind(w) = "ASSISTANT" THEN 0 ELSE worker[w].got
        tried == IF Kind(w) = "TEAM" THEN worker[w].sent ELSE 0
        ended == [run[R(w)] EXCEPT !.state = worker[w].outcome] IN
    /\ At(w, "fail")
    /\ run' = IF Live(w)
              THEN [run EXCEPT ![R(w)] =
                      IF worker[w].outcome = "CANCELLED" THEN ended
                      ELSE [ended EXCEPT !.usage = known, !.attempts = tried]]
              ELSE run
    /\ Return(w)
    /\ UNCHANGED <<tenancy, lock, provider, bounds>>

\* The handler of the assistant's node: end a live run, or add what was used
\* to a run that somebody else has ended.
NodeFail(w) ==
    LET row == run[R(w)]
        counted == [row EXCEPT !.usage = worker[w].got,
                               !.attempts = worker[w].sent] IN
    /\ At(w, "nodefail")
    /\ \/ /\ Live(w)
          /\ run' = [run EXCEPT ![R(w)] =
                       [counted EXCEPT !.state = worker[w].outcome]]
       \/ /\ ~Live(w)
          /\ run' = IF row.token = worker[w].token
                       /\ row.state \in {"CANCELLED", "FAILED"}
                    THEN [run EXCEPT ![R(w)] = counted] ELSE run
    /\ Return(w)
    /\ UNCHANGED <<tenancy, lock, provider, bounds>>

\* SIGTERM: seen at the next check.  The process that replaces this one
\* starts idle.
Stop(w) ==
    /\ ~At(w, "idle") /\ ~worker[w].stopped /\ stops < MaxStops
    /\ stops' = stops + 1
    /\ worker' = [worker EXCEPT ![w].stopped = TRUE]
    /\ UNCHANGED <<run, tenancy, lock, provider, day>>

\* The process dies, or process_one raises: an open transaction rolls back.
Kill(w) ==
    /\ ~At(w, "idle") /\ stops < MaxStops
    /\ stops' = stops + 1
    /\ Return(w)
    /\ lock' = [o \in Orgs |-> IF lock[o] = w THEN NoWorker ELSE lock[o]]
    /\ UNCHANGED <<run, tenancy, provider, day>>

----------------------------------------------------------------------------
WorkerStep(w) ==
    \/ Open(w) \/ Context(w) \/ Round(w) \/ Reserve(w) \/ Send(w)
    \/ Answer(w) \/ SaveUsage(w) \/ Recheck(w) \/ Accept(w)
    \/ Publish(w) \/ Commit(w) \/ Fail(w) \/ NodeFail(w)

Next ==
    \/ \E u \in Users, o \in Orgs, r \in Requests, k \in Kinds :
          Enqueue(u, o, r, k)
    \/ \E u \in Users, r \in Requests : CancelRun(u, r)
    \/ \E u \in Users, o \in Orgs : ReadRuns(u, o)
    \/ \E u \in Users, o \in Orgs, b \in BOOLEAN, n \in Limits :
          SaveConfiguration(u, o, b, n)
    \/ \E u \in Users, o \in Orgs, new \in Roles : ChangeRole(u, o, new)
    \/ \E u \in Users : Deactivate(u) \/ Activate(u)
    \/ \E r \in Requests : Lapse(r)
    \/ Midnight
    \/ \E w \in Workers : Claim(w) \/ WorkerStep(w) \/ Stop(w) \/ Kill(w)

Spec == Init /\ [][Next]_vars

\* The worker command loops for ever (runagentworker), a replaced process
\* starts again, and clocks move on.
Fairness ==
    /\ WF_vars(\E w \in Workers : Claim(w))
    /\ \A w \in Workers : WF_vars(WorkerStep(w))
    /\ \A r \in Requests : WF_vars(Lapse(r))

FairSpec == Spec /\ Fairness

----------------------------------------------------------------------------
\* An organization never has two runs queued or running, although admission,
\* claims, sweeps and cancellations interleave (agent_one_active_per_org).
OneActiveRunPerOrg ==
    \A r, s \in Requests :
        IsActive(r) /\ IsActive(s) /\ run[r].org = run[s].org => r = s

\* A run that may still call the provider was admitted under the settings in
\* force now: saving settings leaves no older run behind (save_configuration).
ActiveRunsUseCurrentConfiguration ==
    \A r \in Requests : IsActive(r) => ~Changed(r)

\* A run that has ended keeps its outcome, whatever a worker that still holds
\* it, a sweep or a late cancellation does (the live_run filter).
EndedRunsAreFinal ==
    [][\A r \in Requests : run[r].state \in Ended => run'[r].state = run[r].state]_vars

\* A result appears only under the settings the run was admitted with, on a
\* lease that holds, for a requester who may run research at that moment:
\* nothing changes between publish's check and its write.
PublishedOnlyWhilePermitted ==
    [][\A r \in Requests :
         run[r].state # "SUCCEEDED" /\ run'[r].state = "SUCCEEDED" =>
            run[r].state = "RUNNING" /\ ~run[r].lapsed
            /\ ~Changed(r) /\ ~Revoked(r)]_vars

\* The provider never sees more requests of a run than it reserved, however
\* often workers die, stop or lose their lease (no automatic replay).
RequestsWithinReservation ==
    \A r \in Requests : provider[r].requests <= Calls[run[r].kind]

\* After a cancellation or a lost lease at most the one request already on
\* its way reaches the provider: it prevents further stages.
OneRequestAfterTheEnd ==
    \A r \in Requests : provider[r].late <= 1

\* The attempt counter of a team run is never behind the provider: an attempt
\* is recorded before it is made.
AttemptsRecordedFirst ==
    \A r \in Requests :
        run[r].kind = "TEAM" => provider[r].requests <= run[r].attempts

\* Whatever the provider returned is in the usage of the run once its worker
\* has let go of it, also when the run was cancelled meanwhile.
ReturnedUsageRecorded ==
    \A r \in Requests :
        (\A w \in Workers : worker[w].run # r) =>
            run[r].usage = provider[r].replies

\* Admission keeps the reserved calls of the day within the limit in force.
AdmissionWithinDailyLimit ==
    [][\A o \in Orgs :
         RunsToday(run', o) > RunsToday(run, o) =>
            RunsToday(run', o) <= config[o].limit]_vars

\* No run keeps the slot of its organization for ever: the slot is free
\* again and again, even with workers dying in any state.
SlotIsFreed ==
    \A o \in Orgs : []<>(\A r \in RunsOf(o) : ~IsActive(r))

\* The queue keeps the promise of RunSlots: leases, workers, locks and sweeps
\* implement a slot per organization that each request fills at most once.
Slots == INSTANCE RunSlots WITH
    slot <- [o \in Orgs |-> {r \in RunsOf(o) : IsActive(r)}],
    outcome <- [r \in Requests |->
                  IF run[r].state \in Ended THEN run[r].state ELSE "NONE"],
    used <- {r \in Requests : run[r].state # "NONE"}

ImplementsRunSlots == Slots!Spec

\* The rows, the slot of an organization and what the provider saw of each run agree,
\* whatever lapses, sweeps, cancellations and saved settings come in between.
RunsAreSound ==
    /\ TypeOK /\ OneActiveRunPerOrg /\ ActiveRunsUseCurrentConfiguration
    /\ OneRequestAfterTheEnd /\ AttemptsRecordedFirst

\* What an organization is charged with: the usage of every answer, and reservations
\* within its daily limit.
UsageIsAccounted == []ReturnedUsageRecorded /\ AdmissionWithinDailyLimit
============================================================================
