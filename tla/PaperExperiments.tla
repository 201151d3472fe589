--------------------------- MODULE PaperExperiments ---------------------------
(***************************************************************************)
(* The paper experiments of the organizations and the execution universe   *)
(* they share (paper/services.py): creating, upgrading, starting and       *)
(* pausing experiments, and the list of markets run_once (paper/worker.py) *)
(* publishes for the order-book collector.                                 *)
(*                                                                         *)
(* A request is a transaction that checks under the lock of the plan row   *)
(* and writes later; between the two the paper worker processes            *)
(* experiments and publishes.  Accounts are reduced to whether the         *)
(* experiment holds positions and has pending orders (see PaperTrading).   *)
(***************************************************************************)
EXTENDS Integers, FiniteSets, Sequences

CONSTANTS
    Organization, Tradable,     \* organizations, markets
    Capacity,                   \* 20 markets for one collector
    MaxExperiments,             \* bound on the experiments of an organization
    NoRequest

\* The request an organization is making, once it has passed its checks.
ExperimentRequest == [kind : {"create", "start"}, version : {"v1", "v2", "v3", ""}, markets : SUBSET Tradable]

ASSUME ExperimentsAssumption ==
    /\ Capacity \in Nat /\ MaxExperiments \in Nat
    /\ IsFiniteSet(Tradable) /\ NoRequest \notin ExperimentRequest

VARIABLES
    experiments,    \* the Experiment rows of each organization, oldest first
    request,        \* the request of each organization that has passed its checks
    universe,       \* paper:universe:v1, empty when it expired
    blocked         \* run_once raised: no experiment is processed

experimentVars == <<experiments, request, universe, blocked>>

Rows == {<<o, i>> : o \in Organization, i \in 1..MaxExperiments}
Existing == {r \in Rows : r[2] <= Len(experiments[r[1]])}
Experiment(r) == experiments[r[1]][r[2]]
Previous(o) == Len(experiments[o])

\* execution_market_ids: what running experiments watch, and those that still hold.
ExecutionMarkets ==
    UNION {Experiment(r).markets : r \in {x \in Existing : Experiment(x).running \/ Experiment(x).held}}

\* Mutant: the check and the write are not serialized.
PlanUnlockedAlways(o) == request[o] = NoRequest
\* Organization row and lock_plan.
PlanUnlocked(o) == \A other \in Organization : request[other] = NoRequest

Fits(markets) == Cardinality(ExecutionMarkets \union markets) <= Capacity

\* The versions a new experiment may have, and the markets to choose from.
MayCreate(o, version, markets) ==
    /\ Previous(o) < MaxExperiments
    /\ version # "v3" => Previous(o) = 0
    /\ version = "v3" /\ Previous(o) > 0 => markets \subseteq experiments[o][Previous(o)].markets

BeginCreate(o, version, markets) ==
    /\ PlanUnlocked(o) /\ MayCreate(o, version, markets)
    /\ markets # {} /\ Fits(markets)
    /\ request' = [request EXCEPT ![o] = [kind |-> "create", version |-> version, markets |-> markets]]
    /\ UNCHANGED <<experiments, universe, blocked>>

\* upgrade_experiment: the latest is a v1 experiment, the new one takes its markets.
BeginUpgrade(o) ==
    /\ PlanUnlocked(o) /\ Previous(o) \in 1..(MaxExperiments - 1)
    /\ LET previous == experiments[o][Previous(o)]
       IN /\ previous.version = "v1" /\ Fits(previous.markets)
          /\ request' = [request EXCEPT ![o] =
               [kind |-> "create", version |-> "v2", markets |-> previous.markets]]
    /\ UNCHANGED <<experiments, universe, blocked>>

\* set_running(True): only the latest experiment resumes.
BeginStart(o) ==
    /\ PlanUnlocked(o) /\ Previous(o) > 0
    /\ Fits(experiments[o][Previous(o)].markets)
    /\ request' = [request EXCEPT ![o] = [kind |-> "start", version |-> "", markets |-> {}]]
    /\ UNCHANGED <<experiments, universe, blocked>>

\* Pausing cancels the pending orders; positions stay.
Paused(row) == [row EXCEPT !.running = FALSE, !.pending = FALSE]

\* create_experiment stops the previous experiment.
Stopped(rows) == [i \in DOMAIN rows |-> IF i = Len(rows) THEN Paused(rows[i]) ELSE rows[i]]

CommitRequest(o) ==
    /\ request[o] # NoRequest
    /\ LET new == [version |-> request[o].version, markets |-> request[o].markets,
                   running |-> TRUE, held |-> FALSE, pending |-> FALSE]
       IN experiments' = [experiments EXCEPT ![o] =
            IF request[o].kind = "create" THEN Append(Stopped(@), new)
            ELSE [@ EXCEPT ![Len(@)].running = TRUE]]
    /\ request' = [request EXCEPT ![o] = NoRequest]
    /\ UNCHANGED <<universe, blocked>>

\* set_running(False), of any experiment.
Pause(r) ==
    /\ PlanUnlocked(r[1]) /\ Experiment(r).running
    /\ experiments' = [experiments EXCEPT ![r[1]][r[2]] = Paused(@)]
    /\ UNCHANGED <<request, universe, blocked>>

\* process_experiment skips a row that is locked: a request holds the latest.
Processable(r) == ~blocked /\ (request[r[1]] = NoRequest \/ r[2] # Previous(r[1]))

\* decide: an order is placed; execute_order: it fills or lapses, and may close a position.
Order(r) ==
    /\ Processable(r) /\ Experiment(r).running /\ ~Experiment(r).pending
    /\ experiments' = [experiments EXCEPT ![r[1]][r[2]].pending = TRUE]
    /\ UNCHANGED <<request, universe, blocked>>

Execute(r, held) ==
    /\ Processable(r) /\ Experiment(r).running /\ Experiment(r).pending
    /\ experiments' = [experiments EXCEPT ![r[1]][r[2]] = [@ EXCEPT !.pending = FALSE, !.held = held]]
    /\ UNCHANGED <<request, universe, blocked>>

\* settle: also of a paused experiment.
Settle(r) ==
    /\ Processable(r) /\ Experiment(r).held
    /\ experiments' = [experiments EXCEPT ![r[1]][r[2]].held = FALSE]
    /\ UNCHANGED <<request, universe, blocked>>

\* publish_execution_universe, before every run.
PublishUniverse ==
    /\ blocked' = (Cardinality(ExecutionMarkets) > Capacity)
    /\ universe' = IF blocked' THEN universe ELSE ExecutionMarkets
    /\ UNCHANGED <<experiments, request>>

UniverseExpires == universe' = {} /\ UNCHANGED <<experiments, request, blocked>>

ExperimentsInit ==
    /\ experiments = [o \in Organization |-> <<>>]
    /\ request = [o \in Organization |-> NoRequest]
    /\ universe = {} /\ blocked = FALSE

ExperimentsNext ==
    \/ \E o \in Organization :
         \/ \E version \in {"v1", "v2", "v3"}, markets \in SUBSET Tradable :
              BeginCreate(o, version, markets)
         \/ BeginUpgrade(o) \/ BeginStart(o) \/ CommitRequest(o)
    \/ \E r \in Existing : Pause(r) \/ Order(r) \/ Settle(r) \/ \E held \in BOOLEAN : Execute(r, held)
    \/ PublishUniverse \/ UniverseExpires

ExperimentsSpec == ExperimentsInit /\ [][ExperimentsNext]_experimentVars

-----------------------------------------------------------------------------

\* However organizations create, upgrade, pause and resume at once, the markets of all
\* of them fit the one collector: publish_execution_universe, which would stop the paper
\* worker for everybody, never raises.
UniverseFits == ~blocked /\ Cardinality(ExecutionMarkets) <= Capacity

\* An organization runs one experiment, its latest, and only that one trades.
OnlyTheLatestRuns ==
    \A r \in Existing : Experiment(r).running \/ Experiment(r).pending => r[2] = Previous(r[1]) /\ Experiment(r).running

ExperimentsOK == UniverseFits /\ OnlyTheLatestRuns
=============================================================================
