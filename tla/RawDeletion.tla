---------------------------- MODULE RawDeletion -----------------------------
(***************************************************************************)
(* The deletion of raw payloads (operations/raw_data.py; storage/raw.py):  *)
(* an operator's job, the maintenance workers that claim it under a lease, *)
(* and the mutation of market_observations they submit to ClickHouse.      *)
(*                                                                         *)
(* A worker holds one claim at a time, so the lease token is the worker    *)
(* that claimed last.  A lease is current or lapsed.  The window of the    *)
(* job covers all rows: what protects a row is the batch it was inserted   *)
(* in, against the checkpoint the operator saw.                            *)
(***************************************************************************)
EXTENDS Ingestion

CONSTANTS
    Cleaners,    \* maintenance workers
    Nobody,      \* no worker has claimed the job
    MaxAttempts, \* submissions a job may try: 3
    MaxStalls    \* bound: leases that lapse while their worker is at work

ASSUME DeletionAssumption ==
    /\ Nobody \notin Cleaners
    /\ MaxAttempts \in Nat \ {0} /\ MaxStalls \in Nat

VARIABLES
    job,       \* the RawPayloadDeletion row
    cleaner,   \* local state of process_deletion in each worker
    mutations, \* system.mutations of the job: submitted and not yet done
    allowed,   \* the operator may still purge payloads
    stalls     \* leases that lapsed under a worker

deletion == <<job, cleaner, mutations, allowed, stalls>>

Progress == {"none", "running", "done"}
Idle == [at |-> "idle", attempts |-> 0, seen |-> "none", verdict |-> "FAILED"]

Open == job.state \in {"PENDING", "RUNNING"}

\* owned_job.  (Mutant: without the lease token.)
OwnedByAny(w) == job.state = "RUNNING"
Owned(w) == job.state = "RUNNING" /\ job.owner = w /\ ~job.lapsed
Working(w, step) == cleaner[w].at = step
Leave(w) == cleaner' = [cleaner EXCEPT ![w] = Idle]
Advance(w, step) == cleaner' = [cleaner EXCEPT ![w].at = step]

\* Strictly older than the reconciled batch, and not cleared.
\* (Mutant: the reconciled batch as well.)
EligibleUpTo(c) == {o \in Observations : rows[o].batch \in 1..c /\ rows[o].raw}
Eligible(c) == {o \in Observations : rows[o].batch \in 1..(c - 1) /\ rows[o].raw}

\* The preview read the checkpoints, possibly some time ago.
Enqueue(c) ==
    /\ job.state = "NONE" /\ allowed
    /\ c \in 1..checkpoint
    /\ Eligible(c) # {}
    /\ job' = [job EXCEPT !.state = "PENDING", !.upto = c]
    /\ UNCHANGED <<cleaner, mutations, allowed, stalls>>

\* (Mutant: a job whose worker died is not taken over.)
PendingOnly == job.state = "PENDING"
Claimable == job.state = "PENDING" \/ (job.state = "RUNNING" /\ job.lapsed)

Claim(w) ==
    /\ Working(w, "idle")
    /\ Claimable
    /\ job' = [job EXCEPT !.state = "RUNNING", !.owner = w, !.lapsed = FALSE]
    /\ cleaner' = [cleaner EXCEPT ![w] = [Idle EXCEPT !.at = "status", !.attempts = job.attempts]]
    /\ UNCHANGED <<mutations, allowed, stalls>>

MutationStatus(w) ==
    /\ Working(w, "status")
    /\ cleaner' = [cleaner EXCEPT ![w].at = "summary", ![w].seen =
          CASE mutations.submitted = 0 -> "none"
            [] mutations.undone > 0 -> "running"
            [] OTHER -> "done"]
    /\ UNCHANGED <<job, mutations, allowed, stalls>>

Finished(w, verdict) == cleaner' = [cleaner EXCEPT ![w].at = "finish", ![w].verdict = verdict]

\* Nothing is left to clear and no mutation runs.  (Mutant: nothing runs.)
Quiet(w) == cleaner[w].seen # "running"
Cleared(w) == cleaner[w].seen # "running" /\ Eligible(job.upto) = {}

\* No submission any more.  (Mutant: one attempt more.)
RefusedLater(w) == ~allowed \/ cleaner[w].attempts > MaxAttempts
Refused(w) == ~allowed \/ cleaner[w].attempts >= MaxAttempts

\* What remains decides, with what was submitted before; a running mutation is
\* polled again, and the operator must still be authorized for a submission.
Summary(w) ==
    /\ Working(w, "summary")
    /\ \/ Cleared(w) /\ Finished(w, "SUCCEEDED")
       \/ ~Cleared(w) /\ cleaner[w].seen = "done" /\ Finished(w, "FAILED")
       \/ cleaner[w].seen = "running" /\ Leave(w)
       \/ /\ ~Cleared(w) /\ cleaner[w].seen = "none"
          /\ IF Refused(w) THEN Finished(w, "FAILED") ELSE Advance(w, "count")
    /\ UNCHANGED <<job, mutations, allowed, stalls>>

\* The attempt is counted before the submission, by the owner only.
Count(w) ==
    /\ Working(w, "count")
    /\ IF Owned(w)
       THEN /\ job' = [job EXCEPT !.attempts = cleaner[w].attempts + 1]
            /\ Advance(w, "submit")
       ELSE Leave(w) /\ UNCHANGED job
    /\ UNCHANGED <<mutations, allowed, stalls>>

\* Without a reply the worker cannot know; it leaves the job to its next claim.
Submit(w) ==
    /\ Working(w, "submit")
    /\ mutations' = [submitted |-> mutations.submitted + 1, undone |-> mutations.undone + 1]
    /\ Leave(w)
    /\ UNCHANGED <<job, allowed, stalls>>

Finish(w) ==
    /\ Working(w, "finish")
    /\ job' = IF Owned(w) THEN [job EXCEPT !.state = cleaner[w].verdict] ELSE job
    /\ Leave(w)
    /\ UNCHANGED <<mutations, allowed, stalls>>

\* A lease lapses between two polls, or under a slow worker.
Lapse ==
    /\ job.state = "RUNNING" /\ ~job.lapsed
    /\ job' = [job EXCEPT !.lapsed = TRUE]
    /\ IF Working(job.owner, "idle") THEN UNCHANGED stalls
       ELSE stalls < MaxStalls /\ stalls' = stalls + 1
    /\ UNCHANGED <<cleaner, mutations, allowed>>

Revoke ==
    /\ allowed
    /\ allowed' = FALSE
    /\ UNCHANGED <<job, cleaner, mutations, stalls>>

\* ClickHouse is unavailable or the worker stops; the job keeps its lease.
Interrupt(w) ==
    /\ ~Working(w, "idle")
    /\ Fails
    /\ Leave(w)
    /\ UNCHANGED <<job, mutations, allowed, stalls>>

\* ClickHouse rewrites the payloads of the rows the mutation selects.
Execute ==
    /\ mutations.undone > 0
    /\ mutations' = [mutations EXCEPT !.undone = @ - 1]
    /\ rows' = [o \in Observations |->
                   [rows[o] EXCEPT !.raw = @ /\ o \notin Eligible(job.upto)]]
    /\ UNCHANGED <<job, cleaner, allowed, stalls, failures>>

DeletionInit ==
    /\ job = [state |-> "NONE", upto |-> 0, owner |-> Nobody, lapsed |-> FALSE, attempts |-> 0]
    /\ cleaner = [w \in Cleaners |-> Idle]
    /\ mutations = [submitted |-> 0, undone |-> 0]
    /\ allowed = TRUE /\ stalls = 0

ProcessDeletion(w) ==
    \/ Claim(w) \/ MutationStatus(w) \/ Summary(w) \/ Count(w) \/ Submit(w) \/ Finish(w)

DeletionNext ==
    /\ \/ /\ \/ \E c \in Batches : Enqueue(c)
             \/ \E w \in Cleaners : ProcessDeletion(w)
             \/ Lapse
             \/ Revoke
          /\ UNCHANGED <<failures, rows>>
       \/ (\E w \in Cleaners : Interrupt(w)) /\ UNCHANGED rows
       \/ Execute
    /\ UNCHANGED <<collector, markers, crashes, reader>>

DeletionTypeOK ==
    /\ job \in [state : {"NONE", "PENDING", "RUNNING", "SUCCEEDED", "FAILED"},
                upto : Batches \cup {0}, owner : Cleaners \cup {Nobody},
                lapsed : BOOLEAN, attempts : 0..MaxAttempts]
    /\ cleaner \in [Cleaners ->
          [at : {"idle", "status", "summary", "count", "submit", "finish"},
           attempts : 0..MaxAttempts, seen : Progress, verdict : {"SUCCEEDED", "FAILED"}]]
    /\ mutations \in [submitted : Nat, undone : Nat]
    /\ allowed \in BOOLEAN /\ stalls \in 0..MaxStalls
=============================================================================
