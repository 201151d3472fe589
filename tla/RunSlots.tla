------------------------------ MODULE RunSlots ------------------------------
(***************************************************************************)
(* What the run queue promises to an organization, without workers, leases *)
(* or locks: one slot, filled by a request that was never used before and  *)
(* emptied exactly once, by a result or by a failure or cancellation.      *)
(***************************************************************************)
CONSTANTS Orgs, Requests

VARIABLES
    slot,      \* the open run of each organization: empty or a singleton
    outcome,   \* how each run ended
    used       \* the requests admitted so far

vars == <<slot, outcome, used>>

Outcomes == {"NONE", "SUCCEEDED", "FAILED", "CANCELLED"}

Open == UNION {slot[o] : o \in Orgs}
Without(E) == [o \in Orgs |-> slot[o] \ E]

\* The runs of E end without a result; nothing else changes its outcome.
Closes(E) ==
    /\ outcome' \in [Requests -> Outcomes]
    /\ \A r \in E : outcome'[r] \in {"FAILED", "CANCELLED"}
    /\ \A r \in Requests \ E : outcome'[r] = outcome[r]

Init ==
    /\ slot = [o \in Orgs |-> {}]
    /\ outcome = [r \in Requests |-> "NONE"]
    /\ used = {}

End(E) ==
    /\ Closes(E)
    /\ slot' = Without(E)
    /\ UNCHANGED used

\* Admission first ends what has outlived its deadline.
Admit(E, o, r) ==
    /\ r \notin used
    /\ Without(E)[o] = {}
    /\ Closes(E)
    /\ slot' = [Without(E) EXCEPT ![o] = {r}]
    /\ used' = used \cup {r}

Publish(o, r) ==
    /\ r \in slot[o]
    /\ outcome' = [outcome EXCEPT ![r] = "SUCCEEDED"]
    /\ slot' = Without({r})
    /\ UNCHANGED used

Next ==
    \/ \E E \in SUBSET Open : End(E)
    \/ \E E \in SUBSET Open, o \in Orgs, r \in Requests : Admit(E, o, r)
    \/ \E o \in Orgs, r \in Requests : Publish(o, r)

Spec == Init /\ [][Next]_vars
=============================================================================
