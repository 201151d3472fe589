---------------------------- MODULE MCAgentRuns ----------------------------
(* Instances of AgentRuns for TLC. *)
EXTENDS AgentRuns, TLC

\* Two stages stand for the five of a team: enough for a stage that is
\* neither the first nor the last check before publication.
MCCalls == [k \in AllKinds |-> IF k \in MultiStage THEN 2 ELSE 1]

Symmetry == Permutations(Workers) \cup Permutations(Requests)
=============================================================================
