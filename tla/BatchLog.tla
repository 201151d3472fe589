------------------------------ MODULE BatchLog ------------------------------
(***************************************************************************)
(* What the market-data pipeline promises, without journals, retries or    *)
(* checkpoints: a log of batches that are published once, in the order of  *)
(* their numbers, never change afterwards, and are read once, in order,    *)
(* as they were published.                                                 *)
(***************************************************************************)
EXTENDS Naturals

CONSTANTS Observations, Batches

VARIABLES
    published, \* the observations of each batch, none before it is published
    delivered, \* what the reader received as each batch
    position   \* the last batch the reader received

vars == <<published, delivered, position>>

Published == {b \in Batches : published[b] # {}}

Init ==
    /\ published = [b \in Batches |-> {}]
    /\ delivered = [b \in Batches |-> {}]
    /\ position = 0

Publish(b, S) ==
    /\ Published = 1..(b - 1)
    /\ \A c \in Published : published[c] \cap S = {}
    /\ published' = [published EXCEPT ![b] = S]
    /\ UNCHANGED <<delivered, position>>

Deliver(b) ==
    /\ b = position + 1
    /\ b \in Published
    /\ delivered' = [delivered EXCEPT ![b] = published[b]]
    /\ position' = b
    /\ UNCHANGED published

Next == \E b \in Batches : Deliver(b) \/ \E S \in (SUBSET Observations) \ {{}} : Publish(b, S)

Spec == Init /\ [][Next]_vars
=============================================================================
