--------------------------- MODULE MCPaperReviews ---------------------------
(* Instances of PaperReviews for TLC. *)
EXTENDS PaperReviews, TLC

Symmetry == Permutations(Workers) \cup Permutations(Opportunities)
              \cup Permutations(Lanes)

Setting(shared, limit) == [shared |-> shared, limit |-> limit]
MCAlone == {Setting(FALSE, 1)}
MCBoth == {Setting(TRUE, 1), Setting(FALSE, 2)}

\* Two candidates of an experiment with a shared signal, one worker at a time and reviews
\* that wait; or two workers and one candidate until another could be opened, with reviews
\* that allow or wait.  Manual research and a newer experiment are left to the other
\* instances.
Busy == {w \in Workers : paper[w] # IdlePaper}
Begun == {o \in Opportunities : op[o].state # "NONE"}
Small ==
    /\ ~manual /\ ~experiment.retired /\ agent.verdict # "REJECT"
    /\ IF experiment.settings.shared THEN Cardinality(Busy) <= 1 /\ agent.verdict = "WAIT"
       ELSE Cardinality(Begun) <= 1 /\ \A o \in Begun : op[o].age <= 1
=============================================================================
